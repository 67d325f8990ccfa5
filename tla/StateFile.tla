------------------------------ MODULE StateFile ------------------------------
(***************************************************************************)
(* How the state file is written: persist() of crates/chess-server/src/    *)
(* server.rs and write_state() of hub.rs, down to the directory entries    *)
(* and the files behind them.                                              *)
(*                                                                         *)
(* A state of the hub is a number.  write_state opens (and truncates) a    *)
(* temporary name that is the same for every write of the process, fills   *)
(* the file, and renames it over the state file.  It runs on a blocking    *)
(* thread: stopping the server aborts the persister and frees its lock,    *)
(* but the thread goes on while the final persist starts another.          *)
(***************************************************************************)
EXTENDS Integers

CONSTANTS
    None, Empty, Torn,
    Files,          \* files on disk, whatever their names
    MaxState        \* bound: states of the hub

ASSUME StateFileAssumption ==
    /\ None \notin Files
    /\ Empty \notin Nat /\ Torn \notin Nat /\ Empty # Torn
    /\ MaxState \in Nat

VARIABLES
    latest,         \* the last state number given out
    born,           \* the last one given out before this process started
    memory, dirty,
    phase,          \* "running", or "stopping" after the stop signal
    lock,           \* who holds persist_lock
    pc, bytes, fd,  \* per writer: next step, state to write, file it opened
    temp, path,     \* the file behind the temporary and behind the final name
    content         \* what a file holds

vars == <<latest, born, memory, dirty, phase, lock, pc, bytes, fd, temp, path, content>>

Writers == {"persister", "shutdown"}
Steps == {"idle", "encode", "open", "fill", "rename"}

WriterOf(ph) == IF ph = "running" THEN "persister" ELSE "shutdown"

Init ==
    /\ latest = 0 /\ born = 0 /\ memory = 0 /\ dirty = FALSE
    /\ phase = "running"
    /\ lock = None
    /\ pc = [w \in Writers |-> "idle"]
    /\ bytes = [w \in Writers |-> 0]
    /\ fd = [w \in Writers |-> None]
    /\ temp = None /\ path = None
    /\ content = [f \in Files |-> Empty]

\* A request or the ticker changes the hub.
Change ==
    /\ latest < MaxState
    /\ latest' = latest + 1
    /\ memory' = latest'
    /\ dirty' = TRUE
    /\ UNCHANGED <<born, phase, lock, pc, bytes, fd, temp, path, content>>

Lock(w) ==
    /\ w = WriterOf(phase)
    /\ pc[w] = "idle"
    /\ lock = None
    /\ lock' = w
    /\ pc' = [pc EXCEPT ![w] = "encode"]
    /\ UNCHANGED <<latest, born, memory, dirty, phase, bytes, fd, temp, path, content>>

\* Mutant: the state is encoded once and the same bytes are written every time.
EncodeOnce(w) ==
    /\ pc[w] = "encode"
    /\ bytes' = [bytes EXCEPT ![w] = IF @ = 0 THEN memory ELSE @]
    /\ pc' = [pc EXCEPT ![w] = "open"]
    /\ dirty' = FALSE
    /\ UNCHANGED <<latest, born, memory, phase, lock, fd, temp, path, content>>

Encode(w) ==
    /\ pc[w] = "encode"
    /\ IF dirty
       THEN /\ bytes' = [bytes EXCEPT ![w] = memory]
            /\ pc' = [pc EXCEPT ![w] = "open"]
            /\ dirty' = FALSE
            /\ UNCHANGED lock
       ELSE /\ pc' = [pc EXCEPT ![w] = "idle"]
            /\ lock' = None
            /\ UNCHANGED <<bytes, dirty>>
    /\ UNCHANGED <<latest, born, memory, phase, fd, temp, path, content>>

InUse(f) == f = temp \/ f = path \/ \E w \in Writers : pc[w] # "idle" /\ fd[w] = f

\* create(true).truncate(true)
Open(w) ==
    /\ pc[w] = "open"
    /\ \E f \in Files :
          /\ IF temp = None THEN ~InUse(f) ELSE f = temp
          /\ fd' = [fd EXCEPT ![w] = f]
          /\ temp' = f
          /\ content' = [content EXCEPT ![f] = Empty]
    /\ pc' = [pc EXCEPT ![w] = "fill"]
    /\ UNCHANGED <<latest, born, memory, dirty, phase, lock, bytes, path>>

\* write_all and sync_all.  Over bytes that another writer put there since this
\* one truncated the file, the rest of a longer state may stay behind.
Fill(w) ==
    /\ pc[w] = "fill"
    /\ \E written \in IF content[fd[w]] = Empty THEN {bytes[w]} ELSE {bytes[w], Torn} :
          content' = [content EXCEPT ![fd[w]] = written]
    /\ pc' = [pc EXCEPT ![w] = "rename"]
    /\ UNCHANGED <<latest, born, memory, dirty, phase, lock, bytes, fd, temp, path>>

Released(w) == IF lock = w THEN None ELSE lock

Rename(w) ==
    /\ pc[w] = "rename"
    /\ temp # None
    /\ path' = temp
    /\ temp' = None
    /\ pc' = [pc EXCEPT ![w] = "idle"]
    /\ lock' = Released(w)
    /\ UNCHANGED <<latest, born, memory, dirty, phase, bytes, fd, content>>

\* Mutant: a write that failed is not tried again.
FailForGood(w) ==
    /\ pc[w] \in {"open", "fill", "rename"}
    /\ pc' = [pc EXCEPT ![w] = "idle"]
    /\ lock' = Released(w)
    /\ UNCHANGED <<latest, born, memory, dirty, phase, bytes, fd, temp, path, content>>

\* Any of the file operations may fail; a rename does when the name is gone.
\* The task that waits for the write marks the state dirty, if it still waits.
Fail(w) ==
    /\ pc[w] \in {"open", "fill", "rename"}
    /\ pc' = [pc EXCEPT ![w] = "idle"]
    /\ dirty' = (dirty \/ lock = w)
    /\ lock' = Released(w)
    /\ UNCHANGED <<latest, born, memory, phase, bytes, fd, temp, path, content>>

\* persister.abort(): its lock is freed; what has not reached the blocking
\* thread is cancelled.
Stop ==
    /\ phase = "running"
    /\ phase' = "stopping"
    /\ lock' = None
    /\ pc' = [pc EXCEPT !["persister"] = IF @ = "encode" THEN "idle" ELSE @]
    /\ UNCHANGED <<latest, born, memory, dirty, bytes, fd, temp, path, content>>

\* A state file that is not one whole state keeps the server from starting.
Readable == path # None => content[path] \in Nat

\* The process ends, by a crash or an exit, and another starts from the file.
\* Its temporary name may be the same (the process ids of a container repeat).
Restart ==
    /\ Readable
    /\ memory' = IF path = None THEN 0 ELSE content[path]
    /\ born' = latest
    /\ dirty' = FALSE
    /\ phase' = "running"
    /\ lock' = None
    /\ pc' = [w \in Writers |-> "idle"]
    /\ temp' \in {temp, None}
    /\ UNCHANGED <<latest, bytes, fd, path, content>>

Write(w) == Lock(w) \/ Encode(w) \/ Open(w) \/ Fill(w) \/ Rename(w) \/ Fail(w)

Next == Change \/ Stop \/ Restart \/ \E w \in Writers : Write(w)

Spec == Init /\ [][Next]_vars

\* The persister keeps trying, and a disk that is tried again and again works
\* sooner or later.
FairSpec ==
    /\ Spec
    /\ \A w \in Writers : /\ WF_vars(Lock(w)) /\ WF_vars(Encode(w))
                          /\ SF_vars(Open(w)) /\ SF_vars(Fill(w)) /\ SF_vars(Rename(w))

-----------------------------------------------------------------------------
TypeOK ==
    /\ latest \in Nat /\ born \in Nat /\ memory \in Nat
    /\ dirty \in BOOLEAN
    /\ phase \in {"running", "stopping"}
    /\ lock \in Writers \cup {None}
    /\ pc \in [Writers -> Steps]
    /\ bytes \in [Writers -> Nat]
    /\ fd \in [Writers -> Files \cup {None}]
    /\ temp \in Files \cup {None}
    /\ path \in Files \cup {None}
    /\ content \in [Files -> Nat \cup {Empty, Torn}]

\* hub.rs, write_state, replaces the state file atomically: until the server is
\* told to stop, whatever write fails halfway, whenever the
\* process is killed and whatever temporary file its predecessor left behind,
\* the state file is one whole state.
WholeWhileRunning == phase = "running" => Readable

FileState == IF path = None THEN 0 ELSE content[path]

\* The state file does what AtomicFile promises of one: however the operations of
\* write_state fail, and wherever between them the process is killed.
Abstract == INSTANCE AtomicFile WITH file <- FileState, promised <- (phase = "running")
ImplementsAtomicFile == Abstract!FileSpec

\* Whatever is in memory, in a writer's hands or in a file was a state once.
StatesWereGivenOut ==
    /\ memory <= latest /\ born <= latest
    /\ \A w \in Writers : bytes[w] <= latest
    /\ \A f \in Files : content[f] \in Nat => content[f] <= latest

\* Why the file is whole and never goes back: the writer holds the lock from
\* before it encodes until after it renames, it alone has the temporary name
\* open, that name is never the state file, and what it carries is a state of
\* this process, no older than the file and no newer than the hub.
Carries(w) == pc[w] \in {"open", "fill", "rename"}

WriterOwnsTemporary ==
    /\ StatesWereGivenOut
    /\ temp # None => temp # path
    /\ phase = "running" =>
          /\ pc["shutdown"] = "idle"
          /\ lock = IF pc["persister"] = "idle" THEN None ELSE "persister"
          /\ pc["persister"] \in {"fill", "rename"} =>
                temp # None /\ fd["persister"] = temp
          /\ pc["persister"] = "fill" => content[temp] = Empty
          /\ pc["persister"] = "rename" => content[temp] = bytes["persister"]
          /\ Readable
          /\ FileState <= memory
          /\ dirty => born < memory
          /\ Carries("persister") => /\ FileState <= bytes["persister"]
                                     /\ born < bytes["persister"]
                                     /\ bytes["persister"] <= memory

\* Until the server is told to stop, the hub and the file keep coming together:
\* whatever write fails, the change it carried is written again, unless the
\* process ends first.
ChangesAreSaved == []<>(phase = "running" => memory = FileState)
==============================================================================
