----------------------------- MODULE AtomicFile -----------------------------
(***************************************************************************)
(* What the state file promises.  Every state the hub is ever in has a     *)
(* number, later states higher ones.  Until the server is told to stop,    *)
(* the file holds one whole state, only ever moves on to a later one of    *)
(* the process that is running, and is what the hub returns to when that   *)
(* process ends.  Once it has been told to stop nothing is promised of the *)
(* file, but a process only starts from a file that is one whole state.    *)
(***************************************************************************)
EXTENDS Integers

VARIABLES
    latest,     \* the last state number given out
    born,       \* the last one given out before this process started
    memory,     \* the state the hub is in
    file,       \* the state the file holds; 0 before the first write
    promised    \* whether the server has not been told to stop

fileVars == <<latest, born, memory, file, promised>>

FileInit == latest = 0 /\ born = 0 /\ memory = 0 /\ file = 0 /\ promised = TRUE

Alter ==
    /\ latest' = latest + 1 /\ memory' = latest'
    /\ UNCHANGED <<born, file, promised>>

Save ==
    /\ promised = TRUE
    /\ \E n \in (born + 1)..latest : n > file /\ file' = n
    /\ UNCHANGED <<latest, born, memory, promised>>

StopPromising ==
    promised = TRUE /\ promised' = FALSE /\ UNCHANGED <<latest, born, memory, file>>

Spoil == promised = FALSE /\ UNCHANGED <<latest, born, memory, promised>>

Fall ==
    /\ file \in Nat
    /\ memory' = file /\ born' = latest /\ promised' = TRUE
    /\ UNCHANGED <<latest, file>>

FileNext == Alter \/ Save \/ StopPromising \/ Spoil \/ Fall

FileSpec == FileInit /\ [][FileNext]_fileVars
==============================================================================
