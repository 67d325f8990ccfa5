--------------------------- MODULE StateFileProofs ---------------------------
(***************************************************************************)
(* Proofs about module StateFile, for every set of files and every bound   *)
(* on the states: its types, that the file is whole until the server is    *)
(* told to stop, and that the protocol implements AtomicFile.              *)
(* WriterOwnsTemporary is the inductive invariant.                         *)
(***************************************************************************)
EXTENDS StateFile, TLAPS

IInv == TypeOK /\ WriterOwnsTemporary

LEMMA InitEstablishesInvariant == Init => IInv
<1> SUFFICES ASSUME Init  PROVE IInv
  OBVIOUS
<1>1. TypeOK
  BY DEF Init, TypeOK, Writers, Steps
<1>2. WriterOwnsTemporary
  BY StateFileAssumption DEF Init, WriterOwnsTemporary, StatesWereGivenOut, Readable, FileState, Carries, Writers
<1> QED
  BY <1>1, <1>2 DEF IInv

-----------------------------------------------------------------------------
(* Every variable keeps its type: in particular what a restarted process   *)
(* takes for its state is a state, because it refuses any other file.      *)
LEMMA NextKeepsTypes ==
    ASSUME TypeOK, [Next]_vars
    PROVE  TypeOK'
<1> USE DEF TypeOK
<1>1. CASE Change
  BY <1>1 DEF Change
<1>2. CASE Stop
  BY <1>2 DEF Stop, Writers, Steps
<1>3. CASE Restart
  BY <1>3 DEF Restart, Readable, Writers, Steps
<1>4. ASSUME NEW w \in Writers, Lock(w)  PROVE TypeOK'
  BY <1>4 DEF Lock, Steps
<1>5. ASSUME NEW w \in Writers, Encode(w)  PROVE TypeOK'
  BY <1>5 DEF Encode, Steps
<1>6. ASSUME NEW w \in Writers, Open(w)  PROVE TypeOK'
  BY <1>6 DEF Open, Steps
<1>7. ASSUME NEW w \in Writers, Fill(w)  PROVE TypeOK'
  BY <1>7 DEF Fill, Steps
<1>8. ASSUME NEW w \in Writers, Rename(w)  PROVE TypeOK'
  BY <1>8 DEF Rename, Released, Steps
<1>9. ASSUME NEW w \in Writers, Fail(w)  PROVE TypeOK'
  BY <1>9 DEF Fail, Released, Steps
<1>10. CASE UNCHANGED vars
  BY <1>10 DEF vars
<1> QED
  BY <1>1, <1>2, <1>3, <1>4, <1>5, <1>6, <1>7, <1>8, <1>9, <1>10 DEF Next, Write

\* Type correctness of the file protocol, for every number of files and states.
THEOREM TypeCorrect == Spec => []TypeOK
<1>1. Init => TypeOK
  BY InitEstablishesInvariant DEF IInv
<1>2. TypeOK /\ [Next]_vars => TypeOK'
  BY NextKeepsTypes
<1> QED
  BY <1>1, <1>2, PTL DEF Spec

-----------------------------------------------------------------------------
LEMMA NextKeepsStates ==
    ASSUME IInv, [Next]_vars
    PROVE  StatesWereGivenOut'
<1> USE StateFileAssumption DEF IInv, TypeOK
<1>a. StatesWereGivenOut
  BY DEF WriterOwnsTemporary
<1>1. CASE Change
  BY <1>1, <1>a DEF Change, StatesWereGivenOut
<1>2. CASE Stop
  BY <1>2, <1>a DEF Stop, StatesWereGivenOut
<1>3. CASE Restart
  BY <1>3, <1>a DEF Restart, Readable, StatesWereGivenOut
<1>4. ASSUME NEW w \in Writers, Encode(w)  PROVE StatesWereGivenOut'
  BY <1>4, <1>a DEF Encode, StatesWereGivenOut
<1>5. ASSUME NEW w \in Writers, Open(w)  PROVE StatesWereGivenOut'
  BY <1>5, <1>a DEF Open, StatesWereGivenOut
<1>6. ASSUME NEW w \in Writers, Fill(w)  PROVE StatesWereGivenOut'
  <2>1. PICK written \in {bytes[w], Torn} :
            content' = [content EXCEPT ![fd[w]] = written]
    BY <1>6 DEF Fill
  <2>2. UNCHANGED <<latest, born, memory, bytes>>
    BY <1>6 DEF Fill
  <2> QED
    BY <1>a, <2>1, <2>2 DEF StatesWereGivenOut
<1>7. ASSUME NEW w \in Writers, Lock(w) \/ Rename(w) \/ Fail(w)
      PROVE  StatesWereGivenOut'
  BY <1>7, <1>a DEF Lock, Rename, Fail, StatesWereGivenOut
<1>8. CASE UNCHANGED vars
  BY <1>8, <1>a DEF vars, StatesWereGivenOut
<1> QED
  BY <1>1, <1>2, <1>3, <1>4, <1>5, <1>6, <1>7, <1>8 DEF Next, Write

(* What a step does to the file the writer has open.                       *)
LEMMA NextKeepsOwnership ==
    ASSUME IInv, [Next]_vars
    PROVE  WriterOwnsTemporary'
<1> USE StateFileAssumption DEF IInv, TypeOK
<1>a. \A w \in Writers : w = "persister" \/ w = "shutdown"
  BY DEF Writers
<1>b. "persister" \in Writers /\ "shutdown" \in Writers
  BY DEF Writers
<1>s. StatesWereGivenOut /\ StatesWereGivenOut'
  BY NextKeepsStates DEF WriterOwnsTemporary
<1>f. Readable => FileState \in Nat /\ FileState <= latest
  BY <1>s DEF Readable, FileState, StatesWereGivenOut
<1>1. CASE Change
  <2>1. /\ latest \in Nat /\ born \in Nat /\ memory \in Nat /\ bytes["persister"] \in Nat
        /\ memory <= latest /\ born <= latest
    BY <1>b, <1>s DEF StatesWereGivenOut
  <2>2. memory' = latest + 1 /\ FileState' = FileState /\ Readable' = Readable
    BY <1>1 DEF Change, FileState, Readable
  <2> QED
    BY <1>1, <1>s, <1>f, <2>1, <2>2 DEF Change, WriterOwnsTemporary, Carries
<1>2. CASE Stop
  BY <1>2, <1>s DEF Stop, WriterOwnsTemporary
<1>3. CASE Restart
  <2>1. memory' = FileState' /\ FileState' = FileState /\ FileState \in Nat /\ Readable'
    BY <1>3, <1>f DEF Restart, FileState, Readable
  <2>2. pc'["persister"] = "idle" /\ pc'["shutdown"] = "idle"
    BY <1>3, <1>b DEF Restart
  <2> QED
    BY <1>3, <1>s, <2>1, <2>2 DEF Restart, WriterOwnsTemporary, Carries
<1>4. ASSUME NEW w \in Writers, Lock(w)  PROVE WriterOwnsTemporary'
  BY <1>4, <1>a, <1>b, <1>s, <1>f DEF Lock, WriterOf, WriterOwnsTemporary, Readable, FileState, Carries
<1>5. ASSUME NEW w \in Writers, Encode(w)  PROVE WriterOwnsTemporary'
  BY <1>5, <1>a, <1>b, <1>s, <1>f DEF Encode, WriterOwnsTemporary, Readable, FileState, Carries
<1>6. ASSUME NEW w \in Writers, Open(w)  PROVE WriterOwnsTemporary'
  <2>1. PICK f \in Files : /\ IF temp = None THEN ~InUse(f) ELSE f = temp
                           /\ fd' = [fd EXCEPT ![w] = f]
                           /\ temp' = f
                           /\ content' = [content EXCEPT ![f] = Empty]
    BY <1>6 DEF Open
  <2>2. f # path
    BY <2>1 DEF InUse, WriterOwnsTemporary
  <2>3. path' = path /\ FileState' = FileState /\ (Readable => Readable')
    BY <1>6, <2>1, <2>2 DEF Open, FileState, Readable
  <2>4. temp' # None /\ temp' # path' /\ fd'[w] = temp' /\ content'[temp'] = Empty
    BY <2>1, <2>2, <2>3
  <2>5. CASE phase = "running"
    <3>1. w = "persister"
      BY <1>6, <1>a, <2>5 DEF Open, WriterOwnsTemporary
    <3>2. pc'["persister"] = "fill" /\ pc'["shutdown"] = pc["shutdown"]
      BY <1>6, <1>b, <3>1 DEF Open
    <3> QED
      BY <1>6, <1>s, <2>3, <2>4, <2>5, <3>1, <3>2 DEF Open, WriterOwnsTemporary, Carries
  <2>6. CASE phase # "running"
    BY <1>6, <1>s, <2>4, <2>6 DEF Open, WriterOwnsTemporary
  <2> QED
    BY <2>5, <2>6
<1>7. ASSUME NEW w \in Writers, Fill(w)  PROVE WriterOwnsTemporary'
  <2>1. CASE phase = "running"
    <3>1. w = "persister" /\ pc["persister"] = "fill"
      BY <1>7, <1>a, <2>1 DEF Fill, WriterOwnsTemporary
    <3>2. temp \in Files /\ temp # path /\ fd["persister"] = temp /\ content[temp] = Empty
      BY <2>1, <3>1 DEF WriterOwnsTemporary
    <3>3. content' = [content EXCEPT ![temp] = bytes["persister"]]
      BY <1>7, <3>1, <3>2 DEF Fill
    <3>4. path' = path /\ FileState' = FileState /\ (Readable => Readable')
      BY <1>7, <3>2, <3>3 DEF Fill, FileState, Readable
    <3>5. /\ pc'["persister"] = "rename" /\ pc'["shutdown"] = pc["shutdown"]
          /\ content'[temp] = bytes["persister"]
      BY <1>7, <1>b, <3>1, <3>2, <3>3 DEF Fill
    <3> QED
      BY <1>7, <1>s, <2>1, <3>1, <3>2, <3>4, <3>5 DEF Fill, WriterOwnsTemporary, Carries
  <2>2. CASE phase # "running"
    BY <1>7, <1>s, <2>2 DEF Fill, WriterOwnsTemporary
  <2> QED
    BY <2>1, <2>2
<1>8. ASSUME NEW w \in Writers, Rename(w)  PROVE WriterOwnsTemporary'
  <2>1. CASE phase = "running"
    <3>1. w = "persister" /\ lock = "persister" /\ Carries("persister")
      BY <1>8, <1>a, <2>1 DEF Rename, WriterOwnsTemporary, Carries
    <3>2. temp \in Files /\ content[temp] = bytes["persister"] /\ bytes["persister"] \in Nat
      BY <1>8, <1>b, <2>1, <3>1 DEF Rename, WriterOwnsTemporary
    <3>3. FileState' = bytes["persister"] /\ Readable'
      BY <1>8, <3>2 DEF Rename, FileState, Readable
    <3>4. pc'["persister"] = "idle" /\ pc'["shutdown"] = "idle" /\ lock' = None
      BY <1>8, <1>b, <2>1, <3>1 DEF Rename, Released, WriterOwnsTemporary
    <3> QED
      BY <1>8, <1>s, <1>f, <2>1, <3>1, <3>2, <3>3, <3>4 DEF Rename, WriterOwnsTemporary, Carries
  <2>2. CASE phase # "running"
    BY <1>8, <1>s, <2>2 DEF Rename, WriterOwnsTemporary
  <2> QED
    BY <2>1, <2>2
<1>9. ASSUME NEW w \in Writers, Fail(w)  PROVE WriterOwnsTemporary'
  BY <1>9, <1>a, <1>b, <1>s DEF Fail, Released, WriterOwnsTemporary, Readable, FileState, Carries
<1>10. CASE UNCHANGED vars
  BY <1>10, <1>s DEF vars, WriterOwnsTemporary, Readable, FileState, Carries
<1> QED
  BY <1>1, <1>2, <1>3, <1>4, <1>5, <1>6, <1>7, <1>8, <1>9, <1>10 DEF Next, Write

LEMMA InvariantHolds == Spec => []IInv
<1>1. IInv /\ [Next]_vars => IInv'
  BY NextKeepsTypes, NextKeepsOwnership DEF IInv
<1> QED
  BY InitEstablishesInvariant, <1>1, PTL DEF Spec

\* Only one writer is ever between opening and renaming the temporary file while
\* the server runs, and it owns the name.
THEOREM OneWriter == Spec => []WriterOwnsTemporary
BY InvariantHolds, PTL DEF IInv

\* Whoever reads the state file while the server runs finds one whole state, for
\* every number of files and states and whether or not a stop follows.
THEOREM WholeUntilStopped == Spec => []WholeWhileRunning
<1>1. IInv => WholeWhileRunning
  BY DEF IInv, WriterOwnsTemporary, WholeWhileRunning
<1> QED
  BY InvariantHolds, <1>1, PTL

-----------------------------------------------------------------------------
(* What each step of the protocol is to the file: renaming saves a state,  *)
(* ending the process falls back to the file, changing the hub alters it,  *)
(* and every other step of a running server leaves the file alone.  A      *)
(* writer that outlives the stop signal may spoil it.                      *)
LEMMA StepRefines ==
    ASSUME IInv, [Next]_vars
    PROVE  [Abstract!FileNext]_(Abstract!fileVars)
<1> USE StateFileAssumption DEF IInv, TypeOK
<1>a. \A w \in Writers : w = "persister" \/ w = "shutdown"
  BY DEF Writers
<1>b. Readable => FileState \in Nat
  BY DEF FileState, Readable
<1>1. CASE Change
  BY <1>1 DEF Change, FileState, Abstract!FileNext, Abstract!Alter
<1>2. CASE Restart
  BY <1>2, <1>b DEF Restart, FileState, Abstract!FileNext, Abstract!Fall
<1>3. CASE Stop
  BY <1>3 DEF Stop, FileState, Abstract!FileNext, Abstract!StopPromising
<1>4. ASSUME NEW w \in Writers, Rename(w), phase = "running"
      PROVE  Abstract!Save \/ UNCHANGED Abstract!fileVars
  <2>1. w = "persister" /\ Carries("persister") /\ content[temp] = bytes["persister"]
    BY <1>4, <1>a DEF Rename, WriterOwnsTemporary, Carries
  <2>2. FileState' = bytes["persister"]
    BY <1>4, <2>1 DEF Rename, FileState
  <2>3. FileState \in Nat /\ bytes["persister"] \in Nat
    BY <1>b, <1>4 DEF WriterOwnsTemporary, Writers
  <2>4. bytes["persister"] \in (born + 1)..latest /\ bytes["persister"] >= FileState
    BY <1>4, <2>1, <2>3 DEF WriterOwnsTemporary, StatesWereGivenOut
  <2>5. UNCHANGED <<latest, born, memory, phase>>
    BY <1>4 DEF Rename
  <2>6. CASE bytes["persister"] > FileState
    BY <1>4, <2>2, <2>4, <2>5, <2>6 DEF Abstract!Save
  <2>7. CASE bytes["persister"] = FileState
    BY <2>2, <2>5, <2>7 DEF Abstract!fileVars
  <2> QED
    BY <2>3, <2>4, <2>6, <2>7
<1>5. ASSUME NEW w \in Writers, Lock(w) \/ Encode(w) \/ Fail(w)
      PROVE  UNCHANGED Abstract!fileVars
  BY <1>5 DEF Lock, Encode, Fail, FileState, Abstract!fileVars
<1>6. ASSUME NEW w \in Writers, Open(w) \/ Fill(w), phase = "running"
      PROVE  UNCHANGED Abstract!fileVars
  <2>1. \E f \in Files : f # path /\ \E c : content' = [content EXCEPT ![f] = c]
    <3>1. CASE Open(w)
      BY <3>1 DEF Open, InUse, WriterOwnsTemporary
    <3>2. CASE Fill(w)
      <4>1. w = "persister" /\ fd[w] = temp /\ temp \in Files /\ temp # path
        BY <1>6, <1>a, <3>2 DEF Fill, WriterOwnsTemporary
      <4> QED
        BY <3>2, <4>1 DEF Fill
    <3> QED
      BY <1>6, <3>1, <3>2
  <2>2. UNCHANGED <<latest, born, memory, phase, path>>
    BY <1>6 DEF Open, Fill
  <2>3. FileState' = FileState
    BY <2>1, <2>2 DEF FileState
  <2> QED
    BY <2>2, <2>3 DEF Abstract!fileVars
<1>7. ASSUME NEW w \in Writers, Rename(w) \/ Open(w) \/ Fill(w), phase # "running"
      PROVE  Abstract!Spoil
  BY <1>7 DEF Rename, Open, Fill, Abstract!Spoil
<1>8. CASE UNCHANGED vars
  BY <1>8 DEF vars, FileState, Abstract!fileVars
<1> QED
  BY <1>1, <1>2, <1>3, <1>4, <1>5, <1>6, <1>7, <1>8 DEF Next, Write, Abstract!FileNext

\* The operations of write_state, however they fail and wherever between them the
\* process is stopped or killed, do what AtomicFile promises of a state file.
THEOREM Refinement == Spec => ImplementsAtomicFile
<1>1. Init => Abstract!FileInit
  BY DEF Init, FileState, Abstract!FileInit
<1>2. IInv /\ [Next]_vars => [Abstract!FileNext]_(Abstract!fileVars)
  BY StepRefines
<1> QED
  BY <1>1, <1>2, InvariantHolds, PTL DEF Spec, ImplementsAtomicFile, Abstract!FileSpec
==============================================================================
