---------------------------- MODULE AccountsProofs ----------------------------
(***************************************************************************)
(* Proofs about accounts and sessions, for any number of programs,         *)
(* visitors, keys and sessions and every interleaving of the calls their   *)
(* commands wait for: a connection is known by the account of its session, *)
(* and a session that a program says it signed out of is gone.             *)
(***************************************************************************)
EXTENDS Accounts, TLAPS

-----------------------------------------------------------------------------
(* Types                                                                   *)

Calling == {"create", "verify", "start", "use", "adopt", "sign out", "delete",
            "ticket", "link", "list"}

Task == [at       : Calling \cup Answers \cup {"closed", "idle"},
         by       : Programs \cup {None},
         user     : Users \cup {None},
         token    : Tokens \cup {None},
         key      : Keys \cup {None},
         session  : Tokens \cup {None},
         identity : Users \cup {None}]

Told == [words : {"signed out", "signed out here"}, token : Tokens \cup {None}]

ProgramState == [saved      : Tokens \cup {None},
                 ticket     : Tokens \cup {None},
                 job        : AllJobs \cup {None},
                 connection : Connections \cup {None},
                 told       : Told \cup {None}]

Visit == [at     : {"away", "connected", "look up", "start", "spawn", "running", "left"},
          key    : Keys \cup {None},
          user   : Users \cup {None},
          token  : Tokens \cup {None},
          ticket : Tokens \cup {None},
          made   : SUBSET Tokens]

AccountsType ==
    /\ issued \in Nat /\ dialled \in Nat /\ today \in Nat
    /\ users \subseteq Users
    /\ sessions \in [Tokens -> Nat \cup {None}]
    /\ owners \in [Tokens -> Users \cup {None}]
    /\ linked \in [Keys -> Users \cup {None}]
    /\ tickets \in [Tokens -> Keys \cup {None}]
    /\ tasks \in [Connections -> Task]
    /\ programs \in [Programs -> ProgramState]
    /\ visits \in [Visitors -> Visit]

-----------------------------------------------------------------------------
(* The invariant                                                           *)

\* A token that was given to somebody, among the first n.
Given(token, n) == token # None /\ token <= n

\* What a task knows of its account, when own says whose each of the first n tokens is.
KnownTask(task, n, own) ==
    /\ (task.identity = None) <=> (task.session = None)
    /\ task.session # None => Given(task.session, n) /\ own[task.session] = task.identity
    /\ task.at = "adopt" => /\ Given(task.token, n)
                            /\ own[task.token] = task.user /\ task.user # None
    /\ task.at = "signed in" => Given(task.token, n)
    /\ task.at \in {"create", "verify", "start"} => task.user # None
    /\ task.at \in {"use", "ticket"} => task.token # None

TasksKnown == \A c \in Connections : KnownTask(tasks[c], issued, owners)

SessionsOwned ==
    \A token \in Tokens : sessions[token] # None => Given(token, issued) /\ owners[token] # None

KnownVisit(visit, n) ==
    /\ visit.at = "look up" => visit.key # None
    /\ visit.at = "start" => visit.user # None
    /\ visit.token # None => Given(visit.token, n)

VisitsKnown == \A v \in Visitors : KnownVisit(visits[v], issued)

\* A program that does a job holds a connection, and no other program holds it.
KnownProgram(p, current, n) ==
    /\ current.saved # None => Given(current.saved, n)
    /\ current.job # None =>
          /\ current.connection # None /\ current.connection <= dialled
          /\ tasks[current.connection].by = p

ProgramsKnown == \A p \in Programs : KnownProgram(p, programs[p], issued)

AccountsInv ==
    AccountsType /\ TasksKnown /\ SessionsOwned /\ VisitsKnown /\ ProgramsKnown

-----------------------------------------------------------------------------
(* Steps                                                                   *)

\* Tokens are given out one by one and keep their owners.
OwnersStay ==
    /\ issued' \in Nat /\ issued <= issued'
    /\ \A token \in Tokens : token <= issued => owners'[token] = owners[token]

LEMMA TokensAreNumbers ==
    /\ None \notin Users \cup Keys \cup Programs \cup Nat
    /\ Tokens \subseteq Nat \ {0} /\ Connections \subseteq Nat \ {0}
<1>1. MaxTokens \in Nat /\ MaxConnections \in Nat /\ None \notin Users \cup Keys \cup Programs \cup Nat
  BY AccountsAssumption
<1>2. Tokens \subseteq Nat \ {0}
  BY <1>1 DEF Tokens
<1>3. Connections \subseteq Nat \ {0}
  BY <1>1 DEF Connections
<1> QED
  BY <1>1, <1>2, <1>3

LEMMA KnownTaskStays ==
    ASSUME AccountsType, OwnersStay, NEW task \in Task, KnownTask(task, issued, owners)
    PROVE  KnownTask(task, issued', owners')
<1>1. ASSUME NEW token, token \in Tokens \cup {None}, Given(token, issued)
      PROVE  Given(token, issued') /\ owners'[token] = owners[token]
  <2>1. token \in Tokens /\ token \in Nat /\ token <= issued
    BY <1>1, TokensAreNumbers DEF Given
  <2> QED
    BY <1>1, <2>1 DEF OwnersStay, AccountsType, Given
<1>2. task.token \in Tokens \cup {None} /\ task.session \in Tokens \cup {None}
  BY DEF Task
<1> QED
  BY <1>1, <1>2 DEF KnownTask

LEMMA NewSessionGives ==
    ASSUME AccountsType, SessionsOwned, NEW user \in Users, NewSession(user)
    PROVE  /\ OwnersStay /\ NextToken \in Tokens /\ issued' = NextToken
           /\ sessions' \in [Tokens -> Nat \cup {None}]
           /\ owners' \in [Tokens -> Users \cup {None}]
           /\ owners'[NextToken] = user
           /\ SessionsOwned'
<1>1. /\ NextToken \in Tokens /\ issued' = NextToken /\ issued' = issued + 1
      /\ issued \in Nat
  <2>1. issued \in Nat /\ MaxTokens \in Nat /\ issued < MaxTokens /\ issued' = issued + 1
    BY AccountsAssumption DEF NewSession, NextToken, AccountsType
  <2>2. issued + 1 \in 1..MaxTokens
    BY <2>1
  <2> QED
    BY <2>1, <2>2 DEF NextToken, Tokens
<1>2. /\ sessions' = [sessions EXCEPT ![NextToken] = today]
      /\ owners' = [owners EXCEPT ![NextToken] = user]
  BY DEF NewSession
<1>3. /\ sessions' \in [Tokens -> Nat \cup {None}]
      /\ owners' \in [Tokens -> Users \cup {None}]
  BY <1>1, <1>2 DEF AccountsType
<1>4. \A token \in Tokens :
         /\ token # NextToken => sessions'[token] = sessions[token]
         /\ owners'[token] = IF token = NextToken THEN user ELSE owners[token]
  BY <1>1, <1>2 DEF AccountsType
<1>5. OwnersStay
  BY <1>1, <1>4 DEF OwnersStay, NextToken
<1>6. SessionsOwned'
  BY <1>1, <1>4, TokensAreNumbers DEF SessionsOwned, Given
<1> QED
  BY <1>1, <1>3, <1>4, <1>5, <1>6

\* A step of the task of one connection, by whom it was dialled stays.
LEMMA OneTaskIsKnown ==
    ASSUME AccountsInv, OwnersStay, NEW c \in Connections, NEW new \in Task,
           tasks' = [tasks EXCEPT ![c] = new], new.by = tasks[c].by,
           KnownTask(new, issued', owners'),
           UNCHANGED <<programs, visits, dialled>>
    PROVE  /\ tasks' \in [Connections -> Task]
           /\ TasksKnown' /\ ProgramsKnown' /\ VisitsKnown'
<1> USE DEF AccountsInv
<1>1. /\ tasks' \in [Connections -> Task]
      /\ \A d \in Connections : tasks'[d] = IF d = c THEN new ELSE tasks[d]
  BY DEF AccountsType
<1>2. TasksKnown'
  <2> SUFFICES ASSUME NEW d \in Connections
               PROVE  KnownTask(tasks'[d], issued', owners')
    BY DEF TasksKnown
  <2>1. tasks[d] \in Task /\ KnownTask(tasks[d], issued, owners)
    BY DEF AccountsType, TasksKnown
  <2> QED
    BY <1>1, <2>1, KnownTaskStays
<1>3. \A n \in Nat : n <= issued => n <= issued'
  BY DEF OwnersStay, AccountsType
<1>4. ProgramsKnown'
  <2> SUFFICES ASSUME NEW p \in Programs
               PROVE  KnownProgram(p, programs[p], issued)'
    BY DEF ProgramsKnown
  <2>1. KnownProgram(p, programs[p], issued) /\ programs[p] \in ProgramState
    BY DEF ProgramsKnown, AccountsType
  <2>2. programs[p].job # None => programs[p].connection \in Connections
    BY <2>1 DEF KnownProgram, ProgramState
  <2>3. programs[p].saved # None => programs[p].saved \in Nat
    BY <2>1, TokensAreNumbers DEF ProgramState
  <2> QED
    BY <1>1, <1>3, <2>1, <2>2, <2>3 DEF KnownProgram, Given
<1>5. VisitsKnown'
  <2> SUFFICES ASSUME NEW v \in Visitors
               PROVE  KnownVisit(visits[v], issued')
    BY DEF VisitsKnown
  <2>1. KnownVisit(visits[v], issued) /\ visits[v] \in Visit
    BY DEF VisitsKnown, AccountsType
  <2>2. visits[v].token # None => visits[v].token \in Nat
    BY <2>1, TokensAreNumbers DEF Visit
  <2> QED
    BY <1>3, <2>1, <2>2 DEF KnownVisit, Given
<1> QED
  BY <1>1, <1>2, <1>4, <1>5

-----------------------------------------------------------------------------
(* The commands of a connection                                            *)

LEMMA SameOwnersStay ==
    ASSUME AccountsType, UNCHANGED <<issued, owners>>
    PROVE  OwnersStay
BY DEF AccountsType, OwnersStay

LEMMA TaskStepKeepsInv ==
    ASSUME AccountsInv, OwnersStay, NEW c \in Connections, NEW new \in Task,
           tasks' = [tasks EXCEPT ![c] = new], new.by = tasks[c].by,
           KnownTask(new, issued', owners'), SessionsOwned',
           UNCHANGED <<programs, visits, dialled, today>>,
           users' \subseteq Users,
           sessions' \in [Tokens -> Nat \cup {None}],
           owners' \in [Tokens -> Users \cup {None}],
           linked' \in [Keys -> Users \cup {None}],
           tickets' \in [Tokens -> Keys \cup {None}]
    PROVE  AccountsInv'
BY OneTaskIsKnown DEF AccountsInv, AccountsType, OwnersStay

\* A step that changes no more of the database than linked keys and tickets.
LEMMA PlainTaskStepKeepsInv ==
    ASSUME AccountsInv, NEW c \in Connections, NEW new \in Task,
           tasks' = [tasks EXCEPT ![c] = new], new.by = tasks[c].by,
           KnownTask(new, issued, owners), users' \subseteq Users,
           UNCHANGED <<programs, visits, dialled, today, sessions, owners, issued>>,
           linked' \in [Keys -> Users \cup {None}],
           tickets' \in [Tokens -> Keys \cup {None}]
    PROVE  AccountsInv'
<1>1. OwnersStay
  BY SameOwnersStay DEF AccountsInv
<1>2. SessionsOwned'
  BY DEF AccountsInv, SessionsOwned
<1>3. KnownTask(new, issued', owners')
  BY DEF KnownTask
<1> QED
  BY <1>1, <1>2, <1>3, TaskStepKeepsInv DEF AccountsInv, AccountsType

LEMMA NextCallKeepsInv ==
    ASSUME AccountsInv, NEW c \in Connections, NEW at, Goes(c, at),
           at \in {"start", "link", "idle"} \cup Answers,
           at = "start" => tasks[c].user # None,
           at = "signed in" => Given(tasks[c].token, issued),
           users' \subseteq Users,
           UNCHANGED <<programs, visits, dialled, today, sessions, owners, issued, tickets>>,
           linked' \in [Keys -> Users \cup {None}]
    PROVE  AccountsInv'
<1> DEFINE new == [tasks[c] EXCEPT !.at = at]
<1>1. tasks[c] \in Task /\ KnownTask(tasks[c], issued, owners)
  BY DEF AccountsInv, AccountsType, TasksKnown
<1>2. tasks' = [tasks EXCEPT ![c] = new]
  BY DEF Goes
<1>3. at \in Calling \cup Answers \cup {"closed", "idle"} /\ at \notin {"adopt", "create", "verify", "use", "ticket"}
  BY DEF Calling, Answers
<1>4. /\ new \in Task /\ new.at = at /\ new.user = tasks[c].user /\ new.token = tasks[c].token
      /\ new.session = tasks[c].session /\ new.identity = tasks[c].identity
      /\ new.by = tasks[c].by
  BY <1>1, <1>3 DEF Task
<1> HIDE DEF new
<1>5. KnownTask(new, issued, owners)
  BY <1>1, <1>3, <1>4 DEF KnownTask
<1>6. tickets' \in [Tokens -> Keys \cup {None}]
  BY DEF AccountsInv, AccountsType
<1> QED
  BY <1>2, <1>4, <1>5, <1>6, PlainTaskStepKeepsInv

LEMMA CommandKeepsInv ==
    ASSUME AccountsInv, NEW c \in Connections, Command(c)
    PROVE  AccountsInv'
<1> DEFINE task == tasks[c]
<1>1. task \in Task /\ KnownTask(task, issued, owners)
  BY DEF AccountsInv, AccountsType, TasksKnown
<1>2. AccountsType
  BY DEF AccountsInv
<1>3. None \notin Users \cup Keys \cup Programs \cup Nat /\ Tokens \subseteq Nat \ {0}
  BY TokensAreNumbers
<1> USE DEF databaseVars, gatewayVars, Calls
<1>4. CASE CreateUser(c)
  <2>1. task.user \in Users
    BY <1>1, <1>4 DEF CreateUser, KnownTask, Task
  <2>2. \E at \in {"taken", "start"} : Goes(c, at)
    BY <1>4 DEF CreateUser
  <2>3. /\ users' \subseteq Users
        /\ UNCHANGED <<programs, visits, dialled, today, sessions, owners, issued, tickets, linked>>
    BY <1>2, <1>4, <2>1 DEF CreateUser, AccountsType
  <2> QED
    BY <1>2, <1>3, <2>1, <2>2, <2>3, NextCallKeepsInv DEF Answers, AccountsType
<1>5. CASE Verify(c)
  <2>1. task.user # None
    BY <1>1, <1>5 DEF Verify, KnownTask
  <2>2. \E at \in {"refused", "start"} : Goes(c, at)
    BY <1>5 DEF Verify
  <2>3. UNCHANGED <<programs, visits, dialled, today, sessions, owners, issued, tickets, linked, users>>
    BY <1>5 DEF Verify
  <2> QED
    BY <1>2, <2>1, <2>2, <2>3, NextCallKeepsInv DEF Answers, AccountsType
<1>6. CASE StartSession(c)
  <2> DEFINE new == [task EXCEPT !.at = "adopt", !.token = NextToken]
  <2>1. task.user \in Users /\ task.user # None
    BY <1>1, <1>6 DEF StartSession, KnownTask, Task
  <2>2. NewSession(task.user)
    BY <1>6 DEF StartSession
  <2>3. /\ OwnersStay /\ NextToken \in Tokens /\ issued' = NextToken
        /\ sessions' \in [Tokens -> Nat \cup {None}]
        /\ owners' \in [Tokens -> Users \cup {None}]
        /\ owners'[NextToken] = task.user
        /\ SessionsOwned'
    BY <1>2, <2>1, <2>2, NewSessionGives DEF AccountsInv
  <2>4. tasks' = [tasks EXCEPT ![c] = new]
    BY <1>6 DEF StartSession
  <2>5. /\ new \in Task /\ new.at = "adopt" /\ new.token = NextToken /\ new.user = task.user
        /\ new.session = task.session /\ new.identity = task.identity /\ new.by = task.by
    BY <1>1, <2>3 DEF Task, Calling
  <2>6. KnownTask(task, issued', owners')
    BY <1>1, <1>2, <2>3, KnownTaskStays
  <2> HIDE DEF new
  <2>7. KnownTask(new, issued', owners')
    <3>1. Given(NextToken, issued')
      BY <1>3, <2>3 DEF Given
    <3> QED
      BY <2>1, <2>3, <2>5, <2>6, <3>1 DEF KnownTask
  <2>8. UNCHANGED <<programs, visits, dialled, today, users, linked, tickets>>
    BY <1>6 DEF StartSession
  <2> QED
    BY <1>2, <2>3, <2>4, <2>5, <2>7, <2>8, TaskStepKeepsInv DEF AccountsType
<1>7. CASE UseSession(c)
  <2> DEFINE new == [task EXCEPT !.at = "adopt", !.user = owners[task.token]]
  <2>1. task.token \in Tokens /\ task.at = "use"
    BY <1>1, <1>7 DEF UseSession, KnownTask, Task
  <2>2. CASE ~Valid(task.token)
    <3>1. Goes(c, "invalid")
      BY <1>7, <2>2 DEF UseSession
    <3>2. UNCHANGED <<programs, visits, dialled, today, sessions, owners, issued, tickets, linked, users>>
      BY <1>7, <2>2 DEF UseSession
    <3> QED
      BY <1>2, <3>1, <3>2, NextCallKeepsInv DEF Answers, AccountsType
  <2>3. CASE Valid(task.token)
    <3>1. sessions[task.token] # None
      BY <2>3 DEF Valid
    <3>2. Given(task.token, issued) /\ owners[task.token] \in Users
      BY <1>2, <2>1, <3>1 DEF AccountsInv, SessionsOwned, AccountsType
    <3>3. tasks' = [tasks EXCEPT ![c] = new]
      BY <1>7, <2>3 DEF UseSession
    <3>4. /\ UNCHANGED <<programs, visits, dialled, today, owners, issued, tickets, linked, users>>
          /\ sessions' = [sessions EXCEPT ![task.token] = today]
      BY <1>7, <2>3 DEF UseSession
    <3>5. /\ new \in Task /\ new.at = "adopt" /\ new.token = task.token
          /\ new.user = owners[task.token]
          /\ new.session = task.session /\ new.identity = task.identity /\ new.by = task.by
      BY <1>1, <3>2 DEF Task, Calling
    <3> HIDE DEF new
    <3>6. KnownTask(new, issued', owners')
      BY <1>1, <1>3, <3>2, <3>4, <3>5 DEF KnownTask
    <3>7. sessions' \in [Tokens -> Nat \cup {None}]
      BY <1>2, <3>4 DEF AccountsType
    <3>8. SessionsOwned'
      BY <1>2, <2>1, <3>1, <3>4 DEF AccountsInv, SessionsOwned, AccountsType
    <3> QED
      BY <1>2, <3>3, <3>4, <3>5, <3>6, <3>7, <3>8, SameOwnersStay, TaskStepKeepsInv
      DEF AccountsType
  <2> QED
    BY <2>2, <2>3
<1>8. CASE Adopt(c)
  <2> DEFINE new == [task EXCEPT !.at = "signed in", !.session = task.token, !.identity = task.user]
  <2>1. Given(task.token, issued) /\ owners[task.token] = task.user /\ task.user # None
    BY <1>1, <1>8 DEF Adopt, KnownTask
  <2>2. tasks' = [tasks EXCEPT ![c] = new]
    BY <1>8 DEF Adopt
  <2>3. /\ new \in Task /\ new.at = "signed in" /\ new.session = task.token
        /\ new.identity = task.user /\ new.token = task.token /\ new.by = task.by
    BY <1>1 DEF Task, Answers
  <2> HIDE DEF new
  <2>4. KnownTask(new, issued, owners)
    BY <2>1, <2>3 DEF KnownTask, Given
  <2>5. UNCHANGED <<programs, visits, dialled, today, sessions, owners, issued, tickets, linked, users>>
    BY <1>8 DEF Adopt
  <2> QED
    BY <1>2, <2>2, <2>3, <2>4, <2>5, PlainTaskStepKeepsInv DEF AccountsType
<1>9. CASE SignOut(c)
  <2> DEFINE at == IF task.session = None THEN "signed out" ELSE "delete"
             new == [task EXCEPT !.at = at, !.session = None, !.token = task.session,
                                 !.identity = None]
  <2>1. tasks' = [tasks EXCEPT ![c] = new]
    BY <1>9 DEF SignOut
  <2>2. at \in Calling \cup Answers /\ at \in {"signed out", "delete"}
    BY DEF Calling, Answers
  <2> HIDE DEF at
  <2>3. /\ new \in Task /\ new.at = at /\ new.session = None /\ new.identity = None
        /\ new.by = task.by
    BY <1>1, <2>2 DEF Task
  <2> HIDE DEF new
  <2>4. KnownTask(new, issued, owners)
    BY <2>2, <2>3 DEF KnownTask
  <2>5. UNCHANGED <<programs, visits, dialled, today, sessions, owners, issued, tickets, linked, users>>
    BY <1>9 DEF SignOut
  <2> QED
    BY <1>2, <2>1, <2>3, <2>4, <2>5, PlainTaskStepKeepsInv DEF AccountsType
<1>10. CASE DeleteSession(c)
  <2> DEFINE new == [task EXCEPT !.at = "signed out"]
  <2>1. tasks' = [tasks EXCEPT ![c] = new]
    BY <1>10 DEF DeleteSession, Goes
  <2>2. /\ new \in Task /\ new.at = "signed out" /\ new.session = task.session
        /\ new.identity = task.identity /\ new.by = task.by
    BY <1>1 DEF Task, Answers
  <2> HIDE DEF new
  <2>3. /\ UNCHANGED <<programs, visits, dialled, today, owners, issued, tickets, linked, users>>
        /\ sessions' = [sessions EXCEPT ![task.token] = None]
    BY <1>10 DEF DeleteSession, Revoked
  <2>4. KnownTask(new, issued', owners')
    BY <1>1, <2>2, <2>3 DEF KnownTask
  <2>5. sessions' \in [Tokens -> Nat \cup {None}]
    BY <1>2, <2>3 DEF AccountsType
  <2>6. SessionsOwned'
    BY <1>2, <2>3 DEF AccountsInv, SessionsOwned, AccountsType
  <2> QED
    BY <1>2, <2>1, <2>2, <2>3, <2>4, <2>5, <2>6, SameOwnersStay, TaskStepKeepsInv
    DEF AccountsType
<1>11. CASE SpendTicket(c)
  <2> DEFINE at == IF task.identity = None THEN "not signed in"
                   ELSE IF tickets[task.token] = None THEN "bad ticket" ELSE "link"
             new == [task EXCEPT !.at = at, !.key = tickets[task.token]]
  <2>1. task.token \in Tokens
    BY <1>1, <1>11 DEF SpendTicket, KnownTask, Task
  <2>2. tasks' = [tasks EXCEPT ![c] = new]
    BY <1>11 DEF SpendTicket
  <2>3. at \in Calling \cup Answers /\ at \in {"not signed in", "bad ticket", "link"}
    BY DEF Calling, Answers
  <2> HIDE DEF at
  <2>4. tickets[task.token] \in Keys \cup {None}
    BY <1>2, <2>1 DEF AccountsType
  <2>5. /\ new \in Task /\ new.at = at /\ new.session = task.session
        /\ new.identity = task.identity /\ new.by = task.by
    BY <1>1, <2>3, <2>4 DEF Task
  <2> HIDE DEF new
  <2>6. KnownTask(new, issued, owners)
    BY <1>1, <2>3, <2>5 DEF KnownTask
  <2>7. /\ UNCHANGED <<programs, visits, dialled, today, sessions, owners, issued, linked, users>>
        /\ tickets' \in {tickets, [tickets EXCEPT ![task.token] = None]}
    BY <1>11 DEF SpendTicket
  <2>8. tickets' \in [Tokens -> Keys \cup {None}]
    BY <1>2, <2>7 DEF AccountsType
  <2> QED
    BY <1>2, <2>2, <2>5, <2>6, <2>7, <2>8, PlainTaskStepKeepsInv DEF AccountsType
<1>12. CASE LinkKey(c)
  <2>1. /\ Goes(c, "linked")
        /\ UNCHANGED <<programs, visits, dialled, today, sessions, owners, issued, tickets, users>>
        /\ linked' = [linked EXCEPT ![task.key] = task.identity]
    BY <1>12 DEF LinkKey
  <2>2. linked' \in [Keys -> Users \cup {None}]
    BY <1>1, <1>2, <2>1 DEF AccountsType, Task
  <2> QED
    BY <1>2, <2>1, <2>2, NextCallKeepsInv DEF Answers, AccountsType
<1>13. CASE ListGames(c) \/ DatabaseFails(c)
  <2>1. \E at \in {"not signed in", "games", "failed"} : Goes(c, at)
    BY <1>13 DEF ListGames, DatabaseFails
  <2>2. UNCHANGED <<programs, visits, dialled, today, sessions, owners, issued, tickets, linked, users>>
    BY <1>13 DEF ListGames, DatabaseFails
  <2> QED
    BY <1>2, <2>1, <2>2, NextCallKeepsInv DEF Answers, AccountsType
<1> QED
  BY <1>4, <1>5, <1>6, <1>7, <1>8, <1>9, <1>10, <1>11, <1>12, <1>13 DEF Command

-----------------------------------------------------------------------------
(* The programs                                                            *)

\* A step of one program and of the connection it holds, or dials.
LEMMA ProgramStepKeepsInv ==
    ASSUME AccountsInv, NEW p \in Programs, NEW c \in Connections,
           \A q \in Programs \ {p} : programs[q].job # None => programs[q].connection # c,
           NEW new \in Task, tasks' = [tasks EXCEPT ![c] = new], KnownTask(new, issued, owners),
           NEW after \in ProgramState, programs' = [programs EXCEPT ![p] = after],
           after.saved # None => Given(after.saved, issued),
           after.job # None => after.connection = c /\ c <= dialled' /\ new.by = p,
           dialled' \in Nat, dialled <= dialled',
           UNCHANGED <<users, sessions, owners, linked, tickets, issued, visits, today>>
    PROVE  AccountsInv'
<1>1. AccountsType
  BY DEF AccountsInv
<1>2. /\ \A d \in Connections : tasks'[d] = IF d = c THEN new ELSE tasks[d]
      /\ \A q \in Programs : programs'[q] = IF q = p THEN after ELSE programs[q]
  BY <1>1 DEF AccountsType
<1>3. AccountsType'
  BY <1>1 DEF AccountsType
<1>4. TasksKnown'
  <2> SUFFICES ASSUME NEW d \in Connections
               PROVE  KnownTask(tasks'[d], issued, owners)
    BY DEF TasksKnown
  <2>1. KnownTask(tasks[d], issued, owners)
    BY DEF AccountsInv, TasksKnown
  <2> QED
    BY <1>2, <2>1
<1>5. ProgramsKnown'
  <2> SUFFICES ASSUME NEW q \in Programs
               PROVE  KnownProgram(q, programs[q], issued)'
    BY DEF ProgramsKnown
  <2>1. CASE q = p
    BY <1>2, <2>1, TokensAreNumbers DEF KnownProgram
  <2>2. CASE q # p
    <3>1. programs[q] \in ProgramState /\ KnownProgram(q, programs[q], issued) /\ programs'[q] = programs[q]
      BY <1>1, <1>2, <2>2 DEF AccountsInv, AccountsType, ProgramsKnown
    <3>2. programs[q].job # None => /\ programs[q].connection \in Connections
                                    /\ programs[q].connection \in Nat
                                    /\ programs[q].connection # c
      BY <2>2, <3>1, TokensAreNumbers DEF KnownProgram, ProgramState
    <3> QED
      BY <1>1, <1>2, <3>1, <3>2 DEF KnownProgram, AccountsType
  <2> QED
    BY <2>1, <2>2
<1>6. SessionsOwned' /\ VisitsKnown'
  BY DEF AccountsInv, SessionsOwned, VisitsKnown
<1> QED
  BY <1>3, <1>4, <1>5, <1>6 DEF AccountsInv

LEMMA EndSocketKeepsInv ==
    ASSUME AccountsInv, NEW c \in Connections, EndSocket(c)
    PROVE  AccountsInv'
<1>1. tasks[c].by = None /\ tasks' = [tasks EXCEPT ![c] = Closed]
  BY DEF EndSocket
<1>2. Closed \in Task /\ KnownTask(Closed, issued, owners) /\ Closed.by = None
  BY DEF Closed, Task, KnownTask
<1>3. UNCHANGED <<users, programs, visits, dialled, today, sessions, owners, issued, linked, tickets>>
  BY DEF EndSocket, databaseVars, gatewayVars
<1> QED
  BY <1>1, <1>2, <1>3, PlainTaskStepKeepsInv DEF AccountsInv, AccountsType

\* The connection of a program that does a job is its own.
LEMMA HeldByOne ==
    ASSUME AccountsInv, NEW p \in Programs, programs[p].job # None
    PROVE  LET c == programs[p].connection
           IN  /\ c \in Connections /\ c <= dialled /\ tasks[c].by = p
               /\ tasks[c] \in Task /\ KnownTask(tasks[c], issued, owners)
               /\ \A q \in Programs \ {p} : programs[q].job # None => programs[q].connection # c
BY DEF AccountsInv, AccountsType, TasksKnown, ProgramsKnown, KnownProgram, ProgramState

LEMMA BeginKeepsInv ==
    ASSUME AccountsInv, NEW p \in Programs, Begin(p)
    PROVE  AccountsInv'
<1> DEFINE c == dialled + 1
<1>1. PICK job \in Jobs(p), user \in Users :
         /\ programs' = [programs EXCEPT ![p] =
                [programs[p] EXCEPT !.job = job, !.connection = c, !.told = None]]
         /\ tasks' = [tasks EXCEPT ![c] =
                [Closed EXCEPT !.at = FirstCall[job], !.by = p, !.user = user,
                               !.token = programs[p].saved]]
  BY DEF Begin
<1> DEFINE after == [programs[p] EXCEPT !.job = job, !.connection = c, !.told = None]
           new == [Closed EXCEPT !.at = FirstCall[job], !.by = p, !.user = user,
                                 !.token = programs[p].saved]
<1>2. /\ c \in Connections /\ dialled' = c /\ dialled \in Nat /\ dialled' \in Nat
      /\ dialled <= dialled' /\ c <= dialled'
  BY DEF Begin, AccountsInv, AccountsType
<1>3. programs[p] \in ProgramState /\ KnownProgram(p, programs[p], issued)
  BY DEF AccountsInv, AccountsType, ProgramsKnown
<1>4. \/ job \in {"log in", "register"}
      \/ job \in {"games", "sign out"} /\ programs[p].saved # None
  BY DEF Jobs
<1>5. after \in ProgramState /\ after.saved = programs[p].saved /\ after.connection = c
  BY <1>2, <1>3, <1>4 DEF ProgramState, AllJobs
<1>6. /\ FirstCall[job] \in {"verify", "create", "use"}
      /\ FirstCall[job] = "use" => programs[p].saved # None
  BY <1>4 DEF FirstCall
<1>7. /\ new \in Task /\ new.at = FirstCall[job] /\ new.by = p /\ new.user = user
      /\ new.token = programs[p].saved /\ new.session = None /\ new.identity = None
  BY <1>3, <1>6 DEF Closed, Task, ProgramState, Calling
<1>8. tasks' = [tasks EXCEPT ![c] = new] /\ programs' = [programs EXCEPT ![p] = after]
  BY <1>1
<1> HIDE DEF new, after
<1>9. KnownTask(new, issued, owners)
  BY <1>6, <1>7, TokensAreNumbers DEF KnownTask
<1>10. \A q \in Programs \ {p} : programs[q].job # None => programs[q].connection # c
  <2> SUFFICES ASSUME NEW q \in Programs \ {p}, programs[q].job # None
               PROVE  programs[q].connection # c
    OBVIOUS
  <2>1. programs[q].connection \in Connections /\ programs[q].connection <= dialled
    BY HeldByOne
  <2> QED
    BY <1>2, <2>1, TokensAreNumbers
<1>11. UNCHANGED <<users, sessions, owners, linked, tickets, issued, visits, today>>
  BY DEF Begin, databaseVars, gatewayVars
<1>12. after.saved # None => Given(after.saved, issued)
  BY <1>3, <1>5 DEF KnownProgram
<1> QED
  BY <1>2, <1>5, <1>7, <1>8, <1>9, <1>10, <1>11, <1>12, ProgramStepKeepsInv

\* A program lets go of its connection, whatever the task of it does then.
LEMMA LetGoKeepsInv ==
    ASSUME AccountsInv, NEW p \in Programs, programs[p].job # None,
           NEW c, c = programs[p].connection,
           NEW at \in {tasks[c].at, "idle"},
           tasks' = [tasks EXCEPT ![c] = [tasks[c] EXCEPT !.at = at, !.by = None]],
           NEW after \in ProgramState, programs' = [programs EXCEPT ![p] = after],
           after.saved # None => Given(after.saved, issued), after.job = None,
           UNCHANGED <<databaseVars, tickets, issued, visits, dialled, today>>
    PROVE  AccountsInv'
<1> DEFINE new == [tasks[c] EXCEPT !.at = at, !.by = None]
<1>1. /\ c \in Connections /\ tasks[c] \in Task /\ KnownTask(tasks[c], issued, owners)
      /\ \A q \in Programs \ {p} : programs[q].job # None => programs[q].connection # c
  BY HeldByOne
<1>2. /\ new \in Task /\ new.at = at /\ new.user = tasks[c].user /\ new.token = tasks[c].token
      /\ new.session = tasks[c].session /\ new.identity = tasks[c].identity
  BY <1>1 DEF Task
<1>3. tasks' = [tasks EXCEPT ![c] = new]
  OBVIOUS
<1> HIDE DEF new
<1>4. KnownTask(new, issued, owners)
  BY <1>1, <1>2 DEF KnownTask
<1>5. dialled' \in Nat /\ dialled <= dialled'
  BY DEF AccountsInv, AccountsType
<1> QED
  BY <1>1, <1>2, <1>3, <1>4, <1>5, ProgramStepKeepsInv DEF databaseVars

LEMMA LoseConnectionKeepsInv ==
    ASSUME AccountsInv, NEW p \in Programs, LoseConnection(p)
    PROVE  AccountsInv'
<1> DEFINE current == programs[p]
           c == current.connection
           after == AfterFailure(current)
<1>1. current.job # None
  BY DEF LoseConnection
<1>2. PICK at \in {tasks[c].at, "idle"} :
         tasks' = [tasks EXCEPT ![c] = [tasks[c] EXCEPT !.at = at, !.by = None]]
  BY DEF LoseConnection
<1>3. current \in ProgramState /\ KnownProgram(p, current, issued)
  BY DEF AccountsInv, AccountsType, ProgramsKnown
<1>4. after \in ProgramState /\ after.saved \in {current.saved, None} /\ after.job = None
  BY <1>3 DEF AfterFailure, Forgotten, Finished, ProgramState, Told
<1>5. /\ programs' = [programs EXCEPT ![p] = after]
      /\ UNCHANGED <<databaseVars, tickets, issued, visits, dialled, today>>
  BY DEF LoseConnection, gatewayVars
<1>6. after.saved # None => Given(after.saved, issued)
  BY <1>3, <1>4 DEF KnownProgram
<1> HIDE DEF after
<1> QED
  BY <1>1, <1>2, <1>4, <1>5, <1>6, LetGoKeepsInv

LEMMA EndsKeepsInv ==
    ASSUME AccountsInv, NEW p \in Programs, programs[p].job # None,
           NEW after \in ProgramState, Ends(p, after),
           after.saved # None => Given(after.saved, issued), after.job = None,
           UNCHANGED <<databaseVars, tickets, issued, visits, dialled, today>>
    PROVE  AccountsInv'
<1> DEFINE c == programs[p].connection
<1>1. c \in Connections /\ tasks[c] \in Task
  BY HeldByOne
<1>2. tasks' = [tasks EXCEPT ![c] = [tasks[c] EXCEPT !.at = tasks[c].at, !.by = None]]
  BY <1>1 DEF Ends, Task
<1>3. programs' = [programs EXCEPT ![p] = after]
  BY DEF Ends
<1> QED
  BY <1>2, <1>3, LetGoKeepsInv

LEMMA NobodyDials ==
    ASSUME AccountsInv, UNCHANGED dialled, NEW c \in Connections, c <= dialled
    PROVE  dialled' \in Nat /\ dialled <= dialled' /\ c <= dialled'
BY TokensAreNumbers DEF AccountsInv, AccountsType

LEMMA AsksKeepsInv ==
    ASSUME AccountsInv, NEW p \in Programs, programs[p].job # None,
           NEW current \in ProgramState, current.connection = programs[p].connection,
           NEW job \in AllJobs, NEW at \in {"ticket", "list", "sign out"},
           NEW token \in Tokens \cup {None}, at = "ticket" => token # None,
           Asks(p, current, job, at, token),
           current.saved # None => Given(current.saved, issued),
           UNCHANGED <<databaseVars, tickets, issued, visits, dialled, today>>
    PROVE  AccountsInv'
<1> DEFINE c == programs[p].connection
           new == [tasks[c] EXCEPT !.at = at, !.token = token]
           after == [current EXCEPT !.job = job]
<1>1. /\ c \in Connections /\ c <= dialled /\ tasks[c].by = p
      /\ tasks[c] \in Task /\ KnownTask(tasks[c], issued, owners)
      /\ \A q \in Programs \ {p} : programs[q].job # None => programs[q].connection # c
  BY HeldByOne
<1>2. /\ new \in Task /\ new.at = at /\ new.token = token /\ new.by = p
      /\ new.session = tasks[c].session /\ new.identity = tasks[c].identity
  <2>1. at \in Calling
    BY DEF Calling
  <2> QED
    BY <1>1, <2>1 DEF Task
<1>3. after \in ProgramState /\ after.saved = current.saved /\ after.connection = c
  BY DEF ProgramState
<1>4. tasks' = [tasks EXCEPT ![c] = new] /\ programs' = [programs EXCEPT ![p] = after]
  BY <1>1 DEF Asks, AccountsInv, AccountsType, Task
<1> HIDE DEF new, after
<1>5. KnownTask(new, issued, owners)
  BY <1>1, <1>2 DEF KnownTask
<1>6. dialled' \in Nat /\ dialled <= dialled' /\ c <= dialled'
  BY <1>1, NobodyDials
<1> QED
  BY <1>1, <1>2, <1>3, <1>4, <1>5, <1>6, ProgramStepKeepsInv DEF databaseVars

LEMMA ReceiveKeepsInv ==
    ASSUME AccountsInv, NEW p \in Programs, Receive(p)
    PROVE  AccountsInv'
<1> DEFINE current == programs[p]
           task == tasks[current.connection]
<1>1. current.job # None /\ UNCHANGED <<databaseVars, tickets, issued, visits, dialled, today>>
  BY DEF Receive, gatewayVars
<1>2. current \in ProgramState /\ KnownProgram(p, current, issued)
  BY DEF AccountsInv, AccountsType, ProgramsKnown
<1>3. task \in Task /\ KnownTask(task, issued, owners)
  BY <1>1, HeldByOne
<1>4. current.saved # None => Given(current.saved, issued)
  BY <1>2 DEF KnownProgram
<1>5. ASSUME NEW words \in {"signed out", "signed out here"}
      PROVE  /\ Forgotten(current, words) \in ProgramState
             /\ Forgotten(current, words).saved = None /\ Forgotten(current, words).job = None
  BY <1>2 DEF Forgotten, Finished, ProgramState, Told
<1>6. /\ Finished(current) \in ProgramState /\ Finished(current).saved = current.saved
      /\ Finished(current).job = None
  BY <1>2 DEF Finished, ProgramState
<1>7. CASE ReceiveSignIn(p, current, task)
  <2> DEFINE remembered == [current EXCEPT !.saved = task.token]
             spent == [remembered EXCEPT !.ticket = None]
  <2>1. CASE task.at # "signed in"
    <3>1. Ends(p, Finished(current))
      BY <1>7, <2>1 DEF ReceiveSignIn
    <3> QED
      BY <1>1, <1>4, <1>6, <3>1, EndsKeepsInv
  <2>2. CASE task.at = "signed in"
    <3>1. Given(task.token, issued)
      BY <1>3, <2>2 DEF KnownTask
    <3>2. /\ remembered \in ProgramState /\ Finished(remembered) \in ProgramState
          /\ Finished(remembered).saved = task.token /\ Finished(remembered).job = None
      BY <1>2, <1>3 DEF Finished, ProgramState, Task
    <3>3. /\ spent \in ProgramState /\ spent.saved = task.token
          /\ spent.connection = current.connection
      BY <1>2, <1>3 DEF ProgramState, Task
    <3>4. \/ Ends(p, Finished(remembered))
          \/ current.ticket # None /\ Asks(p, spent, "link", "ticket", current.ticket)
      BY <1>7, <2>2 DEF ReceiveSignIn
    <3> HIDE DEF remembered, spent
    <3>5. CASE Ends(p, Finished(remembered))
      BY <1>1, <3>1, <3>2, <3>5, EndsKeepsInv
    <3>6. CASE current.ticket # None /\ Asks(p, spent, "link", "ticket", current.ticket)
      <4>1. current.ticket \in Tokens \cup {None} /\ "link" \in AllJobs
        BY <1>2 DEF ProgramState, AllJobs
      <4> QED
        BY <1>1, <3>1, <3>3, <3>6, <4>1, AsksKeepsInv
    <3> QED
      BY <3>4, <3>5, <3>6
  <2> QED
    BY <2>1, <2>2
<1>8. CASE ReceiveGames(p, current, task)
  <2> DEFINE unsaved == [Finished(current) EXCEPT !.saved = None]
  <2>1. unsaved \in ProgramState /\ unsaved.saved = None /\ unsaved.job = None
    BY <1>6 DEF ProgramState
  <2>2. \/ Asks(p, current, "list", "list", None)
        \/ Ends(p, unsaved) \/ Ends(p, Finished(current))
    BY <1>8 DEF ReceiveGames
  <2> HIDE DEF unsaved
  <2>3. CASE Asks(p, current, "list", "list", None)
    BY <1>1, <1>2, <1>4, <2>3, AsksKeepsInv DEF AllJobs
  <2>4. CASE Ends(p, unsaved)
    BY <1>1, <2>1, <2>4, EndsKeepsInv
  <2>5. CASE Ends(p, Finished(current))
    BY <1>1, <1>4, <1>6, <2>5, EndsKeepsInv
  <2> QED
    BY <2>2, <2>3, <2>4, <2>5
<1>9. CASE ReceiveSignOut(p, current)
  BY <1>1, <1>2, <1>4, <1>9, AsksKeepsInv DEF AllJobs, ReceiveSignOut
<1>10. CASE Ends(p, Forgotten(current, "signed out"))
  BY <1>1, <1>5, <1>10, EndsKeepsInv
<1>11. CASE Ends(p, Finished(current))
  BY <1>1, <1>4, <1>6, <1>11, EndsKeepsInv
<1> QED
  BY <1>7, <1>8, <1>9, <1>10, <1>11 DEF Receive

-----------------------------------------------------------------------------
(* The gateway, the cleaner and the calendar                               *)

\* A step of one visitor, who may start a program that has yet to do anything.
LEMMA VisitStepKeepsInv ==
    ASSUME AccountsInv, OwnersStay, NEW v \in Visitors,
           NEW new \in Visit, visits' = [visits EXCEPT ![v] = new], KnownVisit(new, issued'),
           UNCHANGED <<tasks, dialled, today, users, linked>>, SessionsOwned',
           sessions' \in [Tokens -> Nat \cup {None}],
           owners' \in [Tokens -> Users \cup {None}],
           tickets' \in [Tokens -> Keys \cup {None}],
           NEW fresh \in ProgramState, fresh.job = None,
           fresh.saved # None => Given(fresh.saved, issued'),
           programs' \in {programs, [programs EXCEPT ![v] = fresh]}
    PROVE  AccountsInv'
<1>1. AccountsType
  BY DEF AccountsInv
<1>2. /\ v \in Programs
      /\ \A w \in Visitors : visits'[w] = IF w = v THEN new ELSE visits[w]
      /\ \A p \in Programs : programs'[p] \in {programs[p], fresh}
  BY <1>1 DEF AccountsType, Programs
<1>3. issued' \in Nat /\ issued \in Nat /\ issued <= issued'
  BY <1>1 DEF AccountsType, OwnersStay
<1>4. AccountsType'
  BY <1>1, <1>2, <1>3 DEF AccountsType
<1>5. TasksKnown'
  <2> SUFFICES ASSUME NEW c \in Connections
               PROVE  KnownTask(tasks[c], issued', owners')
    BY DEF TasksKnown
  <2>1. tasks[c] \in Task /\ KnownTask(tasks[c], issued, owners)
    BY <1>1 DEF AccountsInv, AccountsType, TasksKnown
  <2> QED
    BY <1>1, <2>1, KnownTaskStays
<1>6. ASSUME NEW token \in Tokens \cup {None}, Given(token, issued)
      PROVE  Given(token, issued')
  BY <1>3, <1>6, TokensAreNumbers DEF Given
<1>7. VisitsKnown'
  <2> SUFFICES ASSUME NEW w \in Visitors
               PROVE  KnownVisit(visits'[w], issued')
    BY DEF VisitsKnown
  <2>1. KnownVisit(visits[w], issued) /\ visits[w] \in Visit
    BY <1>1 DEF AccountsInv, VisitsKnown, AccountsType
  <2>2. visits[w].token \in Tokens \cup {None}
    BY <2>1 DEF Visit
  <2> QED
    BY <1>2, <1>6, <2>1, <2>2 DEF KnownVisit
<1>8. ProgramsKnown'
  <2> SUFFICES ASSUME NEW p \in Programs
               PROVE  KnownProgram(p, programs[p], issued)'
    BY DEF ProgramsKnown
  <2>1. KnownProgram(p, programs[p], issued) /\ programs[p] \in ProgramState
    BY <1>1 DEF AccountsInv, ProgramsKnown, AccountsType
  <2>2. programs[p].saved \in Tokens \cup {None}
    BY <2>1 DEF ProgramState
  <2>3. CASE programs'[p] = programs[p]
    BY <1>6, <2>1, <2>2, <2>3 DEF KnownProgram
  <2>4. CASE programs'[p] = fresh
    BY <2>4 DEF KnownProgram
  <2> QED
    BY <1>2, <2>3, <2>4
<1> QED
  BY <1>4, <1>5, <1>7, <1>8 DEF AccountsInv

\* A step of one visitor that gives out no token.
LEMMA PlainVisitStepKeepsInv ==
    ASSUME AccountsInv, NEW v \in Visitors,
           NEW new \in Visit, visits' = [visits EXCEPT ![v] = new], KnownVisit(new, issued),
           UNCHANGED <<tasks, dialled, today, users, linked, issued, sessions, owners, tickets>>,
           NEW fresh \in ProgramState, fresh.job = None,
           fresh.saved # None => Given(fresh.saved, issued),
           programs' \in {programs, [programs EXCEPT ![v] = fresh]}
    PROVE  AccountsInv'
<1>1. OwnersStay
  BY SameOwnersStay DEF AccountsInv
<1>2. SessionsOwned' /\ KnownVisit(new, issued')
  BY DEF AccountsInv, SessionsOwned
<1>3. fresh.saved # None => Given(fresh.saved, issued')
  OBVIOUS
<1> QED
  BY <1>1, <1>2, <1>3, VisitStepKeepsInv DEF AccountsInv, AccountsType

LEMMA FreshPrograms ==
    ASSUME NEW saved \in Tokens \cup {None}, NEW ticket \in Tokens \cup {None}
    PROVE  /\ Program(saved, ticket) \in ProgramState
           /\ Program(saved, ticket).job = None /\ Program(saved, ticket).saved = saved
BY DEF Program, ProgramState

LEMMA AwayIsAVisit ==
    /\ Away \in Visit /\ Away.token = None
    /\ \A n \in Nat : KnownVisit(Away, n)
BY DEF Away, Visit, KnownVisit

LEMMA GatewayKeepsInv ==
    ASSUME AccountsInv, NEW v \in Visitors,
           \/ Arrive(v) \/ Shell(v) \/ LookUpKey(v) \/ StartVisit(v) \/ VisitFails(v) \/ Spawn(v)
    PROVE  AccountsInv'
<1> DEFINE visit == visits[v]
           nothing == Program(None, None)
<1>1. AccountsType
  BY DEF AccountsInv
<1>2. visit \in Visit /\ KnownVisit(visit, issued) /\ issued \in Nat
  BY DEF AccountsInv, AccountsType, VisitsKnown
<1>3. nothing \in ProgramState /\ nothing.job = None /\ nothing.saved = None
  BY FreshPrograms
<1> HIDE DEF nothing
<1>4. CASE Arrive(v)
  <2>1. PICK key \in Keys \cup {None} :
           visits' = [visits EXCEPT ![v] = [Away EXCEPT !.at = "connected", !.key = key]]
    BY <1>4 DEF Arrive, Moves
  <2> DEFINE new == [Away EXCEPT !.at = "connected", !.key = key]
  <2>2. new \in Visit /\ KnownVisit(new, issued)
    BY DEF Away, Visit, KnownVisit
  <2>3. UNCHANGED <<tasks, dialled, today, users, linked, issued, sessions, owners, tickets, programs>>
    BY <1>4 DEF Arrive, Visits
  <2> HIDE DEF new
  <2>4. visits' = [visits EXCEPT ![v] = new]
    BY <2>1 DEF new
  <2> QED
    BY <1>3, <2>2, <2>3, <2>4, PlainVisitStepKeepsInv
<1>5. CASE Shell(v)
  <2> DEFINE new == [visit EXCEPT !.at = IF visit.key = None THEN "spawn" ELSE "look up"]
  <2>1. visits' = [visits EXCEPT ![v] = new]
    BY <1>5 DEF Shell, Moves
  <2>2. new \in Visit /\ KnownVisit(new, issued)
    BY <1>2 DEF Visit, KnownVisit
  <2>3. UNCHANGED <<tasks, dialled, today, users, linked, issued, sessions, owners, tickets, programs>>
    BY <1>5 DEF Shell, Visits
  <2> HIDE DEF new
  <2> QED
    BY <1>3, <2>1, <2>2, <2>3, PlainVisitStepKeepsInv
<1>6. CASE LookUpKey(v)
  <2>1. visit.at = "look up" /\ visit.key \in Keys
    BY <1>2, <1>6 DEF LookUpKey, Visits, KnownVisit, Visit
  <2>2. UNCHANGED <<tasks, dialled, today, users, linked, sessions, owners, programs>>
    BY <1>6 DEF LookUpKey, Visits
  <2>3. CASE linked[visit.key] # None
    <3> DEFINE new == [visit EXCEPT !.at = "start", !.user = linked[visit.key]]
    <3>1. visits' = [visits EXCEPT ![v] = new] /\ UNCHANGED <<tickets, issued>>
      BY <1>6, <2>3 DEF LookUpKey, Moves
    <3>2. linked[visit.key] \in Users
      BY <1>1, <2>1, <2>3 DEF AccountsType
    <3>3. new \in Visit /\ KnownVisit(new, issued)
      BY <1>2, <2>3, <3>2 DEF Visit, KnownVisit
    <3> HIDE DEF new
    <3> QED
      BY <1>3, <2>2, <3>1, <3>3, PlainVisitStepKeepsInv
  <2>4. CASE linked[visit.key] = None
    <3> DEFINE new == [visit EXCEPT !.at = "spawn", !.ticket = NextToken]
    <3>1. /\ visits' = [visits EXCEPT ![v] = new] /\ issued < MaxTokens /\ issued' = NextToken
          /\ tickets' = [tickets EXCEPT ![NextToken] = visit.key]
      BY <1>6, <2>4 DEF LookUpKey, Moves
    <3>2. NextToken = issued + 1 /\ NextToken \in Tokens /\ NextToken \in Nat
      <4>1. MaxTokens \in Nat
        BY AccountsAssumption
      <4> QED
        BY <1>2, <3>1, <4>1 DEF NextToken, Tokens
    <3>3. OwnersStay
      BY <1>2, <2>2, <3>1, <3>2 DEF OwnersStay
    <3>4. tickets' \in [Tokens -> Keys \cup {None}]
      BY <1>1, <2>1, <3>1, <3>2 DEF AccountsType
    <3>5. /\ new \in Visit /\ new.at = "spawn" /\ new.token = visit.token
      BY <1>2, <3>2 DEF Visit
    <3> HIDE DEF new
    <3>6. ASSUME NEW token \in Tokens \cup {None}, Given(token, issued)
          PROVE  Given(token, issued')
      BY <1>2, <3>1, <3>2, <3>6, TokensAreNumbers DEF Given
    <3>7. visit.token \in Tokens \cup {None}
      BY <1>2 DEF Visit
    <3>8. KnownVisit(new, issued')
      BY <1>2, <3>5, <3>6, <3>7 DEF KnownVisit
    <3>9. SessionsOwned'
      BY <2>2, <3>6 DEF AccountsInv, SessionsOwned
    <3> QED
      BY <1>1, <1>3, <2>2, <3>1, <3>3, <3>4, <3>5, <3>8, <3>9, VisitStepKeepsInv DEF AccountsType
  <2> QED
    BY <2>3, <2>4
<1>7. CASE StartVisit(v)
  <2> DEFINE new == [visit EXCEPT !.at = "spawn", !.token = NextToken, !.made = @ \cup {NextToken}]
  <2>1. visit.user \in Users
    BY <1>2, <1>7 DEF StartVisit, Visits, KnownVisit, Visit
  <2>2. NewSession(visit.user)
    BY <1>7 DEF StartVisit
  <2>3. /\ OwnersStay /\ NextToken \in Tokens /\ issued' = NextToken
        /\ sessions' \in [Tokens -> Nat \cup {None}]
        /\ owners' \in [Tokens -> Users \cup {None}]
        /\ SessionsOwned'
    BY <1>1, <2>1, <2>2, NewSessionGives DEF AccountsInv
  <2>4. visits' = [visits EXCEPT ![v] = new]
    BY <1>7 DEF StartVisit, Moves
  <2>5. new \in Visit /\ new.at = "spawn" /\ new.token = NextToken
    BY <1>2, <2>3 DEF Visit
  <2> HIDE DEF new
  <2>6. KnownVisit(new, issued')
    BY <2>3, <2>5, TokensAreNumbers DEF KnownVisit, Given
  <2>7. UNCHANGED <<tasks, dialled, today, users, linked, tickets, programs>>
    BY <1>7 DEF StartVisit, Visits
  <2> QED
    BY <1>1, <1>3, <2>3, <2>4, <2>5, <2>6, <2>7, VisitStepKeepsInv DEF AccountsType
<1>8. CASE VisitFails(v)
  <2> DEFINE new == [visit EXCEPT !.at = "spawn"]
  <2>1. visits' = [visits EXCEPT ![v] = new]
    BY <1>8 DEF VisitFails
  <2>2. new \in Visit /\ KnownVisit(new, issued)
    BY <1>2 DEF Visit, KnownVisit
  <2>3. UNCHANGED <<tasks, dialled, today, users, linked, issued, sessions, owners, tickets, programs>>
    BY <1>8 DEF VisitFails, databaseVars, serverVars
  <2> HIDE DEF new
  <2> QED
    BY <1>3, <2>1, <2>2, <2>3, PlainVisitStepKeepsInv
<1>9. CASE Spawn(v)
  <2>1. UNCHANGED <<tasks, dialled, today, users, linked, issued, sessions, owners, tickets>>
    BY <1>9 DEF Spawn, Visits
  <2> DEFINE fresh == Program(visit.token, visit.ticket)
             runs == [visit EXCEPT !.at = "running"]
             gives_up == [Away EXCEPT !.at = "connected", !.key = visit.key, !.made = visit.made]
  <2>2. \/ /\ visits' = [visits EXCEPT ![v] = runs]
           /\ programs' = [programs EXCEPT ![v] = fresh]
        \/ /\ visits' = [visits EXCEPT ![v] = gives_up]
           /\ programs' = programs
    BY <1>9 DEF Spawn, Moves
  <2>3. fresh \in ProgramState /\ fresh.job = None /\ fresh.saved = visit.token
    BY <1>2, FreshPrograms DEF Visit
  <2>4. runs \in Visit /\ KnownVisit(runs, issued)
    BY <1>2 DEF Visit, KnownVisit
  <2>5. gives_up \in Visit /\ KnownVisit(gives_up, issued)
    BY <1>2 DEF Away, Visit, KnownVisit
  <2>6. fresh.saved # None => Given(fresh.saved, issued)
    BY <1>2, <2>3 DEF KnownVisit
  <2> HIDE DEF fresh, runs, gives_up
  <2> QED
    BY <1>3, <2>1, <2>2, <2>3, <2>4, <2>5, <2>6, PlainVisitStepKeepsInv
<1> QED
  BY <1>4, <1>5, <1>6, <1>7, <1>8, <1>9

LEMMA LeaveKeepsInv ==
    ASSUME AccountsInv, NEW v \in Visitors, Leave(v)
    PROVE  AccountsInv'
<1> DEFINE c == programs[v].connection
           left == [visits[v] EXCEPT !.at = "left"]
           nothing == Program(None, None)
<1>1. AccountsType /\ v \in Programs
  BY DEF AccountsInv, Programs
<1>2. visits[v] \in Visit /\ KnownVisit(visits[v], issued)
  BY <1>1 DEF AccountsInv, AccountsType, VisitsKnown
<1>3. nothing \in ProgramState /\ nothing.job = None /\ nothing.saved = None
  BY FreshPrograms
<1>4. left \in Visit /\ KnownVisit(left, issued)
  BY <1>2 DEF Visit, KnownVisit
<1>5. /\ visits' = [visits EXCEPT ![v] = left]
      /\ programs' = [programs EXCEPT ![v] = nothing]
      /\ UNCHANGED <<users, sessions, owners, linked, issued, dialled, today>>
  BY DEF Leave, Moves, databaseVars
<1>6. tickets' \in [Tokens -> Keys \cup {None}]
  BY <1>1 DEF Leave, AccountsType
<1>7. /\ \A p \in Programs : programs'[p] = IF p = v THEN nothing ELSE programs[p]
      /\ \A w \in Visitors : visits'[w] = IF w = v THEN left ELSE visits[w]
  BY <1>1, <1>5 DEF AccountsType
<1>8. /\ programs' \in [Programs -> ProgramState] /\ visits' \in [Visitors -> Visit]
  BY <1>1, <1>3, <1>4, <1>5 DEF AccountsType
<1> HIDE DEF left, nothing
<1>9. /\ tasks' \in [Connections -> Task]
      /\ \A d \in Connections : /\ KnownTask(tasks'[d], issued, owners)
                                /\ tasks'[d].by # tasks[d].by => tasks[d].by = v
  <2>1. CASE programs[v].job = None
    <3>1. tasks' = tasks
      BY <2>1 DEF Leave
    <3> QED
      BY <1>1, <3>1 DEF AccountsInv, AccountsType, TasksKnown
  <2>2. CASE programs[v].job # None
    <3> DEFINE new == [tasks[c] EXCEPT !.by = None]
    <3>1. c \in Connections /\ tasks[c].by = v /\ tasks[c] \in Task /\ KnownTask(tasks[c], issued, owners)
      BY <1>1, <2>2, HeldByOne
    <3>2. tasks' = [tasks EXCEPT ![c] = new]
      BY <2>2 DEF Leave
    <3>3. new \in Task /\ KnownTask(new, issued, owners)
      BY <3>1 DEF Task, KnownTask
    <3> HIDE DEF new
    <3>4. \A d \in Connections : tasks'[d] = IF d = c THEN new ELSE tasks[d]
      BY <1>1, <3>2 DEF AccountsType
    <3>5. tasks' \in [Connections -> Task]
      BY <1>1, <3>2, <3>3 DEF AccountsType
    <3> HIDE DEF c
    <3>6. \A d \in Connections : KnownTask(tasks[d], issued, owners)
      BY DEF AccountsInv, TasksKnown
    <3> QED
      BY <3>1, <3>3, <3>4, <3>5, <3>6
  <2> QED
    BY <2>1, <2>2
<1>10. AccountsType'
  BY <1>1, <1>5, <1>6, <1>8, <1>9 DEF AccountsType
<1>11. TasksKnown'
  BY <1>5, <1>9 DEF TasksKnown
<1>12. SessionsOwned'
  BY <1>5 DEF AccountsInv, SessionsOwned
<1>13. VisitsKnown'
  BY <1>4, <1>5, <1>7 DEF AccountsInv, VisitsKnown
<1>14. ProgramsKnown'
  <2> SUFFICES ASSUME NEW p \in Programs
               PROVE  KnownProgram(p, programs[p], issued)'
    BY DEF ProgramsKnown
  <2>1. CASE p = v
    BY <1>3, <1>7, <2>1 DEF KnownProgram
  <2>2. CASE p # v
    <3>1. programs'[p] = programs[p] /\ KnownProgram(p, programs[p], issued)
      BY <1>7, <2>2 DEF AccountsInv, ProgramsKnown
    <3>2. programs[p].job # None =>
              /\ programs[p].connection \in Connections
              /\ tasks'[programs[p].connection].by = p
              /\ programs[p].connection <= dialled
      BY <1>9, <2>2, HeldByOne
    <3> QED
      BY <1>5, <3>1, <3>2 DEF KnownProgram
  <2> QED
    BY <2>1, <2>2
<1> QED
  BY <1>10, <1>11, <1>12, <1>13, <1>14 DEF AccountsInv

\* Sessions may end, and the day pass.
LEMMA FewerSessionsKeepInv ==
    ASSUME AccountsInv, sessions' \in [Tokens -> Nat \cup {None}],
           \A token \in Tokens : sessions'[token] # None => sessions[token] # None,
           today' \in Nat,
           UNCHANGED <<users, owners, linked, tickets, issued, tasks, dialled, programs, visits>>
    PROVE  AccountsInv'
<1>1. AccountsType'
  BY DEF AccountsInv, AccountsType
<1>2. TasksKnown' /\ VisitsKnown'
  BY DEF AccountsInv, TasksKnown, VisitsKnown
<1>3. ProgramsKnown'
  BY DEF AccountsInv, ProgramsKnown, KnownProgram
<1>4. SessionsOwned'
  BY DEF AccountsInv, SessionsOwned
<1> QED
  BY <1>1, <1>2, <1>3, <1>4 DEF AccountsInv

LEMMA NextKeepsAccounts ==
    ASSUME AccountsInv, [AccountsNext]_accountVars
    PROVE  AccountsInv'
<1>1. CASE \E c \in Connections : Command(c) \/ EndSocket(c)
  BY <1>1, CommandKeepsInv, EndSocketKeepsInv
<1>2. CASE \E p \in Programs : Begin(p) \/ LoseConnection(p) \/ Receive(p)
  BY <1>2, BeginKeepsInv, LoseConnectionKeepsInv, ReceiveKeepsInv
<1>3. CASE \E v \in Visitors : \/ Arrive(v) \/ Shell(v) \/ LookUpKey(v) \/ StartVisit(v)
                               \/ VisitFails(v) \/ Spawn(v) \/ Leave(v)
  BY <1>3, GatewayKeepsInv, LeaveKeepsInv
<1>4. CASE Revoke
  <2>1. UNCHANGED <<users, owners, linked, tickets, issued, tasks, dialled, programs, visits, today>>
    BY <1>4 DEF Revoke, serverVars
  <2>2. \E token : sessions' \in {sessions, [sessions EXCEPT ![token] = None]}
    BY <1>4 DEF Revoke, Revoked
  <2> QED
    BY <2>1, <2>2, FewerSessionsKeepInv DEF AccountsInv, AccountsType
<1>5. CASE CleanSessions
  <2>1. UNCHANGED <<users, owners, linked, tickets, issued, tasks, dialled, programs, visits, today>>
    BY <1>5 DEF CleanSessions, serverVars, gatewayVars
  <2>2. sessions' = [token \in Tokens |-> IF Idle(token) THEN None ELSE sessions[token]]
    BY <1>5 DEF CleanSessions
  <2> QED
    BY <2>1, <2>2, FewerSessionsKeepInv DEF AccountsInv, AccountsType
<1>6. CASE NextDay
  <2>1. UNCHANGED <<users, sessions, owners, linked, tickets, issued, tasks, dialled, programs, visits>>
    BY <1>6 DEF NextDay, databaseVars, serverVars, gatewayVars
  <2>2. today' \in Nat
    BY <1>6 DEF NextDay, AccountsInv, AccountsType
  <2> QED
    BY <2>1, <2>2, FewerSessionsKeepInv DEF AccountsInv, AccountsType
<1>7. CASE UNCHANGED accountVars
  <2>1. UNCHANGED <<users, sessions, owners, linked, tickets, issued, tasks, dialled, programs,
                    visits, today>>
    BY <1>7 DEF accountVars, databaseVars, serverVars, gatewayVars
  <2> QED
    BY <2>1, FewerSessionsKeepInv DEF AccountsInv, AccountsType
<1> QED
  BY <1>1, <1>2, <1>3, <1>4, <1>5, <1>6, <1>7 DEF AccountsNext

LEMMA InitHasAccounts ==
    ASSUME AccountsInit
    PROVE  AccountsInv
<1>1. Closed \in Task /\ KnownTask(Closed, 0, owners)
  BY DEF Closed, Task, KnownTask
<1>2. Program(None, None) \in ProgramState /\ Program(None, None).job = None
      /\ Program(None, None).saved = None
  BY FreshPrograms
<1>3. AccountsType
  BY <1>1, <1>2, AwayIsAVisit DEF AccountsInit, AccountsType
<1>4. TasksKnown
  BY <1>1 DEF AccountsInit, TasksKnown
<1>5. SessionsOwned
  BY DEF AccountsInit, SessionsOwned
<1>6. VisitsKnown
  BY AwayIsAVisit DEF AccountsInit, VisitsKnown
<1>7. ProgramsKnown
  BY <1>2 DEF AccountsInit, ProgramsKnown, KnownProgram
<1> QED
  BY <1>3, <1>4, <1>5, <1>6, <1>7 DEF AccountsInv

-----------------------------------------------------------------------------
(* Signing out                                                             *)

\* A session that was given out and signs nobody in any more.
Gone(token) == Given(token, issued) /\ ~Valid(token)

\* What the connection of a program that signs out of saved has come to, and
\* whether saved is gone by then.
SigningOut(job, saved, task, gone) ==
    /\ job = "sign out" =>
          \/ task.at \in {"use", "adopt"} /\ task.token = saved /\ task.session = None
          \/ task.at = "signed in" /\ task.session = saved
          \/ task.at = "invalid" /\ task.session = None /\ gone
    /\ job = "log out" =>
          \/ task.at = "sign out" /\ task.session = saved
          \/ task.at = "sign out" /\ task.session = None /\ gone
          \/ task.at = "delete" /\ task.token = saved
          \/ task.at = "signed out" /\ gone

\* A program that says it signed out is right, and one that is about to will be.
HonestTold(told) == told # None /\ told.words = "signed out" => Gone(told.token)
HonestJob(current) ==
    current.job # None /\ current.job \in {"sign out", "log out"} =>
        /\ current.saved # None
        /\ SigningOut(current.job, current.saved, tasks[current.connection], Gone(current.saved))
HonestProgram(current) == HonestTold(current.told) /\ HonestJob(current)

AllHonest == \A p \in Programs : HonestProgram(programs[p])

\* No step brings a session back.
GoneStays == \A token \in Tokens : Gone(token) => Gone(token)'

LEMMA SameSessionsStayGone ==
    ASSUME AccountsInv, issued' \in Nat, issued <= issued', today' \in Nat, today <= today',
           \A token \in Tokens :
               Given(token, issued) => sessions'[token] \in {sessions[token], None}
    PROVE  GoneStays
<1> SUFFICES ASSUME NEW token \in Tokens, Gone(token)
             PROVE  Gone(token)'
  BY DEF GoneStays
<1>1. token \in Nat /\ today \in Nat /\ issued \in Nat /\ IdleLimit \in Nat
  BY TokensAreNumbers, AccountsAssumption DEF AccountsInv, AccountsType
<1>2. Given(token, issued')
  BY <1>1 DEF Gone, Given
<1>3. sessions[token] \in Nat \cup {None} /\ ~Valid(token) /\ sessions'[token] \in {sessions[token], None}
  BY DEF Gone, AccountsInv, AccountsType
<1>4. ~Valid(token)'
  BY <1>1, <1>3 DEF Valid
<1> QED
  BY <1>2, <1>4 DEF Gone

LEMMA NewSessionKeepsGone ==
    ASSUME AccountsInv, NEW user, NewSession(user), UNCHANGED today
    PROVE  GoneStays
<1>1. /\ issued \in Nat /\ today \in Nat /\ issued' = issued + 1
      /\ sessions' = [sessions EXCEPT ![issued + 1] = today]
  BY DEF AccountsInv, AccountsType, NewSession, NextToken
<1>2. \A token \in Tokens : Given(token, issued) => token # issued + 1
  BY <1>1, TokensAreNumbers DEF Given
<1>3. \A token \in Tokens : Given(token, issued) => sessions'[token] = sessions[token]
  BY <1>1, <1>2 DEF AccountsInv, AccountsType
<1> QED
  BY <1>1, <1>3, SameSessionsStayGone

LEMMA EndedSessionsStayGone ==
    ASSUME AccountsInv, UNCHANGED issued, today' \in {today, today + 1},
           sessions' = sessions \/ \E token : Revoked(token)
    PROVE  GoneStays
<1>1. \A token \in Tokens : sessions'[token] \in {sessions[token], None}
  BY DEF Revoked, AccountsInv, AccountsType
<1>2. issued \in Nat /\ today \in Nat /\ today' \in Nat /\ today <= today' /\ issued <= issued'
  BY DEF AccountsInv, AccountsType
<1> QED
  BY <1>1, <1>2, SameSessionsStayGone

LEMMA CommandKeepsGone ==
    ASSUME AccountsInv, NEW c \in Connections, Command(c)
    PROVE  GoneStays
<1> DEFINE task == tasks[c]
<1> USE DEF databaseVars, Calls
<1>1. CASE StartSession(c)
  BY <1>1, NewSessionKeepsGone DEF StartSession
<1>2. CASE UseSession(c)
  <2>1. UNCHANGED <<issued, today>>
    BY <1>2 DEF UseSession
  <2>2. CASE sessions' = sessions
    BY <2>1, <2>2, EndedSessionsStayGone
  <2>3. CASE Valid(task.token) /\ sessions' = [sessions EXCEPT ![task.token] = today]
    <3> SUFFICES ASSUME NEW token \in Tokens, Gone(token)
                 PROVE  Gone(token)'
      BY DEF GoneStays
    <3>1. token # task.token
      BY <2>3 DEF Gone
    <3>2. sessions'[token] = sessions[token]
      BY <2>3, <3>1 DEF AccountsInv, AccountsType
    <3> QED
      BY <2>1, <3>2 DEF Gone, Given, Valid
  <2> QED
    BY <1>2, <2>2, <2>3 DEF UseSession
<1>3. CASE DeleteSession(c)
  BY <1>3, EndedSessionsStayGone DEF DeleteSession
<1>4. CASE CreateUser(c) \/ Verify(c) \/ Adopt(c) \/ SignOut(c) \/ SpendTicket(c) \/ LinkKey(c)
           \/ ListGames(c) \/ DatabaseFails(c)
  <2>1. UNCHANGED <<issued, today, sessions>>
    BY <1>4 DEF CreateUser, Verify, Adopt, SignOut, SpendTicket, LinkKey, ListGames, DatabaseFails
  <2> QED
    BY <2>1, EndedSessionsStayGone
<1> QED
  BY <1>1, <1>2, <1>3, <1>4 DEF Command

LEMMA NothingComesBack ==
    ASSUME AccountsInv, [AccountsNext]_accountVars
    PROVE  GoneStays
<1> USE DEF databaseVars, serverVars
<1>1. CASE \E c \in Connections : Command(c) \/ EndSocket(c)
  <2>1. CASE \E c \in Connections : Command(c)
    BY <2>1, CommandKeepsGone
  <2>2. CASE \E c \in Connections : EndSocket(c)
    BY <2>2, EndedSessionsStayGone DEF EndSocket
  <2> QED
    BY <1>1, <2>1, <2>2
<1>2. CASE \E p \in Programs : Begin(p) \/ LoseConnection(p) \/ Receive(p)
  <2>1. UNCHANGED <<sessions, issued, today>>
    BY <1>2 DEF Begin, LoseConnection, Receive
  <2> QED
    BY <2>1, EndedSessionsStayGone
<1>3. CASE \E v \in Visitors : StartVisit(v)
  BY <1>3, NewSessionKeepsGone DEF StartVisit, Visits
<1>4. CASE \E v \in Visitors : LookUpKey(v)
  <2>1. UNCHANGED <<sessions, today>> /\ issued' \in {issued, issued + 1}
    BY <1>4 DEF LookUpKey, Visits, NextToken
  <2>2. issued \in Nat /\ issued' \in Nat /\ issued <= issued' /\ today' \in Nat /\ today <= today'
    BY <2>1 DEF AccountsInv, AccountsType
  <2>3. \A token \in Tokens : sessions'[token] = sessions[token]
    BY <2>1
  <2> QED
    BY <2>2, <2>3, SameSessionsStayGone
<1>5. CASE \E v \in Visitors : Arrive(v) \/ Shell(v) \/ VisitFails(v) \/ Spawn(v) \/ Leave(v)
  <2>1. UNCHANGED <<sessions, issued, today>>
    BY <1>5 DEF Arrive, Shell, VisitFails, Spawn, Leave, Visits
  <2> QED
    BY <2>1, EndedSessionsStayGone
<1>6. CASE Revoke
  BY <1>6, EndedSessionsStayGone DEF Revoke
<1>7. CASE CleanSessions
  <2>1. UNCHANGED <<issued, today>>
        /\ sessions' = [token \in Tokens |-> IF Idle(token) THEN None ELSE sessions[token]]
    BY <1>7 DEF CleanSessions
  <2>2. issued \in Nat /\ issued' \in Nat /\ issued <= issued' /\ today' \in Nat /\ today <= today'
    BY <2>1 DEF AccountsInv, AccountsType
  <2>3. \A token \in Tokens : sessions'[token] \in {sessions[token], None}
    BY <2>1
  <2> QED
    BY <2>2, <2>3, SameSessionsStayGone
<1>8. CASE NextDay
  BY <1>8, EndedSessionsStayGone DEF NextDay
<1>9. CASE UNCHANGED accountVars
  BY <1>9, EndedSessionsStayGone DEF accountVars
<1> QED
  BY <1>1, <1>2, <1>3, <1>4, <1>5, <1>6, <1>7, <1>8, <1>9 DEF AccountsNext

LEMMA ToldStaysHonest ==
    ASSUME GoneStays, NEW told \in Told \cup {None}, HonestTold(told)
    PROVE  HonestTold(told)'
<1>1. CASE told = None
  BY <1>1 DEF HonestTold
<1>2. CASE told \in Told /\ told.words = "signed out" /\ told # None
  <2>1. Gone(told.token) /\ told.token \in Tokens
    BY <1>2 DEF HonestTold, Told, Gone, Given
  <2> QED
    BY <2>1 DEF GoneStays, HonestTold
<1> QED
  BY <1>1, <1>2 DEF HonestTold

\* A program whose connection does nothing stays honest.
LEMMA UntouchedStaysHonest ==
    ASSUME AccountsInv, GoneStays, NEW p \in Programs, HonestProgram(programs[p]),
           NEW current \in ProgramState, programs[p] = current, programs'[p] = current,
           current.job # None => tasks'[current.connection] = tasks[current.connection]
    PROVE  HonestProgram(programs[p])'
<1> DEFINE saved == current.saved
           task == tasks[current.connection]
<1>1. HonestTold(current.told)'
  BY ToldStaysHonest DEF HonestProgram, ProgramState
<1>2. ASSUME current.job # None, current.job \in {"sign out", "log out"}
      PROVE  saved # None /\ SigningOut(current.job, saved, tasks'[current.connection], Gone(saved)')
  <2>1. saved # None /\ SigningOut(current.job, saved, task, Gone(saved))
    BY <1>2 DEF HonestProgram, HonestJob
  <2>2. saved \in Tokens
    BY <2>1 DEF ProgramState
  <2>3. Gone(saved) => Gone(saved)'
    BY <2>2 DEF GoneStays
  <2>4. tasks'[current.connection] = task
    BY <1>2
  <2> HIDE DEF saved, task
  <2> QED
    BY <2>1, <2>3, <2>4 DEF SigningOut
<1> QED
  BY <1>1, <1>2 DEF HonestProgram, HonestJob

\* The next call of a sign-out.
LEMMA SignOutGoesOn ==
    ASSUME AccountsInv, GoneStays, FailingCalls \cap {"use", "delete"} = {},
           NEW p \in Programs, NEW c \in Connections, Command(c),
           NEW current \in ProgramState, programs[p] = current, HonestProgram(current),
           current.job # None, current.job \in {"sign out", "log out"}, current.connection = c
    PROVE  HonestProgram(programs[p])'
<1> DEFINE task == tasks[c]
           newtask == tasks'[c]
           saved == current.saved
           job == current.job
<1>1. task \in Task /\ tasks \in [Connections -> Task]
  BY DEF AccountsInv, AccountsType
<1>2. /\ saved # None /\ SigningOut(job, saved, task, Gone(saved))
      /\ saved \in Tokens /\ Given(saved, issued)
  BY DEF HonestProgram, HonestJob, ProgramState, AccountsInv, ProgramsKnown, KnownProgram
<1>3. programs' = programs
  BY DEF Command, CreateUser, Verify, StartSession, UseSession, Adopt, SignOut, DeleteSession,
         SpendTicket, LinkKey, ListGames, DatabaseFails, Calls
<1>4. HonestTold(current.told)'
  BY ToldStaysHonest DEF HonestProgram, ProgramState
<1>5. Gone(saved) => Gone(saved)'
  BY <1>2 DEF GoneStays
<1>6. SigningOut(job, saved, newtask, Gone(saved)')
  <2> HIDE DEF saved, job
  <2>1. CASE UseSession(c)
    <3>1. task.at = "use" /\ task.token = saved /\ task.session = None /\ job = "sign out"
      BY <1>2, <2>1 DEF UseSession, Calls, SigningOut, job
    <3>2. CASE Valid(saved)
      <4>1. tasks' = [tasks EXCEPT ![c] = [task EXCEPT !.at = "adopt", !.user = owners[saved]]]
        BY ZenonT(30), <2>1, <3>1, <3>2 DEF UseSession
      <4>2. newtask = [task EXCEPT !.at = "adopt", !.user = owners[saved]]
        BY <1>1, <4>1
      <4> HIDE DEF newtask, task
      <4>3. newtask.at = "adopt" /\ newtask.token = saved /\ newtask.session = None
        BY <1>1, <3>1, <4>2 DEF Task
      <4> QED
        BY <3>1, <4>3 DEF SigningOut
    <3>3. CASE ~Valid(saved)
      <4>1. tasks' = [tasks EXCEPT ![c] = [task EXCEPT !.at = "invalid"]]
        BY <2>1, <3>1, <3>3 DEF UseSession, Goes
      <4>2. newtask.at = "invalid" /\ newtask.session = None
        BY <1>1, <3>1, <4>1 DEF Task
      <4>3. Gone(saved)'
        BY <1>2, <1>5, <3>3 DEF Gone
      <4> QED
        BY <3>1, <4>2, <4>3 DEF SigningOut
    <3> QED
      BY <3>2, <3>3
  <2>2. CASE Adopt(c)
    <3>1. task.at = "adopt" /\ task.token = saved /\ job = "sign out"
      BY <1>2, <2>2 DEF Adopt, Calls, SigningOut, job
    <3>2. newtask.at = "signed in" /\ newtask.session = saved
      BY <1>1, <2>2, <3>1 DEF Adopt, Task
    <3> QED
      BY <3>1, <3>2 DEF SigningOut
  <2>3. CASE SignOut(c)
    <3>1. /\ task.at = "sign out" /\ job = "log out"
          /\ task.session = saved \/ (task.session = None /\ Gone(saved))
      BY <1>2, <2>3 DEF SignOut, Calls, SigningOut, job
    <3>2. /\ newtask.at = IF task.session = None THEN "signed out" ELSE "delete"
          /\ newtask.token = task.session
      BY <1>1, <2>3 DEF SignOut, Task
    <3> QED
      BY <1>2, <1>5, <3>1, <3>2 DEF SigningOut
  <2>4. CASE DeleteSession(c)
    <3>1. task.at = "delete" /\ task.token = saved /\ job = "log out"
      BY <1>2, <2>4 DEF DeleteSession, Calls, SigningOut, job
    <3>2. newtask.at = "signed out"
      BY <1>1, <2>4 DEF DeleteSession, Goes, Task
    <3>3. issued' = issued /\ sessions' = [sessions EXCEPT ![saved] = None]
      BY <2>4, <3>1 DEF DeleteSession, Revoked
    <3>4. Gone(saved)'
      <4>1. sessions'[saved] = None
        BY <1>2, <3>3 DEF AccountsInv, AccountsType
      <4> QED
        BY <1>2, <3>3, <4>1 DEF Gone, Valid, Given
    <3> QED
      BY <3>1, <3>2, <3>4 DEF SigningOut
  <2>5. CASE \/ CreateUser(c) \/ Verify(c) \/ StartSession(c) \/ SpendTicket(c) \/ LinkKey(c)
             \/ ListGames(c) \/ DatabaseFails(c)
    <3>1. \/ task.at \in {"create", "verify", "start", "ticket", "link", "list"}
          \/ task.at \in FailingCalls
      BY <2>5 DEF CreateUser, Verify, StartSession, SpendTicket, LinkKey, ListGames,
                  DatabaseFails, Calls
    <3>2. task.at \notin {"use", "delete", "sign out", "adopt", "signed in", "invalid", "signed out"}
      BY <3>1, AccountsAssumption
    <3> QED
      BY <1>2, <3>2 DEF SigningOut, job
  <2> QED
    BY <2>1, <2>2, <2>3, <2>4, <2>5 DEF Command
<1>7. programs'[p] = current
  BY <1>3
<1> QED
  BY <1>2, <1>4, <1>6, <1>7 DEF HonestProgram, HonestJob

\* One program and one connection take a step, which is no other program's.
LEMMA OthersStayHonest ==
    ASSUME AccountsInv, AllHonest, GoneStays, NEW p, NEW c,
           \A q \in Programs \ {p} : programs[q].job # None => programs[q].connection # c,
           \A d \in Connections : d # c => tasks'[d] = tasks[d],
           \A q \in Programs : q # p => programs'[q] = programs[q],
           p \in Programs => HonestProgram(programs[p])'
    PROVE  AllHonest'
<1> SUFFICES ASSUME NEW q \in Programs
             PROVE  HonestProgram(programs[q])'
  BY DEF AllHonest
<1>1. CASE q = p
  BY <1>1
<1>2. CASE q # p
  <2>1. PICK current \in ProgramState : programs[q] = current
    BY DEF AccountsInv, AccountsType
  <2>2. programs'[q] = current /\ HonestProgram(programs[q])
    BY <1>2, <2>1 DEF AllHonest
  <2>3. current.job # None => current.connection \in Connections
    BY <2>1, HeldByOne
  <2>4. current.job # None => tasks'[current.connection] = tasks[current.connection]
    BY <1>2, <2>1, <2>3
  <2> QED
    BY <2>1, <2>2, <2>4, UntouchedStaysHonest
<1> QED
  BY <1>1, <1>2

LEMMA CommandKeepsHonest ==
    ASSUME AccountsInv, AllHonest, GoneStays, FailingCalls \cap {"use", "delete"} = {},
           NEW c \in Connections, Command(c)
    PROVE  AllHonest'
<1>1. /\ programs' = programs
      /\ \A d \in Connections : d # c => tasks'[d] = tasks[d]
  BY DEF Command, CreateUser, Verify, StartSession, UseSession, Adopt, SignOut, DeleteSession,
         SpendTicket, LinkKey, ListGames, DatabaseFails, Calls, Goes, AccountsInv, AccountsType
<1> SUFFICES ASSUME NEW p \in Programs
             PROVE  HonestProgram(programs[p])'
  BY DEF AllHonest
<1>2. PICK current \in ProgramState : programs[p] = current
  BY DEF AccountsInv, AccountsType
<1>3. programs'[p] = current /\ HonestProgram(programs[p]) /\ HonestProgram(current)
  BY <1>1, <1>2 DEF AllHonest
<1>4. current.job # None => current.connection \in Connections
  BY <1>2, HeldByOne
<1>5. CASE current.job # None => current.connection # c
  <2>1. current.job # None => tasks'[current.connection] = tasks[current.connection]
    BY <1>1, <1>4, <1>5
  <2> QED
    BY <1>2, <1>3, <2>1, UntouchedStaysHonest
<1>6. CASE /\ current.job # None /\ current.job \in {"sign out", "log out"}
           /\ current.connection = c
  BY <1>2, <1>3, <1>6, SignOutGoesOn
<1>7. CASE current.job \notin {"sign out", "log out"}
  <2>1. HonestTold(current.told)'
    BY <1>3, ToldStaysHonest DEF HonestProgram, ProgramState
  <2> QED
    BY <1>3, <1>7, <2>1 DEF HonestProgram, HonestJob
<1> QED
  BY <1>5, <1>6, <1>7

LEMMA BeginKeepsHonest ==
    ASSUME AccountsInv, AllHonest, GoneStays, NEW p \in Programs, Begin(p)
    PROVE  AllHonest'
<1> DEFINE c == dialled + 1
<1>1. PICK job \in Jobs(p), user \in Users :
         /\ programs' = [programs EXCEPT ![p] =
                [programs[p] EXCEPT !.job = job, !.connection = c, !.told = None]]
         /\ tasks' = [tasks EXCEPT ![c] =
                [Closed EXCEPT !.at = FirstCall[job], !.by = p, !.user = user,
                               !.token = programs[p].saved]]
  BY DEF Begin
<1>2. c \in Connections /\ dialled \in Nat
  BY DEF Begin, AccountsInv, AccountsType
<1>3. \A q \in Programs \ {p} : programs[q].job # None => programs[q].connection # c
  <2> SUFFICES ASSUME NEW q \in Programs \ {p}, programs[q].job # None
               PROVE  programs[q].connection # c
    OBVIOUS
  <2>1. programs[q].connection \in Connections /\ programs[q].connection <= dialled
    BY HeldByOne
  <2> QED
    BY <1>2, <2>1, TokensAreNumbers
<1>4. /\ \A d \in Connections : d # c => tasks'[d] = tasks[d]
      /\ \A q \in Programs : q # p => programs'[q] = programs[q]
  BY <1>1 DEF AccountsInv, AccountsType
<1>5. PICK after : after = [programs[p] EXCEPT !.job = job, !.connection = c, !.told = None]
  OBVIOUS
<1>6. PICK new : new = [Closed EXCEPT !.at = FirstCall[job], !.by = p, !.user = user,
                                      !.token = programs[p].saved]
  OBVIOUS
<1>7. /\ programs[p] \in ProgramState
      /\ after.told = None /\ after.job = job /\ after.connection = c
      /\ after.saved = programs[p].saved
  BY <1>5 DEF AccountsInv, AccountsType, ProgramState
<1>8. programs'[p] = after /\ tasks'[c] = new
  BY <1>1, <1>2, <1>5, <1>6 DEF AccountsInv, AccountsType
<1>9. HonestTold(after.told)'
  BY <1>7 DEF HonestTold
<1>10. ASSUME job \in {"sign out", "log out"}
       PROVE  /\ after.saved # None
              /\ SigningOut(job, after.saved, new, Gone(after.saved)')
  <2>1. job = "sign out" /\ programs[p].saved # None
    BY <1>10 DEF Jobs
  <2>2. new.at = "use" /\ new.token = after.saved /\ new.session = None
    BY <1>6, <1>7, <2>1 DEF FirstCall, Closed
  <2> QED
    BY <1>7, <2>1, <2>2 DEF SigningOut
<1>11. HonestProgram(programs[p])'
  <2>1. after.job \in {"sign out", "log out"} =>
            /\ after.saved # None
            /\ SigningOut(after.job, after.saved, tasks'[after.connection], Gone(after.saved)')
    BY <1>7, <1>8, <1>10
  <2> HIDE DEF c
  <2> QED
    BY <1>8, <1>9, <2>1 DEF HonestProgram, HonestJob
<1> HIDE DEF c
<1> QED
  BY ZenonT(30), <1>3, <1>4, <1>11, OthersStayHonest

\* Letting go of the connection, a program is told nothing, or the truth.
LEMMA FinishedIsHonest ==
    ASSUME GoneStays, NEW p \in Programs, NEW current \in ProgramState, HonestProgram(current),
           NEW after, programs'[p] = after, after.job = None,
           \/ after.told = current.told
           \/ after.told.words = "signed out here"
           \/ after.told.words = "signed out" /\ after.told.token = current.saved
                 /\ current.saved # None /\ Gone(current.saved)
    PROVE  HonestProgram(programs[p])'
<1>1. HonestTold(after.told)'
  <2>1. CASE after.told = current.told
    <3>1. HonestTold(current.told)'
      BY ToldStaysHonest DEF HonestProgram, ProgramState
    <3> QED
      BY <2>1, <3>1
  <2>2. CASE after.told.words = "signed out here"
    BY <2>2 DEF HonestTold
  <2>3. CASE after.told.words = "signed out" /\ after.told.token = current.saved
                 /\ current.saved # None /\ Gone(current.saved)
    <3>1. current.saved \in Tokens
      BY <2>3 DEF ProgramState
    <3>2. Gone(current.saved)'
      BY <2>3, <3>1 DEF GoneStays
    <3> QED
      BY <2>3, <3>2 DEF HonestTold
  <2> QED
    BY <2>1, <2>2, <2>3
<1> QED
  BY <1>1 DEF HonestProgram, HonestJob

LEMMA ReceiveKeepsHonest ==
    ASSUME AccountsInv, AllHonest, GoneStays, NEW p \in Programs, LoseConnection(p) \/ Receive(p)
    PROVE  AllHonest'
<1>1. PICK current \in ProgramState : programs[p] = current
  BY DEF AccountsInv, AccountsType
<1> DEFINE c == current.connection
           task == tasks[c]
<1>2. current.job # None /\ HonestProgram(current)
  BY <1>1 DEF LoseConnection, Receive, AllHonest
<1>3. /\ c \in Connections /\ task \in Task
      /\ \A q \in Programs \ {p} : programs[q].job # None => programs[q].connection # c
  BY <1>1, <1>2, HeldByOne
<1>4. /\ \A d \in Connections : d # c => tasks'[d] = tasks[d]
      /\ \A q \in Programs : q # p => programs'[q] = programs[q]
  <2>1. programs \in [Programs -> ProgramState] /\ tasks \in [Connections -> Task]
    BY DEF AccountsInv, AccountsType
  <2>2. CASE LoseConnection(p)
    BY <1>1, <2>1, <2>2 DEF LoseConnection
  <2>3. CASE Receive(p)
    <3>1. \/ \E after : Ends(p, after)
          \/ \E after, job, at, token : Asks(p, after, job, at, token) /\ after.connection = c
      <4>1. [[current EXCEPT !.saved = task.token] EXCEPT !.ticket = None].connection = c
        BY DEF ProgramState
      <4> QED
        BY <1>1, <2>3, <4>1 DEF Receive, ReceiveSignIn, ReceiveGames, ReceiveSignOut
    <3> QED
      BY <1>1, <2>1, <3>1 DEF Asks, Ends
  <2> QED
    BY <2>2, <2>3
<1>5. /\ Finished(current).job = None /\ Finished(current).told = current.told
      /\ [Finished(current) EXCEPT !.saved = None].job = None
      /\ [Finished(current) EXCEPT !.saved = None].told = current.told
      /\ Finished([current EXCEPT !.saved = task.token]).job = None
      /\ Finished([current EXCEPT !.saved = task.token]).told = current.told
  BY DEF Finished, ProgramState
<1>6. ASSUME NEW words
      PROVE  /\ Forgotten(current, words).job = None
             /\ Forgotten(current, words).told.words = words
             /\ Forgotten(current, words).told.token = current.saved
  BY DEF Forgotten, Finished, ProgramState
<1>7. programs \in [Programs -> ProgramState] /\ tasks \in [Connections -> Task]
  BY DEF AccountsInv, AccountsType
<1>8. HonestProgram(programs[p])'
  <2>1. CASE LoseConnection(p)
    <3>1. programs'[p] \in {Finished(current), Forgotten(current, "signed out here")}
      BY <1>1, <1>7, <2>1 DEF LoseConnection, AfterFailure
    <3>2. PICK after : after = programs'[p]
      OBVIOUS
    <3>3. after = Finished(current) => after.job = None /\ after.told = current.told
      BY <1>5
    <3>4. after = Forgotten(current, "signed out here") =>
              after.job = None /\ after.told.words = "signed out here"
      BY <1>6
    <3>5. after.job = None /\ (after.told = current.told \/ after.told.words = "signed out here")
      BY <3>1, <3>2, <3>3, <3>4
    <3> QED
      BY <1>2, <3>2, <3>5, FinishedIsHonest
  <2>2. CASE Receive(p) /\ current.job = "log out"
    <3>1. programs'[p] = Forgotten(current, "signed out") /\ task.at \in Answers
      BY <1>1, <1>7, <2>2 DEF Receive, Ends
    <3>2. Gone(current.saved) /\ current.saved # None
      BY <1>2, <2>2, <3>1 DEF HonestProgram, HonestJob, SigningOut, Answers
    <3>3. PICK after : after = programs'[p]
      OBVIOUS
    <3>4. after.job = None /\ after.told.words = "signed out" /\ after.told.token = current.saved
      BY <1>6, <3>1, <3>3
    <3> QED
      BY <1>2, <3>2, <3>3, <3>4, FinishedIsHonest
  <2>3. CASE Receive(p) /\ current.job = "sign out"
    <3>1. Asks(p, current, "log out", "sign out", None) /\ task.at \in Answers
      BY <1>1, <2>3 DEF Receive, ReceiveSignOut
    <3>2. /\ current.saved # None
          /\ \/ task.at = "signed in" /\ task.session = current.saved
             \/ task.at = "invalid" /\ task.session = None /\ Gone(current.saved)
      BY <1>2, <2>3, <3>1 DEF HonestProgram, HonestJob, SigningOut, Answers
    <3>3. PICK after : after = [current EXCEPT !.job = "log out"]
      OBVIOUS
    <3>4. /\ after.job = "log out" /\ after.saved = current.saved /\ after.connection = c
          /\ after.told = current.told
      BY <3>3 DEF ProgramState
    <3>5. programs'[p] = after
      BY <1>7, <3>1, <3>3 DEF Asks
    <3>6. tasks'[c].at = "sign out" /\ tasks'[c].session = task.session
      BY <1>3, <1>7, <3>1 DEF Asks, Task
    <3>7. current.saved \in Tokens /\ (Gone(current.saved) => Gone(current.saved)')
      BY <3>2 DEF GoneStays, ProgramState
    <3>8. HonestTold(after.told)'
      <4>1. HonestTold(current.told)'
        BY <1>2, ToldStaysHonest DEF HonestProgram, ProgramState
      <4> QED
        BY <3>4, <4>1
    <3>9. SigningOut("log out", current.saved, tasks'[c], Gone(current.saved)')
      BY <3>2, <3>6, <3>7 DEF SigningOut
    <3>10. SigningOut(after.job, after.saved, tasks'[after.connection], Gone(after.saved)')
      BY <3>4, <3>9
    <3> QED
      BY <3>2, <3>4, <3>5, <3>8, <3>10 DEF HonestProgram, HonestJob
  <2>4. CASE Receive(p) /\ current.job \notin {"sign out", "log out"}
    <3>1. \/ programs'[p] \in {Finished(current), [Finished(current) EXCEPT !.saved = None],
                               Finished([current EXCEPT !.saved = task.token])}
          \/ programs'[p] \in {[current EXCEPT !.job = "list"],
                  [[[current EXCEPT !.saved = task.token] EXCEPT !.ticket = None] EXCEPT !.job = "link"]}
      BY <1>1, <1>7, <2>4 DEF Receive, ReceiveSignIn, ReceiveGames, Asks, Ends
    <3>2. CASE programs'[p] \in {Finished(current), [Finished(current) EXCEPT !.saved = None],
                                 Finished([current EXCEPT !.saved = task.token])}
      BY <1>2, <1>5, <3>2, FinishedIsHonest
    <3>3. CASE programs'[p] \in {[current EXCEPT !.job = "list"],
                  [[[current EXCEPT !.saved = task.token] EXCEPT !.ticket = None] EXCEPT !.job = "link"]}
      <4>1. PICK after : programs'[p] = after
        OBVIOUS
      <4>2. after.job \in {"list", "link"} /\ after.told = current.told
        BY <3>3, <4>1 DEF ProgramState
      <4>3. HonestTold(current.told)'
        BY <1>2, ToldStaysHonest DEF HonestProgram, ProgramState
      <4>4. HonestTold(after.told)'
        BY <4>2, <4>3
      <4> QED
        BY <4>1, <4>2, <4>4 DEF HonestProgram, HonestJob
    <3> QED
      BY <3>1, <3>2, <3>3
  <2> QED
    BY <2>1, <2>2, <2>3, <2>4
<1> QED
  BY <1>3, <1>4, <1>8, OthersStayHonest

LEMMA NextKeepsHonest ==
    ASSUME AccountsInv, AllHonest, FailingCalls \cap {"use", "delete"} = {},
           [AccountsNext]_accountVars
    PROVE  AllHonest'
<1>1. GoneStays
  BY NothingComesBack
<1>2. programs \in [Programs -> ProgramState] /\ tasks \in [Connections -> Task]
  BY DEF AccountsInv, AccountsType
<1>3. CASE \E c \in Connections : Command(c)
  BY <1>1, <1>3, CommandKeepsHonest
<1>4. ASSUME NEW c \in Connections, EndSocket(c)
      PROVE  AllHonest'
  <2>1. /\ \A d \in Connections : d # c => tasks'[d] = tasks[d]
        /\ programs' = programs /\ tasks[c].by = None
    BY <1>2, <1>4 DEF EndSocket
  <2>2. \A q \in Programs : programs[q].job # None => programs[q].connection # c
    BY <2>1, HeldByOne, TokensAreNumbers
  <2>3. PICK nobody : nobody \notin Programs
    BY TokensAreNumbers
  <2> QED
    BY <1>1, <2>1, <2>2, <2>3, OthersStayHonest
<1>5. CASE \E p \in Programs : Begin(p) \/ LoseConnection(p) \/ Receive(p)
  BY <1>1, <1>5, BeginKeepsHonest, ReceiveKeepsHonest
<1>6. ASSUME NEW v \in Visitors, Spawn(v) \/ Leave(v), programs' # programs
      PROVE  AllHonest'
  <2>1. PICK fresh : programs' = [programs EXCEPT ![v] = fresh] /\ fresh.job = None /\ fresh.told = None
    <3>1. PICK saved, ticket : programs' = [programs EXCEPT ![v] = Program(saved, ticket)]
      BY <1>6 DEF Spawn, Leave
    <3>2. Program(saved, ticket).job = None /\ Program(saved, ticket).told = None
      BY DEF Program
    <3> QED
      BY <3>1, <3>2
  <2>2. v \in Programs /\ programs'[v] = fresh /\ \A q \in Programs : q # v => programs'[q] = programs[q]
    BY <1>2, <2>1 DEF Programs
  <2>3. HonestProgram(programs[v])'
    BY <2>1, <2>2 DEF HonestProgram, HonestTold, HonestJob
  <2>4. CASE tasks' = tasks
    <3>1. PICK nothing : nothing \notin Connections
      BY TokensAreNumbers
    <3>2. \A q \in Programs \ {v} : programs[q].job # None => programs[q].connection # nothing
      BY <3>1, HeldByOne
    <3> QED
      BY <1>1, <2>2, <2>3, <2>4, <3>2, OthersStayHonest
  <2>5. CASE tasks' # tasks
    <3> DEFINE c == programs[v].connection
    <3>1. programs[v].job # None /\ tasks' = [tasks EXCEPT ![c].by = None]
      BY <1>6, <2>5 DEF Spawn, Leave, Visits
    <3>2. \A d \in Connections : d # c => tasks'[d] = tasks[d]
      BY <1>2, <3>1
    <3>3. \A q \in Programs \ {v} : programs[q].job # None => programs[q].connection # c
      BY <2>2, <3>1, HeldByOne
    <3> QED
      BY <1>1, <2>2, <2>3, <3>2, <3>3, OthersStayHonest
  <2> QED
    BY <2>4, <2>5
<1>7. CASE programs' = programs /\ tasks' = tasks
  <2>1. PICK nobody : nobody \notin Programs
    BY TokensAreNumbers
  <2>2. PICK nothing : nothing \notin Connections
    BY TokensAreNumbers
  <2>3. \A q \in Programs : programs[q].job # None => programs[q].connection # nothing
    BY <2>2, HeldByOne
  <2> QED
    BY <1>1, <1>7, <2>1, <2>3, OthersStayHonest
<1>8. CASE \E v \in Visitors : Arrive(v) \/ Shell(v) \/ LookUpKey(v) \/ StartVisit(v) \/ VisitFails(v)
  BY <1>7, <1>8 DEF Arrive, Shell, LookUpKey, StartVisit, VisitFails, Visits, serverVars
<1>9. CASE Revoke \/ CleanSessions \/ NextDay \/ UNCHANGED accountVars
  BY <1>7, <1>9 DEF Revoke, CleanSessions, NextDay, accountVars, serverVars
<1>10. ASSUME NEW v \in Visitors, Spawn(v) \/ Leave(v), programs' = programs
       PROVE  AllHonest'
  <2>1. CASE tasks' = tasks
    BY <1>7, <1>10, <2>1
  <2>2. CASE tasks' # tasks
    <3>1. programs[v].job # None /\ programs' = [programs EXCEPT ![v] = Program(None, None)]
      BY <1>10, <2>2 DEF Spawn, Leave, Visits
    <3>2. v \in Programs
      BY DEF Programs
    <3>3. programs'[v].job = None
      BY <1>2, <3>1, <3>2 DEF Program
    <3> QED
      BY <1>10, <3>1, <3>3
  <2> QED
    BY <2>1, <2>2
<1> QED
  BY <1>3, <1>4, <1>5, <1>6, <1>8, <1>9, <1>10 DEF AccountsNext

-----------------------------------------------------------------------------
(* Who holds a session                                                     *)

Signing(current) == current.job # None /\ current.job \in {"log in", "register"}
LoggingOut(current) == current.job # None /\ current.job = "log out"

\* The session a program is signed in with, or that was made for it and that
\* it has not heard of yet.
Held(current, task) ==
    IF ~Signing(current) THEN current.saved
    ELSE IF task.at \in {"adopt", "signed in"} THEN task.token ELSE None
HeldBy(p) == Held(programs[p], tasks[programs[p].connection])

\* The session a task is about to revoke.
Ending(task) ==
    IF task.at = "sign out" THEN task.session
    ELSE IF task.at = "delete" THEN task.token ELSE None

\* A session that was not revoked is in the database, or was cleaned away.
DatesAgree ==
    /\ last_use \in [Tokens -> Nat \cup {None}]
    /\ \A token \in Tokens :
          /\ sessions[token] # None => sessions[token] = last_use[token]
          /\ sessions[token] = None /\ last_use[token] # None
                 => last_use[token] < today - IdleLimit

OneHolder ==
    \A p, q \in Programs : HeldBy(p) # None /\ HeldBy(p) = HeldBy(q) => p = q

\* The session of a visitor is held by his program only while he is there.
VisitorsHold ==
    /\ \A v, w \in Visitors :
           visits[v].token # None /\ visits[v].token = visits[w].token => v = w
    /\ \A v \in Visitors :
           visits[v].at \in {"away", "connected", "look up", "start"} => visits[v].token = None
    /\ \A p \in Programs, v \in Visitors :
           HeldBy(p) # None /\ visits[v].token = HeldBy(p) => p = v /\ visits[v].at = "running"
    /\ \A token \in leaving :
           \E v \in Visitors : visits[v].at = "left" /\ visits[v].token = token

\* A task revokes a session only for the program that holds it.
OwnSessionEnds ==
    \A c \in Connections :
        LET token == Ending(tasks[c])
        IN  token # None =>
                /\ Given(token, issued)
                /\ \A p \in Programs : HeldBy(p) = token =>
                       LoggingOut(programs[p]) /\ programs[p].connection = c

\* A session that is held, or about to be, was not revoked.
HeldIsLive ==
    /\ \A p \in Programs :
           HeldBy(p) # None /\ ~LoggingOut(programs[p]) => last_use[HeldBy(p)] # None
    /\ \A v \in Visitors :
           visits[v].at = "spawn" /\ visits[v].token # None =>
               /\ last_use[visits[v].token] # None
               /\ \A c \in Connections : Ending(tasks[c]) # visits[v].token

\* What the task of a program knows while it logs in or begins to sign out.
KnownJob(current, task) ==
    /\ Signing(current) => current.saved = None /\ task.at # "use"
    /\ current.job # None /\ current.job = "sign out" =>
          /\ task.at \in {"use", "adopt"} \cup Answers
          /\ task.session \in {None, current.saved}
          /\ task.at \in {"use", "adopt"} => task.token = current.saved
JobsKnown ==
    \A p \in Programs :
        programs[p].job # None => KnownJob(programs[p], tasks[programs[p].connection])

TokensKept == OneHolder /\ VisitorsHold /\ OwnSessionEnds /\ HeldIsLive
LiveInv == DatesAgree /\ TokensKept /\ JobsKnown

\* Who holds a session holds one that was given out.
LEMMA HeldIsGiven ==
    ASSUME AccountsInv, NEW p \in Programs, HeldBy(p) # None
    PROVE  HeldBy(p) \in Tokens /\ Given(HeldBy(p), issued)
<1>1. /\ programs[p] \in ProgramState
      /\ programs[p].saved # None => Given(programs[p].saved, issued)
  BY DEF AccountsInv, AccountsType, ProgramsKnown, KnownProgram
<1>2. CASE ~Signing(programs[p])
  BY <1>1, <1>2 DEF HeldBy, Held, ProgramState
<1>3. CASE Signing(programs[p])
  <2> DEFINE task == tasks[programs[p].connection]
  <2>1. task \in Task /\ KnownTask(task, issued, owners)
    BY <1>3, HeldByOne DEF Signing
  <2>2. HeldBy(p) = task.token /\ task.at \in {"adopt", "signed in"}
    BY <1>3 DEF HeldBy, Held
  <2> QED
    BY <2>1, <2>2 DEF KnownTask, Task
<1> QED
  BY <1>2, <1>3

\* What a step may do to those who hold a session: they let it go, or the
\* program of a visitor is started with it.
StartsWith(p) ==
    /\ p \in Visitors /\ visits[p].at = "spawn" /\ visits'[p].at = "running"
    /\ visits'[p].token = visits[p].token /\ HeldBy(p)' = visits[p].token
HoldsOn ==
    \A p \in Programs :
        \/ HeldBy(p)' = None
        \/ /\ HeldBy(p)' = HeldBy(p)
           /\ LoggingOut(programs[p]) => /\ LoggingOut(programs'[p])
                                         /\ programs'[p].connection = programs[p].connection
        \/ StartsWith(p)
VisitsOn ==
    /\ \A v \in Visitors :
           \/ visits'[v] = visits[v]
           \/ visits'[v].token = None /\ visits[v].at # "left"
           \/ /\ visits[v].at \in {"connected", "running"} /\ visits'[v].at = "left"
              /\ visits'[v].token = visits[v].token /\ HeldBy(v)' = None
           \/ /\ visits[v].at = "spawn" /\ visits'[v].at = "running"
              /\ visits'[v].token = visits[v].token
    /\ \A token \in leaving' :
           \/ token \in leaving
           \/ \E v \in Visitors : visits'[v].at = "left" /\ visits'[v].token = token
\* A program that logs out gives its task its session to revoke.
EndsOn ==
    \A c \in Connections :
        LET token == Ending(tasks[c])'
        IN  \/ token \in {None, Ending(tasks[c])}
            \/ \E p \in Programs : /\ token = HeldBy(p) /\ HeldBy(p)' = HeldBy(p)
                                   /\ LoggingOut(programs'[p]) /\ programs'[p].connection = c
\* Only tasks and the gateway revoke sessions.
RevokesOn ==
    \A token \in Tokens :
        last_use[token] # None /\ last_use'[token] = None
            => token \in leaving \/ \E c \in Connections : Ending(tasks[c]) = token

LEMMA VisitorsArePrograms == Visitors \subseteq Programs
BY DEF Programs

\* What nobody revokes and nobody else holds stays in use.
LEMMA LivesOn ==
    ASSUME AccountsInv, TokensKept, issued' \in Nat, issued <= issued',
           HoldsOn, VisitsOn, EndsOn, RevokesOn
    PROVE  TokensKept'
<1>a. OneHolder /\ VisitorsHold /\ OwnSessionEnds /\ HeldIsLive
  BY DEF TokensKept
<1>b. \A v, w \in Visitors :
          visits[v].token # None /\ visits[v].token = visits[w].token => v = w
  BY <1>a DEF VisitorsHold
<1>c. \A v \in Visitors :
          visits[v].at \in {"away", "connected", "look up", "start"} => visits[v].token = None
  BY <1>a DEF VisitorsHold
<1>d. \A p \in Programs, v \in Visitors :
          HeldBy(p) # None /\ visits[v].token = HeldBy(p) => p = v /\ visits[v].at = "running"
  BY <1>a DEF VisitorsHold
<1>1. /\ \A p \in Programs : HeldBy(p) # None => HeldBy(p) \in Tokens /\ Given(HeldBy(p), issued)
      /\ \A v \in Visitors : visits[v].token \in Tokens \cup {None}
      /\ Visitors \subseteq Programs
  BY HeldIsGiven, VisitorsArePrograms DEF AccountsInv, AccountsType, Visit
<1>2. ASSUME NEW p \in Programs, HeldBy(p)' # None
      PROVE  StartsWith(p) \/ HeldBy(p)' = HeldBy(p)
  BY <1>2 DEF HoldsOn
<1>3. ASSUME NEW p \in Programs, HeldBy(p)' # None, NEW q \in Programs, HeldBy(p)' = HeldBy(q)'
      PROVE  p = q
  <2>1. CASE HeldBy(p)' = HeldBy(p) /\ HeldBy(q)' = HeldBy(q)
    BY <1>a, <1>3, <2>1 DEF OneHolder
  <2>2. CASE StartsWith(p) /\ HeldBy(q)' = HeldBy(q)
    BY <1>d, <1>3, <2>2 DEF StartsWith
  <2>3. CASE StartsWith(q) /\ HeldBy(p)' = HeldBy(p)
    BY <1>d, <1>3, <2>3 DEF StartsWith
  <2>4. CASE StartsWith(p) /\ StartsWith(q)
    BY <1>b, <1>3, <2>4 DEF StartsWith
  <2> QED
    BY <1>2, <1>3, <2>1, <2>2, <2>3, <2>4
<1>4. OneHolder'
  BY <1>3 DEF OneHolder
<1>5. \A v \in Visitors : visits'[v].token \in {visits[v].token, None}
  BY DEF VisitsOn
<1>6. \A v, w \in Visitors : visits'[v].token # None /\ visits'[v].token = visits'[w].token => v = w
  BY <1>b, <1>5
<1>7. ASSUME NEW p \in Programs, NEW v \in Visitors, HeldBy(p)' # None,
             visits'[v].token = HeldBy(p)'
      PROVE  p = v /\ visits'[v].at = "running"
  <2>1. visits[v].token = HeldBy(p)'
    BY <1>5, <1>7
  <2>2. CASE HeldBy(p)' = HeldBy(p)
    <3>1. p = v /\ visits[v].at = "running"
      BY <1>d, <1>7, <2>1, <2>2
    <3> QED
      BY <1>7, <3>1 DEF VisitsOn
  <2>3. CASE StartsWith(p)
    BY <1>b, <1>7, <2>1, <2>3 DEF StartsWith
  <2> QED
    BY <1>2, <1>7, <2>2, <2>3
<1>8. ASSUME NEW token \in leaving'
      PROVE  \E v \in Visitors : visits'[v].at = "left" /\ visits'[v].token = token
  <2>1. CASE token \in leaving
    <3>1. PICK v \in Visitors : visits[v].at = "left" /\ visits[v].token = token
      BY <1>a, <2>1 DEF VisitorsHold
    <3>2. visits'[v] = visits[v]
      BY <3>1 DEF VisitsOn
    <3> QED
      BY <3>1, <3>2
  <2> QED
    BY <1>8, <2>1 DEF VisitsOn
<1>9. \A v \in Visitors :
          visits'[v].at \in {"away", "connected", "look up", "start"} => visits'[v].token = None
  <2> SUFFICES ASSUME NEW v \in Visitors, visits'[v].token # None
               PROVE  visits'[v].at \notin {"away", "connected", "look up", "start"}
    OBVIOUS
  <2>1. \/ visits'[v] = visits[v]
        \/ visits'[v].at \in {"left", "running"}
    BY DEF VisitsOn
  <2>2. CASE visits'[v] = visits[v]
    BY <1>c, <2>2
  <2> QED
    BY <2>1, <2>2
<1>10. VisitorsHold'
  BY <1>6, <1>7, <1>8, <1>9 DEF VisitorsHold
<1>11. ASSUME NEW c \in Connections, Ending(tasks[c])' # None
       PROVE  /\ Given(Ending(tasks[c])', issued')
              /\ \A p \in Programs : HeldBy(p)' = Ending(tasks[c])' =>
                     LoggingOut(programs'[p]) /\ programs'[p].connection = c
  <2> DEFINE token == Ending(tasks[c])'
  <2>1. CASE token = Ending(tasks[c])
    <3>1. Given(token, issued)
      BY <1>a, <1>11, <2>1 DEF OwnSessionEnds
    <3>2. ASSUME NEW p \in Programs, HeldBy(p)' = token
          PROVE  LoggingOut(programs'[p]) /\ programs'[p].connection = c
      <4>1. CASE StartsWith(p)
        BY <1>a, <1>11, <2>1, <3>2, <4>1 DEF StartsWith, HeldIsLive
      <4>2. CASE HeldBy(p)' = HeldBy(p)
        <5>1. LoggingOut(programs[p]) /\ programs[p].connection = c
          BY <1>a, <1>11, <2>1, <3>2, <4>2 DEF OwnSessionEnds
        <5>2. CASE ~StartsWith(p)
          BY <1>11, <3>2, <4>2, <5>1, <5>2 DEF HoldsOn
        <5> QED
          BY <4>1, <5>2
      <4> QED
        BY <1>2, <1>11, <3>2, <4>1, <4>2
    <3>4. token \in Nat /\ issued \in Nat
      <4>1. tasks[c] \in Task
        BY DEF AccountsInv, AccountsType
      <4>2. Ending(tasks[c]) \in Tokens \cup {None}
        BY <4>1 DEF Ending, Task
      <4> QED
        BY <1>11, <2>1, <4>2, TokensAreNumbers DEF AccountsInv, AccountsType
    <3>3. Given(token, issued')
      BY <3>1, <3>4 DEF Given
    <3> QED
      BY <3>2, <3>3
  <2>2. CASE token # Ending(tasks[c])
    <3>1. PICK p \in Programs : /\ token = HeldBy(p) /\ HeldBy(p)' = HeldBy(p)
                                /\ LoggingOut(programs'[p]) /\ programs'[p].connection = c
      BY <1>11, <2>2 DEF EndsOn
    <3>2. Given(token, issued)
      BY <1>1, <1>11, <3>1
    <3>3. \A q \in Programs : HeldBy(q)' = token => q = p
      BY <1>3, <1>11, <3>1
    <3>4. token \in Nat /\ issued \in Nat
      BY <1>1, <1>11, <3>1, TokensAreNumbers DEF AccountsInv, AccountsType
    <3> QED
      BY <3>1, <3>2, <3>3, <3>4 DEF Given
  <2> QED
    BY <2>1, <2>2
<1>12. OwnSessionEnds'
  BY <1>11 DEF OwnSessionEnds
<1>13. ASSUME NEW token \in Tokens, last_use[token] # None, last_use'[token] = None
       PROVE  \/ \E v \in Visitors : visits[v].at = "left" /\ visits[v].token = token
              \/ \E c \in Connections : Ending(tasks[c]) = token
  BY <1>a, <1>13 DEF RevokesOn, VisitorsHold
<1>14. ASSUME NEW v \in Visitors, visits[v].at = "spawn", visits[v].token # None
       PROVE  /\ last_use'[visits[v].token] # None
              /\ \A c \in Connections : Ending(tasks[c])' # visits[v].token
  <2>1. last_use'[visits[v].token] # None
    BY <1>1, <1>a, <1>b, <1>13, <1>14 DEF HeldIsLive
  <2>2. ASSUME NEW c \in Connections, Ending(tasks[c])' = visits[v].token
        PROVE  FALSE
    <3>1. Ending(tasks[c]) # visits[v].token
      BY <1>a, <1>14 DEF HeldIsLive
    <3>2. PICK p \in Programs : visits[v].token = HeldBy(p)
      BY <1>14, <2>2, <3>1 DEF EndsOn
    <3> QED
      BY <1>d, <1>14, <3>2
  <2> QED
    BY <2>1, <2>2
<1>15. ASSUME NEW p \in Programs, HeldBy(p)' # None, ~LoggingOut(programs'[p])
       PROVE  last_use'[HeldBy(p)'] # None
  <2>1. CASE StartsWith(p)
    BY <1>14, <1>15, <2>1 DEF StartsWith
  <2>2. CASE ~StartsWith(p)
    <3>1. HeldBy(p)' = HeldBy(p) /\ ~LoggingOut(programs[p])
      BY <1>15, <2>2 DEF HoldsOn
    <3>2. last_use[HeldBy(p)] # None
      BY <1>a, <1>15, <3>1 DEF HeldIsLive
    <3>3. HeldBy(p) \in Tokens /\ HeldBy(p) # None
      BY <1>1, <1>15, <3>1
    <3>4. \A v \in Visitors : visits[v].at = "left" => visits[v].token # HeldBy(p)
      BY <1>d, <3>3
    <3>5. \A c \in Connections : Ending(tasks[c]) # HeldBy(p)
      BY <1>a, <3>1, <3>3 DEF OwnSessionEnds
    <3>6. last_use'[HeldBy(p)] # None
      BY <1>13, <3>2, <3>3, <3>4, <3>5
    <3> QED
      BY <3>1, <3>6
  <2> QED
    BY <2>1, <2>2
<1>16. ASSUME NEW v \in Visitors, visits'[v].at = "spawn", visits'[v].token # None
       PROVE  visits'[v] = visits[v]
  BY <1>16 DEF VisitsOn
<1>17. HeldIsLive'
  BY <1>14, <1>15, <1>16 DEF HeldIsLive
<1> QED
  BY <1>4, <1>10, <1>12, <1>17 DEF TokensKept

-----------------------------------------------------------------------------
(* What the steps do to the sessions that are held                         *)

LEMMA DatesStayAgreed ==
    ASSUME AccountsInv, DatesAgree, [AccountsNext]_accountVars
    PROVE  DatesAgree'
<1> USE DEF databaseVars, serverVars
<1>1. /\ sessions \in [Tokens -> Nat \cup {None}] /\ last_use \in [Tokens -> Nat \cup {None}]
      /\ today \in Nat /\ IdleLimit \in Nat /\ None \notin Nat
  BY TokensAreNumbers, AccountsAssumption DEF AccountsInv, AccountsType, DatesAgree
<1>2. CASE UNCHANGED <<sessions, last_use, today>>
  BY <1>2 DEF DatesAgree
<1>3. ASSUME NEW token, UNCHANGED today,
             sessions' = [sessions EXCEPT ![token] = today],
             last_use' = [last_use EXCEPT ![token] = today]
      PROVE  DatesAgree'
  BY <1>1, <1>3 DEF DatesAgree
<1>4. ASSUME NEW token, UNCHANGED today, Revoked(token)
      PROVE  DatesAgree'
  BY <1>1, <1>4 DEF DatesAgree, Revoked
<1>5. CASE CleanSessions
  <2>1. /\ sessions' = [token \in Tokens |-> IF Idle(token) THEN None ELSE sessions[token]]
        /\ last_use' = last_use /\ today' = today
    BY <1>5 DEF CleanSessions
  <2> QED
    BY <1>1, <2>1 DEF DatesAgree, Idle
<1>6. CASE NextDay
  BY <1>1, <1>6 DEF NextDay, DatesAgree
<1>7. CASE \E c \in Connections : Command(c) \/ EndSocket(c)
  <2>1. PICK c \in Connections : Command(c) \/ EndSocket(c)
    BY <1>7
  <2>2. CASE StartSession(c)
    BY <1>3, <2>2 DEF StartSession, Calls, NewSession
  <2>3. CASE UseSession(c)
    BY <1>2, <1>3, <2>3 DEF UseSession, Calls
  <2>4. CASE DeleteSession(c)
    BY <1>4, <2>4 DEF DeleteSession, Calls
  <2>5. CASE EndSocket(c) \/ CreateUser(c) \/ Verify(c) \/ Adopt(c) \/ SignOut(c) \/ SpendTicket(c)
             \/ LinkKey(c) \/ ListGames(c) \/ DatabaseFails(c)
    BY <1>2, <2>5 DEF EndSocket, CreateUser, Verify, Adopt, SignOut, SpendTicket, LinkKey,
                      ListGames, DatabaseFails, Calls
  <2> QED
    BY <2>1, <2>2, <2>3, <2>4, <2>5 DEF Command
<1>8. CASE \E p \in Programs : Begin(p) \/ LoseConnection(p) \/ Receive(p)
  BY <1>2, <1>8 DEF Begin, LoseConnection, Receive
<1>9. CASE \E v \in Visitors : Arrive(v) \/ Shell(v) \/ LookUpKey(v) \/ VisitFails(v)
                               \/ Spawn(v) \/ Leave(v)
  BY <1>2, <1>9 DEF Arrive, Shell, LookUpKey, VisitFails, Spawn, Leave, Visits
<1>10. CASE \E v \in Visitors : StartVisit(v)
  BY <1>3, <1>10 DEF StartVisit, Visits, NewSession
<1>11. CASE Revoke
  BY <1>2, <1>4, <1>11 DEF Revoke
<1>12. CASE UNCHANGED accountVars
  BY <1>2, <1>12 DEF accountVars
<1> QED
  BY <1>5, <1>6, <1>7, <1>8, <1>9, <1>10, <1>11, <1>12 DEF AccountsNext

LEMMA UntouchedIsHeld ==
    ASSUME NEW p \in Programs, programs'[p] = programs[p],
           Signing(programs[p]) =>
               LET task == tasks[programs[p].connection]
                   new == tasks'[programs[p].connection]
               IN  new.at = task.at /\ new.token = task.token
    PROVE  HeldBy(p)' = HeldBy(p)
BY DEF HeldBy, Held, Signing

\* What one call makes of the task of a connection.
TaskGoesOn(task, new) ==
    /\ new.at \in {"adopt", "signed in"} =>
           task.at = "use" \/ (task.at = "adopt" /\ new.token = task.token)
    /\ new.at \notin {"use", "sign out"}
    /\ new.at = "delete" => task.at = "sign out" /\ new.token = task.session
    /\ task.at = "use" => /\ new.at \in {"adopt", "invalid", "failed"}
                          /\ new.token = task.token /\ new.session = task.session
    /\ task.at = "adopt" => new.at = "signed in" /\ new.session = task.token
    /\ task.at \notin Answers

LEMMA CommandGoesOn ==
    ASSUME AccountsInv, NEW c \in Connections, Command(c), ~StartSession(c)
    PROVE  /\ TaskGoesOn(tasks[c], tasks'[c])
           /\ \A d \in Connections : d # c => tasks'[d] = tasks[d]
           /\ UNCHANGED <<programs, visits, leaving, issued>>
           /\ \/ last_use' = last_use
              \/ \E token : last_use' = [last_use EXCEPT ![token] = today]
              \/ tasks[c].at = "delete" /\ last_use' = [last_use EXCEPT ![tasks[c].token] = None]
<1>1. tasks \in [Connections -> Task] /\ tasks[c] \in Task
  BY DEF AccountsInv, AccountsType
<1> USE DEF databaseVars, gatewayVars, Calls, Goes
<1>2. CASE CreateUser(c)
  BY <1>1, <1>2 DEF CreateUser, TaskGoesOn, Task, Answers
<1>3. CASE Verify(c)
  BY <1>1, <1>3 DEF Verify, TaskGoesOn, Task, Answers
<1>4. CASE UseSession(c)
  <2> DEFINE task == tasks[c]
  <2>1. /\ task.at = "use" /\ UNCHANGED <<programs, visits, leaving, issued>>
        /\ \/ /\ last_use' = [last_use EXCEPT ![task.token] = today]
              /\ tasks' = [tasks EXCEPT ![c] = [task EXCEPT !.at = "adopt",
                                                         !.user = owners[task.token]]]
           \/ /\ last_use' = last_use /\ tasks' = [tasks EXCEPT ![c] = [task EXCEPT !.at = "invalid"]]
    BY <1>1, <1>4 DEF UseSession
  <2>2. /\ tasks'[c].at \in {"adopt", "invalid"}
        /\ tasks'[c].token = task.token /\ tasks'[c].session = task.session
        /\ \A d \in Connections : d # c => tasks'[d] = tasks[d]
    <3>1. CASE tasks' = [tasks EXCEPT ![c] = [task EXCEPT !.at = "adopt", !.user = owners[task.token]]]
      <4>1. tasks'[c] = [task EXCEPT !.at = "adopt", !.user = owners[task.token]]
        BY <1>1, <3>1
      <4> QED
        BY <1>1, <3>1, <4>1 DEF Task
    <3>2. CASE tasks' = [tasks EXCEPT ![c] = [task EXCEPT !.at = "invalid"]]
      <4>1. tasks'[c] = [task EXCEPT !.at = "invalid"]
        BY <1>1, <3>2
      <4> QED
        BY <1>1, <3>2, <4>1 DEF Task
    <3> QED
      BY <2>1, <3>1, <3>2
  <2>3. TaskGoesOn(tasks[c], tasks'[c])
    BY <2>1, <2>2 DEF TaskGoesOn, Answers
  <2> QED
    BY <2>1, <2>2, <2>3
<1>5. CASE Adopt(c)
  BY <1>1, <1>5 DEF Adopt, TaskGoesOn, Task, Answers
<1>6. CASE SignOut(c)
  BY <1>1, <1>6 DEF SignOut, TaskGoesOn, Task, Answers
<1>7. CASE DeleteSession(c)
  BY <1>1, <1>7 DEF DeleteSession, Revoked, TaskGoesOn, Task, Answers
<1>8. CASE SpendTicket(c)
  BY <1>1, <1>8 DEF SpendTicket, TaskGoesOn, Task, Answers
<1>9. CASE LinkKey(c)
  BY <1>1, <1>9 DEF LinkKey, TaskGoesOn, Task, Answers
<1>10. CASE ListGames(c)
  BY <1>1, <1>10 DEF ListGames, TaskGoesOn, Task, Answers
<1>11. CASE DatabaseFails(c)
  BY <1>1, <1>11, AccountsAssumption DEF DatabaseFails, TaskGoesOn, Task, Answers
<1> QED
  BY <1>2, <1>3, <1>4, <1>5, <1>6, <1>7, <1>8, <1>9, <1>10, <1>11 DEF Command

LEMMA CommandKeepsTokens ==
    ASSUME AccountsInv, LiveInv, NEW c \in Connections, Command(c), ~StartSession(c)
    PROVE  TokensKept'
<1> DEFINE task == tasks[c]
           new == tasks'[c]
<1>1. /\ TaskGoesOn(task, new)
      /\ \A d \in Connections : d # c => tasks'[d] = tasks[d]
      /\ UNCHANGED <<programs, visits, leaving, issued>>
      /\ \/ last_use' = last_use
         \/ \E token : last_use' = [last_use EXCEPT ![token] = today]
         \/ task.at = "delete" /\ last_use' = [last_use EXCEPT ![task.token] = None]
  BY CommandGoesOn
<1>2. TokensKept /\ JobsKnown /\ last_use \in [Tokens -> Nat \cup {None}]
  BY DEF LiveInv, DatesAgree
<1>3. issued' \in Nat /\ issued <= issued' /\ today # None
  BY <1>1, TokensAreNumbers DEF AccountsInv, AccountsType
<1>4. ASSUME NEW p \in Programs
      PROVE  HeldBy(p)' \in {HeldBy(p), None}
  <2>1. CASE Signing(programs[p]) /\ programs[p].connection = c
    <3>1. task.at # "use"
      BY <1>2, <2>1 DEF JobsKnown, KnownJob, Signing
    <3>2. new.at \in {"adopt", "signed in"} => task.at = "adopt" /\ new.token = task.token
      BY <1>1, <3>1 DEF TaskGoesOn
    <3>3. HeldBy(p) = IF task.at \in {"adopt", "signed in"} THEN task.token ELSE None
      BY <2>1 DEF HeldBy, Held
    <3>4. HeldBy(p)' = IF new.at \in {"adopt", "signed in"} THEN new.token ELSE None
      BY <1>1, <2>1 DEF HeldBy, Held, Signing
    <3> QED
      BY <3>2, <3>3, <3>4
  <2>2. CASE ~(Signing(programs[p]) /\ programs[p].connection = c)
    <3>1. Signing(programs[p]) => programs[p].connection \in Connections \ {c}
      BY <2>2, HeldByOne DEF Signing
    <3> QED
      BY <1>1, <3>1, UntouchedIsHeld
  <2> QED
    BY <2>1, <2>2
<1>5. HoldsOn
  BY <1>1, <1>4 DEF HoldsOn
<1>6. VisitsOn
  BY <1>1 DEF VisitsOn
<1>7. Ending(new) \in {None, Ending(task)}
  BY <1>1 DEF Ending, TaskGoesOn
<1>8. EndsOn
  <2> SUFFICES ASSUME NEW d \in Connections
               PROVE  Ending(tasks[d])' \in {None, Ending(tasks[d])}
    BY DEF EndsOn
  <2>1. CASE d = c
    BY <1>7, <2>1 DEF Ending
  <2>2. CASE d # c
    BY <1>1, <2>2 DEF Ending
  <2> QED
    BY <2>1, <2>2
<1>9. RevokesOn
  <2> SUFFICES ASSUME NEW token \in Tokens, last_use[token] # None, last_use'[token] = None
               PROVE  Ending(task) = token
    BY DEF RevokesOn
  <2>1. task.at = "delete" /\ token = task.token
    BY <1>1, <1>2, <1>3
  <2> QED
    BY <2>1 DEF Ending
<1> QED
  BY <1>2, <1>3, <1>5, <1>6, <1>8, <1>9, LivesOn

\* The next token is one that nobody holds yet.
LEMMA NextTokenIsNobodys ==
    ASSUME AccountsInv, TokensKept
    PROVE  /\ NextToken # None /\ (issued < MaxTokens => NextToken \in Tokens)
           /\ \A p \in Programs : HeldBy(p) # NextToken
           /\ \A v \in Visitors : visits[v].token # NextToken
           /\ \A c \in Connections : Ending(tasks[c]) # NextToken
<1>1. issued \in Nat /\ NextToken = issued + 1 /\ NextToken # None
  BY TokensAreNumbers DEF AccountsInv, AccountsType, NextToken
<1>2. ~Given(NextToken, issued)
  BY <1>1 DEF Given
<1>3. \A p \in Programs : HeldBy(p) # NextToken
  BY <1>1, <1>2, HeldIsGiven
<1>4. \A v \in Visitors : visits[v].token # NextToken
  BY <1>1, <1>2 DEF AccountsInv, VisitsKnown, KnownVisit
<1>5. \A c \in Connections : Ending(tasks[c]) # NextToken
  BY <1>1, <1>2 DEF TokensKept, OwnSessionEnds
<1>6. issued < MaxTokens => NextToken \in Tokens
  <2>1. MaxTokens \in Nat
    BY AccountsAssumption
  <2>2. ASSUME NEW m \in Nat, NEW k \in Nat, k < m
        PROVE  k + 1 \in 1..m
    BY <2>2
  <2> QED
    BY <1>1, <2>1, <2>2 DEF Tokens
<1> QED
  BY <1>1, <1>3, <1>4, <1>5, <1>6

LEMMA StartSessionKeepsTokens ==
    ASSUME AccountsInv, LiveInv, NEW c \in Connections, StartSession(c)
    PROVE  TokensKept'
<1> DEFINE task == tasks[c]
           new == tasks'[c]
           n == NextToken
<1>1. /\ task.at = "start" /\ issued < MaxTokens /\ issued' = n
      /\ last_use' = [last_use EXCEPT ![n] = today]
      /\ tasks' = [tasks EXCEPT ![c].at = "adopt", ![c].token = n]
      /\ UNCHANGED <<programs, visits, leaving>>
  BY DEF StartSession, Calls, NewSession, gatewayVars
<1>2. /\ TokensKept /\ OneHolder /\ VisitorsHold /\ OwnSessionEnds /\ HeldIsLive
      /\ last_use \in [Tokens -> Nat \cup {None}]
  BY DEF LiveInv, DatesAgree, TokensKept
<1>3. tasks \in [Connections -> Task] /\ task \in Task
  BY DEF AccountsInv, AccountsType
<1>4. /\ new.at = "adopt" /\ new.token = n
      /\ \A d \in Connections : d # c => tasks'[d] = tasks[d]
  BY <1>1, <1>3 DEF Task
<1>5. /\ n # None /\ n \in Tokens
      /\ \A p \in Programs : HeldBy(p) # n
      /\ \A v \in Visitors : visits[v].token # n
      /\ \A d \in Connections : Ending(tasks[d]) # n
  BY <1>1, <1>2, NextTokenIsNobodys
<1>6. /\ issued \in Nat /\ issued' \in Nat /\ issued <= issued' /\ today # None
  BY <1>1, TokensAreNumbers DEF AccountsInv, AccountsType, NextToken
<1> HIDE DEF n
<1>7. ASSUME NEW p \in Programs
      PROVE  \/ HeldBy(p)' = HeldBy(p)
             \/ HeldBy(p)' = n /\ programs[p].job # None /\ programs[p].connection = c
  <2>1. CASE Signing(programs[p]) /\ programs[p].connection = c
    BY <1>1, <1>4, <2>1 DEF HeldBy, Held, Signing
  <2>2. CASE ~(Signing(programs[p]) /\ programs[p].connection = c)
    <3>1. Signing(programs[p]) => programs[p].connection \in Connections \ {c}
      BY <2>2, HeldByOne DEF Signing
    <3> QED
      BY <1>1, <1>4, <3>1, UntouchedIsHeld
  <2> QED
    BY <2>1, <2>2
<1>8. OneHolder'
  <2> SUFFICES ASSUME NEW p \in Programs, NEW q \in Programs, HeldBy(p)' # None,
                      HeldBy(p)' = HeldBy(q)'
               PROVE  p = q
    BY DEF OneHolder
  <2>1. CASE HeldBy(p)' = n
    <3>1. programs[p].job # None /\ programs[p].connection = c
      BY <1>5, <1>7, <2>1
    <3>2. programs[q].job # None /\ programs[q].connection = c
      BY <1>5, <1>7, <2>1
    <3> QED
      BY <3>1, <3>2, HeldByOne
  <2>2. CASE HeldBy(p)' # n
    BY <1>2, <1>7, <2>2 DEF OneHolder
  <2> QED
    BY <2>1, <2>2
<1>9. VisitorsHold'
  <2>1. ASSUME NEW p \in Programs, NEW v \in Visitors, HeldBy(p)' # None,
               visits[v].token = HeldBy(p)'
        PROVE  p = v /\ visits[v].at = "running"
    <3>1. HeldBy(p)' = HeldBy(p)
      BY <1>5, <1>7, <2>1
    <3>2. \A r \in Programs, w \in Visitors :
              HeldBy(r) # None /\ visits[w].token = HeldBy(r) => r = w /\ visits[w].at = "running"
      BY <1>2 DEF VisitorsHold
    <3> QED
      BY <2>1, <3>1, <3>2
  <2>2. \A v, w \in Visitors :
            visits[v].token # None /\ visits[v].token = visits[w].token => v = w
    BY <1>2 DEF VisitorsHold
  <2>3. \A v \in Visitors :
            visits[v].at \in {"away", "connected", "look up", "start"} => visits[v].token = None
    BY <1>2 DEF VisitorsHold
  <2>4. \A token \in leaving :
            \E v \in Visitors : visits[v].at = "left" /\ visits[v].token = token
    BY <1>2 DEF VisitorsHold
  <2> QED
    BY <1>1, <2>1, <2>2, <2>3, <2>4 DEF VisitorsHold
<1>10. ASSUME NEW d \in Connections
       PROVE  Ending(tasks[d])' \in {None, Ending(tasks[d])}
  BY <1>4 DEF Ending
<1>11. OwnSessionEnds'
  <2> SUFFICES ASSUME NEW d \in Connections, Ending(tasks[d])' # None
               PROVE  /\ Given(Ending(tasks[d])', issued')
                      /\ \A p \in Programs : HeldBy(p)' = Ending(tasks[d])' =>
                            LoggingOut(programs'[p]) /\ programs'[p].connection = d
    BY DEF OwnSessionEnds
  <2>1. Ending(tasks[d])' = Ending(tasks[d]) /\ Ending(tasks[d]) # None
    BY <1>10
  <2>2. /\ Given(Ending(tasks[d]), issued)
        /\ \A p \in Programs : HeldBy(p) = Ending(tasks[d]) =>
              LoggingOut(programs[p]) /\ programs[p].connection = d
    BY <1>2, <2>1 DEF OwnSessionEnds
  <2>3. Ending(tasks[d]) \in Nat
    <3>1. tasks[d] \in Task
      BY <1>3
    <3> QED
      BY <2>1, <3>1, TokensAreNumbers DEF Ending, Task
  <2>4. Given(Ending(tasks[d]), issued')
    BY <1>6, <2>2, <2>3 DEF Given
  <2>5. \A p \in Programs : HeldBy(p)' = Ending(tasks[d]) => HeldBy(p) = Ending(tasks[d])
    BY <1>5, <1>7
  <2> QED
    BY <1>1, <2>1, <2>2, <2>4, <2>5
<1>12. \A token \in Tokens : last_use[token] # None => last_use'[token] # None
  BY <1>1, <1>2, <1>6
<1>13. n \in Tokens /\ last_use'[n] # None
  BY <1>1, <1>2, <1>5, <1>6
<1>14. HeldIsLive'
  <2>1. ASSUME NEW p \in Programs, HeldBy(p)' # None, ~LoggingOut(programs[p])
        PROVE  last_use'[HeldBy(p)'] # None
    <3>1. CASE HeldBy(p)' = n
      BY <1>13, <3>1
    <3>2. CASE HeldBy(p)' = HeldBy(p)
      BY <1>2, <1>12, <2>1, <3>2, HeldIsGiven DEF HeldIsLive
    <3> QED
      BY <1>7, <3>1, <3>2
  <2>2. ASSUME NEW v \in Visitors, visits[v].at = "spawn", visits[v].token # None
        PROVE  /\ last_use'[visits[v].token] # None
               /\ \A d \in Connections : Ending(tasks[d])' # visits[v].token
    <3>1. visits[v].token \in Tokens
      BY <2>2 DEF AccountsInv, AccountsType, Visit
    <3> QED
      BY <1>2, <1>10, <1>12, <2>2, <3>1 DEF HeldIsLive
  <2> QED
    BY <1>1, <2>1, <2>2 DEF HeldIsLive
<1> QED
  BY <1>8, <1>9, <1>11, <1>14 DEF TokensKept

LEMMA StartVisitKeepsTokens ==
    ASSUME AccountsInv, LiveInv, NEW v \in Visitors, StartVisit(v)
    PROVE  TokensKept'
<1> DEFINE n == NextToken
<1>1. /\ visits[v].at = "start" /\ issued < MaxTokens /\ issued' = n
      /\ last_use' = [last_use EXCEPT ![n] = today]
      /\ visits' = [visits EXCEPT ![v] = [visits[v] EXCEPT !.at = "spawn", !.token = n,
                                                           !.made = @ \cup {n}]]
      /\ UNCHANGED <<programs, tasks, leaving>>
  BY DEF StartVisit, Visits, NewSession, Moves
<1>2. /\ TokensKept /\ OneHolder /\ VisitorsHold /\ OwnSessionEnds /\ HeldIsLive
      /\ last_use \in [Tokens -> Nat \cup {None}]
  BY DEF LiveInv, DatesAgree, TokensKept
<1>3. visits \in [Visitors -> Visit] /\ visits[v] \in Visit
  BY DEF AccountsInv, AccountsType
<1>4. /\ visits'[v].at = "spawn" /\ visits'[v].token = n
      /\ \A w \in Visitors : w # v => visits'[w] = visits[w]
  BY <1>1, <1>3 DEF Visit
<1>5. /\ n # None /\ n \in Tokens
      /\ \A p \in Programs : HeldBy(p) # n
      /\ \A w \in Visitors : visits[w].token # n
      /\ \A d \in Connections : Ending(tasks[d]) # n
  BY <1>1, <1>2, NextTokenIsNobodys
<1>6. /\ issued \in Nat /\ issued' \in Nat /\ issued <= issued' /\ today # None
  BY <1>1, TokensAreNumbers DEF AccountsInv, AccountsType, NextToken
<1> HIDE DEF n
<1>7. /\ \A p \in Programs : HeldBy(p)' = HeldBy(p)
      /\ \A d \in Connections : Ending(tasks[d])' = Ending(tasks[d])
  BY <1>1 DEF HeldBy, Held, Signing, Ending
<1>8. OneHolder'
  BY <1>2, <1>7 DEF OneHolder
<1>9. VisitorsHold'
  <2>1. ASSUME NEW p \in Programs, NEW w \in Visitors, HeldBy(p) # None,
               visits'[w].token = HeldBy(p)
        PROVE  p = w /\ visits'[w].at = "running"
    <3>1. w # v
      BY <1>4, <1>5, <2>1
    <3>2. visits'[w] = visits[w]
      BY <1>4, <3>1
    <3>3. \A r \in Programs, u \in Visitors :
              HeldBy(r) # None /\ visits[u].token = HeldBy(r) => r = u /\ visits[u].at = "running"
      BY <1>2 DEF VisitorsHold
    <3> QED
      BY <2>1, <3>2, <3>3
  <2>2. \A u, w \in Visitors :
            visits'[u].token # None /\ visits'[u].token = visits'[w].token => u = w
    <3>1. \A u, w \in Visitors :
              visits[u].token # None /\ visits[u].token = visits[w].token => u = w
      BY <1>2 DEF VisitorsHold
    <3> QED
      BY <1>4, <1>5, <3>1
  <2>3. \A w \in Visitors :
            visits'[w].at \in {"away", "connected", "look up", "start"} => visits'[w].token = None
    <3>1. \A w \in Visitors :
              visits[w].at \in {"away", "connected", "look up", "start"} => visits[w].token = None
      BY <1>2 DEF VisitorsHold
    <3> QED
      BY <1>4, <3>1
  <2>4. ASSUME NEW token \in leaving
        PROVE  \E w \in Visitors : visits'[w].at = "left" /\ visits'[w].token = token
    <3>1. PICK w \in Visitors : visits[w].at = "left" /\ visits[w].token = token
      BY <1>2, <2>4 DEF VisitorsHold
    <3>2. visits'[w] = visits[w]
      BY <1>1, <1>4, <3>1
    <3> QED
      BY <3>1, <3>2
  <2> QED
    <3>1. \A p \in Programs, w \in Visitors :
              HeldBy(p)' # None /\ visits'[w].token = HeldBy(p)' => p = w /\ visits'[w].at = "running"
      BY <1>7, <2>1
    <3>2. leaving' = leaving
      BY <1>1
    <3> QED
      BY <2>2, <2>3, <2>4, <3>1, <3>2 DEF VisitorsHold
<1>10. OwnSessionEnds'
  <2> SUFFICES ASSUME NEW d \in Connections, Ending(tasks[d]) # None
               PROVE  /\ Given(Ending(tasks[d]), issued')
                      /\ \A p \in Programs : HeldBy(p) = Ending(tasks[d]) =>
                            LoggingOut(programs[p]) /\ programs[p].connection = d
    BY <1>1, <1>7 DEF OwnSessionEnds
  <2>1. /\ Given(Ending(tasks[d]), issued)
        /\ \A p \in Programs : HeldBy(p) = Ending(tasks[d]) =>
              LoggingOut(programs[p]) /\ programs[p].connection = d
    BY <1>2 DEF OwnSessionEnds
  <2>2. Ending(tasks[d]) \in Nat
    <3>1. tasks[d] \in Task
      BY DEF AccountsInv, AccountsType
    <3> QED
      BY <3>1, TokensAreNumbers DEF Ending, Task
  <2> QED
    BY <1>6, <2>1, <2>2 DEF Given
<1>11. /\ \A token \in Tokens : last_use[token] # None => last_use'[token] # None
       /\ last_use'[n] # None
  BY <1>1, <1>2, <1>5, <1>6
<1>12. HeldIsLive'
  <2>1. ASSUME NEW p \in Programs, HeldBy(p) # None, ~LoggingOut(programs[p])
        PROVE  last_use'[HeldBy(p)] # None
    BY <1>2, <1>11, <2>1, HeldIsGiven DEF HeldIsLive
  <2>2. ASSUME NEW w \in Visitors, visits'[w].at = "spawn", visits'[w].token # None
        PROVE  /\ last_use'[visits'[w].token] # None
               /\ \A d \in Connections : Ending(tasks[d]) # visits'[w].token
    <3>1. CASE w = v
      BY <1>4, <1>5, <1>11, <3>1
    <3>2. CASE w # v
      <4>1. visits'[w] = visits[w] /\ visits[w].token \in Tokens \cup {None}
        BY <1>3, <1>4, <3>2 DEF Visit
      <4> QED
        BY <1>2, <1>11, <2>2, <4>1 DEF HeldIsLive
    <3> QED
      BY <3>1, <3>2
  <2> QED
    BY <1>1, <1>7, <2>1, <2>2 DEF HeldIsLive
<1> QED
  BY <1>8, <1>9, <1>10, <1>12 DEF TokensKept

\* A step of program p and of the task of connection c is none of the others'
\* business.
OnlyTouches(p, c) ==
    /\ \A q \in Programs \ {p} : programs[q].job # None => programs[q].connection # c
    /\ \A d \in Connections : d # c => tasks'[d] = tasks[d]
    /\ \A q \in Programs : q # p => programs'[q] = programs[q]

LEMMA OthersHoldOn ==
    ASSUME AccountsInv, NEW p, NEW c, OnlyTouches(p, c), NEW q \in Programs, q # p
    PROVE  programs'[q] = programs[q] /\ HeldBy(q)' = HeldBy(q)
<1>1. programs'[q] = programs[q]
  BY DEF OnlyTouches
<1>2. Signing(programs[q]) => tasks'[programs[q].connection] = tasks[programs[q].connection]
  BY HeldByOne DEF OnlyTouches, Signing
<1> QED
  BY <1>1, <1>2, UntouchedIsHeld

LEMMA OthersKnowTheirJob ==
    ASSUME AccountsInv, JobsKnown, NEW p, NEW c, OnlyTouches(p, c),
           p \in Programs => (programs'[p].job # None =>
               KnownJob(programs'[p], tasks'[programs'[p].connection]))
    PROVE  JobsKnown'
<1> SUFFICES ASSUME NEW q \in Programs, programs'[q].job # None
             PROVE  KnownJob(programs'[q], tasks'[programs'[q].connection])
  BY DEF JobsKnown, KnownJob, Signing
<1>1. CASE q = p
  BY <1>1
<1>2. CASE q # p
  <2>1. programs'[q] = programs[q] /\ programs[q].job # None
    BY <1>2 DEF OnlyTouches
  <2>2. tasks'[programs[q].connection] = tasks[programs[q].connection]
    BY <1>2, <2>1, HeldByOne DEF OnlyTouches
  <2>3. KnownJob(programs[q], tasks[programs[q].connection])
    BY <2>1 DEF JobsKnown
  <2> QED
    BY <2>1, <2>2, <2>3
<1> QED
  BY <1>1, <1>2

LEMMA ProgramStepKeepsTokens ==
    ASSUME AccountsInv, TokensKept, NEW p, NEW c, OnlyTouches(p, c),
           UNCHANGED <<issued, last_use, visits, leaving>>,
           p \in Programs =>
               \/ HeldBy(p)' = None
               \/ /\ HeldBy(p)' = HeldBy(p)
                  /\ LoggingOut(programs[p]) => /\ LoggingOut(programs'[p])
                                                /\ programs'[p].connection = programs[p].connection,
           c \in Connections =>
               \/ Ending(tasks[c])' \in {None, Ending(tasks[c])}
               \/ /\ p \in Programs /\ Ending(tasks[c])' = HeldBy(p) /\ HeldBy(p)' = HeldBy(p)
                  /\ LoggingOut(programs'[p]) /\ programs'[p].connection = c
    PROVE  TokensKept'
<1>1. HoldsOn
  <2> SUFFICES ASSUME NEW q \in Programs, q # p
               PROVE  HeldBy(q)' = HeldBy(q) /\ programs'[q] = programs[q]
    BY DEF HoldsOn
  <2> QED
    BY OthersHoldOn
<1>2. VisitsOn
  BY DEF VisitsOn
<1>3. \A d \in Connections : d # c => Ending(tasks[d])' = Ending(tasks[d])
  BY DEF OnlyTouches, Ending
<1>4. EndsOn
  <2> SUFFICES ASSUME NEW d \in Connections, d = c
               PROVE  LET token == Ending(tasks[d])'
                      IN  \/ token \in {None, Ending(tasks[d])}
                          \/ \E q \in Programs : /\ token = HeldBy(q) /\ HeldBy(q)' = HeldBy(q)
                                                 /\ LoggingOut(programs'[q])
                                                 /\ programs'[q].connection = d
    BY <1>3 DEF EndsOn
  <2> QED
    OBVIOUS
<1>5. RevokesOn
  BY DEF RevokesOn
<1>6. issued' \in Nat /\ issued <= issued'
  BY DEF AccountsInv, AccountsType
<1> QED
  BY <1>1, <1>2, <1>4, <1>5, <1>6, LivesOn

LEMMA EndSocketKeepsTokens ==
    ASSUME AccountsInv, LiveInv, NEW c \in Connections, EndSocket(c)
    PROVE  TokensKept' /\ JobsKnown'
<1>1. /\ tasks[c].by = None /\ tasks' = [tasks EXCEPT ![c] = Closed]
      /\ UNCHANGED <<programs, issued, last_use, visits, leaving>>
  BY DEF EndSocket, databaseVars, gatewayVars
<1>2. TokensKept /\ JobsKnown
  BY DEF LiveInv
<1>3. tasks \in [Connections -> Task] /\ None \notin Programs
  BY TokensAreNumbers DEF AccountsInv, AccountsType
<1>4. \A q \in Programs : programs[q].job # None => programs[q].connection # c
  BY <1>1, <1>3, HeldByOne
<1>5. OnlyTouches(None, c)
  BY <1>1, <1>3, <1>4 DEF OnlyTouches
<1>6. Ending(tasks[c])' = None
  BY <1>1, <1>3 DEF Ending, Closed
<1> QED
  BY <1>1, <1>2, <1>3, <1>5, <1>6, OthersKnowTheirJob, ProgramStepKeepsTokens

LEMMA CommandKeepsJobs ==
    ASSUME AccountsInv, JobsKnown, NEW c \in Connections, Command(c)
    PROVE  JobsKnown'
<1> DEFINE task == tasks[c]
           new == tasks'[c]
<1>1. CASE StartSession(c)
  <2>1. /\ task.at = "start" /\ programs' = programs
        /\ tasks' = [tasks EXCEPT ![c].at = "adopt", ![c].token = NextToken]
    BY <1>1 DEF StartSession, Calls
  <2>2. tasks \in [Connections -> Task] /\ task \in Task
    BY DEF AccountsInv, AccountsType
  <2>3. new.at = "adopt" /\ \A d \in Connections : d # c => tasks'[d] = tasks[d]
    BY <2>1, <2>2 DEF Task
  <2>4. ASSUME NEW p \in Programs, programs[p].job # None
        PROVE  KnownJob(programs[p], tasks'[programs[p].connection])
    <3>1. KnownJob(programs[p], tasks[programs[p].connection])
      BY <2>4 DEF JobsKnown
    <3>2. CASE programs[p].connection = c
      BY <2>1, <2>3, <3>1, <3>2 DEF KnownJob, Answers
    <3>3. CASE programs[p].connection # c
      BY <2>3, <2>4, <3>1, <3>3, HeldByOne
    <3> QED
      BY <3>2, <3>3
  <2> QED
    BY <2>1, <2>4 DEF JobsKnown, KnownJob, Signing
<1>2. CASE ~StartSession(c)
  <2>1. /\ TaskGoesOn(task, new) /\ programs' = programs
        /\ \A d \in Connections : d # c => tasks'[d] = tasks[d]
    BY <1>2, CommandGoesOn
  <2>2. ASSUME NEW p \in Programs, programs[p].job # None
        PROVE  KnownJob(programs[p], tasks'[programs[p].connection])
    <3>1. KnownJob(programs[p], tasks[programs[p].connection])
      BY <2>2 DEF JobsKnown
    <3>2. CASE programs[p].connection = c
      <4>1. KnownJob(programs[p], task)
        BY <3>1, <3>2
      <4>2. KnownJob(programs[p], new)
        BY <2>1, <4>1 DEF KnownJob, TaskGoesOn, Answers
      <4> QED
        BY <3>2, <4>2
    <3>3. CASE programs[p].connection # c
      BY <2>1, <2>2, <3>1, <3>3, HeldByOne
    <3> QED
      BY <3>2, <3>3
  <2> QED
    BY <2>1, <2>2 DEF JobsKnown, KnownJob, Signing
<1> QED
  BY <1>1, <1>2

LEMMA BeginKeepsTokens ==
    ASSUME AccountsInv, LiveInv, NEW p \in Programs, Begin(p)
    PROVE  TokensKept' /\ JobsKnown'
<1>c. PICK c \in Connections : c = dialled + 1
  BY DEF Begin
<1>1. PICK job \in Jobs(p), user \in Users :
         /\ programs' = [programs EXCEPT ![p] =
                [programs[p] EXCEPT !.job = job, !.connection = c, !.told = None]]
         /\ tasks' = [tasks EXCEPT ![c] =
                [Closed EXCEPT !.at = FirstCall[job], !.by = p, !.user = user,
                               !.token = programs[p].saved]]
  BY <1>c DEF Begin
<1>2. /\ programs[p].job = None /\ c \in Connections
      /\ UNCHANGED <<issued, last_use, visits, leaving>>
  BY DEF Begin, databaseVars, gatewayVars
<1>3. /\ programs \in [Programs -> ProgramState] /\ programs[p] \in ProgramState
      /\ tasks \in [Connections -> Task] /\ dialled \in Nat
  BY DEF AccountsInv, AccountsType
<1>4. \/ job \in {"log in", "register"} /\ programs[p].saved = None
      \/ job \in {"games", "sign out"}
  BY DEF Jobs
<1>5. FirstCall[job] = IF job \in {"games", "sign out"} THEN "use"
                       ELSE IF job = "log in" THEN "verify" ELSE "create"
  BY <1>4 DEF FirstCall
<1>6. /\ programs'[p].saved = programs[p].saved /\ programs'[p].job = job
      /\ programs'[p].connection = c
      /\ \A q \in Programs : q # p => programs'[q] = programs[q]
  BY <1>1, <1>3 DEF ProgramState
<1>7. /\ tasks'[c].at = FirstCall[job] /\ tasks'[c].session = None
      /\ tasks'[c].token = programs[p].saved
      /\ \A d \in Connections : d # c => tasks'[d] = tasks[d]
  BY <1>1, <1>2, <1>3 DEF Closed
<1>8. \A q \in Programs \ {p} : programs[q].job # None => programs[q].connection # c
  <2> SUFFICES ASSUME NEW q \in Programs \ {p}, programs[q].job # None
               PROVE  programs[q].connection # c
    OBVIOUS
  <2>1. programs[q].connection \in Connections /\ programs[q].connection <= dialled
    BY HeldByOne
  <2> QED
    BY <1>3, <1>c, <2>1, TokensAreNumbers
<1>9. OnlyTouches(p, c)
  BY <1>6, <1>7, <1>8 DEF OnlyTouches
<1>10. KnownJob(programs'[p], tasks'[c])
  BY <1>4, <1>5, <1>6, <1>7 DEF KnownJob, Signing
<1>11. HeldBy(p) = programs[p].saved /\ ~LoggingOut(programs[p])
  BY <1>2 DEF HeldBy, Held, Signing, LoggingOut
<1>12. HeldBy(p)' \in {None, programs[p].saved}
  BY <1>4, <1>5, <1>6, <1>7 DEF HeldBy, Held, Signing
<1>13. Ending(tasks[c])' = None
  BY <1>4, <1>5, <1>7 DEF Ending
<1>14. JobsKnown'
  BY <1>6, <1>9, <1>10, OthersKnowTheirJob DEF LiveInv
<1>15. TokensKept'
  BY <1>2, <1>9, <1>11, <1>12, <1>13, ProgramStepKeepsTokens DEF LiveInv
<1> QED
  BY <1>14, <1>15

\* What an answer, or its loss, makes of a program and of its task.
LEMMA AnswerKeepsTokens ==
    ASSUME AccountsInv, LiveInv, NEW p \in Programs, programs[p].job # None,
           NEW c, c = programs[p].connection,
           NEW after \in ProgramState, programs' = [programs EXCEPT ![p] = after],
           NEW new, tasks' = [tasks EXCEPT ![c] = new],
           ~Signing(after),
           \/ after.saved = HeldBy(p) /\ ~LoggingOut(programs[p])
           \/ after.saved = None,
           after.job # None => after.connection = c /\ after.job # "sign out",
           \/ Ending(new) \in {None, Ending(tasks[c])}
           \/ Ending(new) = HeldBy(p) /\ after.saved = HeldBy(p) /\ LoggingOut(after),
           UNCHANGED <<issued, last_use, visits, leaving>>
    PROVE  TokensKept' /\ JobsKnown'
<1>1. /\ programs \in [Programs -> ProgramState] /\ tasks \in [Connections -> Task]
      /\ c \in Connections
      /\ \A q \in Programs \ {p} : programs[q].job # None => programs[q].connection # c
  BY HeldByOne DEF AccountsInv, AccountsType
<1>2. /\ programs'[p] = after /\ tasks'[c] = new
      /\ \A d \in Connections : d # c => tasks'[d] = tasks[d]
      /\ \A q \in Programs : q # p => programs'[q] = programs[q]
  BY <1>1
<1>3. OnlyTouches(p, c)
  BY <1>1, <1>2 DEF OnlyTouches
<1>4. HeldBy(p)' = after.saved
  BY <1>2 DEF HeldBy, Held, Signing
<1>5. programs'[p].job # None => KnownJob(programs'[p], tasks'[programs'[p].connection])
  <2>1. after.job # None => KnownJob(after, new)
    BY DEF KnownJob
  <2> QED
    BY <1>2, <2>1
<1>6. JobsKnown'
  BY <1>3, <1>5, OthersKnowTheirJob DEF LiveInv
<1>7. Ending(tasks[c])' = Ending(new)
  BY <1>2 DEF Ending
<1>8. LoggingOut(after) => after.connection = c
  BY DEF LoggingOut
<1>9. TokensKept'
  BY <1>2, <1>3, <1>4, <1>7, <1>8, ProgramStepKeepsTokens DEF LiveInv
<1> QED
  BY <1>6, <1>9

LEMMA LoseConnectionKeepsTokens ==
    ASSUME AccountsInv, LiveInv, NEW p \in Programs, LoseConnection(p)
    PROVE  TokensKept' /\ JobsKnown'
<1> DEFINE current == programs[p]
           c == current.connection
           after == AfterFailure(current)
<1>1. current.job # None
  BY DEF LoseConnection
<1>2. PICK at \in {tasks[c].at, "idle"} :
         tasks' = [tasks EXCEPT ![c] = [tasks[c] EXCEPT !.at = at, !.by = None]]
  BY DEF LoseConnection
<1>3. /\ current \in ProgramState /\ KnownJob(current, tasks[c])
      /\ tasks[c] \in Task
  BY <1>1, HeldByOne DEF LiveInv, JobsKnown, AccountsInv, AccountsType
<1>4. /\ after \in ProgramState /\ after.job = None
      /\ \/ after.saved = None
         \/ after.saved = current.saved /\ current.job # "log out"
  BY <1>3 DEF AfterFailure, Forgotten, Finished, ProgramState, Told
<1>5. /\ programs' = [programs EXCEPT ![p] = after]
      /\ UNCHANGED <<issued, last_use, visits, leaving>>
  BY DEF LoseConnection, databaseVars, gatewayVars
<1>6. Signing(current) => current.saved = None
  BY <1>3 DEF KnownJob
<1>7. ~Signing(current) => HeldBy(p) = current.saved
  BY DEF HeldBy, Held
<1> DEFINE new == [tasks[c] EXCEPT !.at = at, !.by = None]
<1>8. new.at = at /\ new.session = tasks[c].session /\ new.token = tasks[c].token
  BY <1>3 DEF Task
<1>9. tasks' = [tasks EXCEPT ![c] = new]
  BY <1>2
<1> HIDE DEF new, after
<1>10. Ending(new) \in {None, Ending(tasks[c])}
  BY <1>2, <1>8 DEF Ending
<1>11. ~Signing(after)
  BY <1>4 DEF Signing
<1>12. \/ after.saved = HeldBy(p) /\ ~LoggingOut(current)
       \/ after.saved = None
  BY <1>4, <1>6, <1>7 DEF LoggingOut
<1> QED
  BY <1>1, <1>4, <1>5, <1>9, <1>10, <1>11, <1>12, AnswerKeepsTokens

LEMMA EndsKeepsTokens ==
    ASSUME AccountsInv, LiveInv, NEW p \in Programs, programs[p].job # None,
           NEW after \in ProgramState, Ends(p, after), after.job = None,
           \/ after.saved = HeldBy(p) /\ ~LoggingOut(programs[p])
           \/ after.saved = None,
           UNCHANGED <<issued, last_use, visits, leaving>>
    PROVE  TokensKept' /\ JobsKnown'
<1> DEFINE c == programs[p].connection
<1>1. PICK new : new = [tasks[c] EXCEPT !.by = None]
  OBVIOUS
<1>2. tasks' = [tasks EXCEPT ![c] = new] /\ programs' = [programs EXCEPT ![p] = after]
  BY <1>1 DEF Ends
<1>3. Ending(new) = Ending(tasks[c])
  <2>1. tasks[c] \in Task
    BY HeldByOne
  <2> QED
    BY <1>1, <2>1 DEF Ending, Task
<1>4. ~Signing(after)
  BY DEF Signing
<1> QED
  BY <1>2, <1>3, <1>4, AnswerKeepsTokens

LEMMA AsksKeepsTokens ==
    ASSUME AccountsInv, LiveInv, NEW p \in Programs, programs[p].job # None,
           NEW current \in ProgramState, current.connection = programs[p].connection,
           NEW job \in {"link", "list", "log out"}, NEW at \in {"ticket", "list", "sign out"},
           NEW token, Asks(p, current, job, at, token),
           current.saved = HeldBy(p), ~LoggingOut(programs[p]),
           at = "sign out" =>
               /\ job = "log out" /\ job # None
               /\ tasks[programs[p].connection].session \in {None, HeldBy(p)},
           UNCHANGED <<issued, last_use, visits, leaving>>
    PROVE  TokensKept' /\ JobsKnown'
<1> DEFINE c == programs[p].connection
<1>1. PICK new : new = [tasks[c] EXCEPT !.at = at, !.token = token]
  OBVIOUS
<1>2. PICK after : after = [current EXCEPT !.job = job]
  OBVIOUS
<1>3. c \in Connections /\ tasks[c] \in Task
  BY HeldByOne
<1>4. new.at = at /\ new.token = token /\ new.session = tasks[c].session
  BY <1>1, <1>3 DEF Task
<1>5. /\ after \in ProgramState /\ after.saved = HeldBy(p) /\ after.connection = c
      /\ after.job = job
  BY <1>2 DEF ProgramState, AllJobs
<1>6. tasks' = [tasks EXCEPT ![c] = new] /\ programs' = [programs EXCEPT ![p] = after]
  BY <1>1, <1>2, <1>3 DEF Asks, AccountsInv, AccountsType, Task
<1>7. ~Signing(after) /\ after.job # "sign out"
  BY <1>5 DEF Signing
<1>8. \/ Ending(new) \in {None, Ending(tasks[c])}
      \/ Ending(new) = HeldBy(p) /\ after.saved = HeldBy(p) /\ LoggingOut(after)
  BY <1>4, <1>5 DEF Ending, LoggingOut
<1> QED
  BY <1>5, <1>6, <1>7, <1>8, AnswerKeepsTokens

LEMMA ReceiveKeepsTokens ==
    ASSUME AccountsInv, LiveInv, NEW p \in Programs, Receive(p)
    PROVE  TokensKept' /\ JobsKnown'
<1> DEFINE current == programs[p]
           task == tasks[current.connection]
<1>1. /\ current.job # None /\ task.at \in Answers
      /\ UNCHANGED <<issued, last_use, visits, leaving>>
  BY DEF Receive, databaseVars, gatewayVars
<1>2. current \in ProgramState /\ task \in Task /\ KnownJob(current, task)
  BY <1>1, HeldByOne DEF LiveInv, JobsKnown, AccountsInv, AccountsType
<1>3. ASSUME NEW words \in {"signed out", "signed out here"}
      PROVE  /\ Forgotten(current, words) \in ProgramState
             /\ Forgotten(current, words).saved = None /\ Forgotten(current, words).job = None
  BY <1>2 DEF Forgotten, Finished, ProgramState, Told
<1>4. /\ Finished(current) \in ProgramState /\ Finished(current).saved = current.saved
      /\ Finished(current).job = None
  BY <1>2 DEF Finished, ProgramState
<1>5. /\ ~Signing(current) => HeldBy(p) = current.saved
      /\ Signing(current) => /\ current.saved = None /\ ~LoggingOut(current)
                             /\ task.at = "signed in" => HeldBy(p) = task.token
  BY <1>2 DEF HeldBy, Held, KnownJob, Signing, LoggingOut
<1>6. CASE Signing(current) /\ ReceiveSignIn(p, current, task)
  <2> DEFINE remembered == [current EXCEPT !.saved = task.token]
             spent == [remembered EXCEPT !.ticket = None]
  <2>1. CASE task.at # "signed in"
    <3>1. Ends(p, Finished(current))
      BY <1>6, <2>1 DEF ReceiveSignIn
    <3> QED
      BY <1>1, <1>4, <1>5, <1>6, <3>1, EndsKeepsTokens
  <2>2. CASE task.at = "signed in"
    <3>1. HeldBy(p) = task.token /\ ~LoggingOut(current)
      BY <1>5, <1>6, <2>2
    <3>2. /\ Finished(remembered) \in ProgramState /\ Finished(remembered).job = None
          /\ Finished(remembered).saved = task.token
      BY <1>2 DEF Finished, ProgramState, Task
    <3>3. /\ spent \in ProgramState /\ spent.saved = task.token
          /\ spent.connection = current.connection
      BY <1>2 DEF ProgramState, Task
    <3>4. \/ Ends(p, Finished(remembered))
          \/ Asks(p, spent, "link", "ticket", current.ticket)
      BY <1>6, <2>2 DEF ReceiveSignIn
    <3> HIDE DEF remembered, spent
    <3>5. CASE Ends(p, Finished(remembered))
      BY <1>1, <3>1, <3>2, <3>5, EndsKeepsTokens
    <3>6. CASE Asks(p, spent, "link", "ticket", current.ticket)
      BY <1>1, <3>1, <3>3, <3>6, AsksKeepsTokens
    <3> QED
      BY <3>4, <3>5, <3>6
  <2> QED
    BY <2>1, <2>2
<1>7. CASE ~Signing(current) /\ ~LoggingOut(current) /\ ReceiveGames(p, current, task)
  <2> DEFINE unsaved == [Finished(current) EXCEPT !.saved = None]
  <2>1. unsaved \in ProgramState /\ unsaved.saved = None /\ unsaved.job = None
    BY <1>4 DEF ProgramState
  <2>2. \/ Asks(p, current, "list", "list", None)
        \/ Ends(p, unsaved) \/ Ends(p, Finished(current))
    BY <1>7 DEF ReceiveGames
  <2> HIDE DEF unsaved
  <2>3. CASE Asks(p, current, "list", "list", None)
    BY <1>1, <1>2, <1>5, <1>7, <2>3, AsksKeepsTokens
  <2>4. CASE Ends(p, unsaved)
    BY <1>1, <2>1, <2>4, EndsKeepsTokens
  <2>5. CASE Ends(p, Finished(current))
    BY <1>1, <1>4, <1>5, <1>7, <2>5, EndsKeepsTokens
  <2> QED
    BY <2>2, <2>3, <2>4, <2>5
<1>8. CASE current.job = "sign out" /\ ReceiveSignOut(p, current)
  <2>1. ~Signing(current) /\ ~LoggingOut(current) /\ HeldBy(p) = current.saved
    BY <1>5, <1>8 DEF Signing, LoggingOut
  <2>2. task.session \in {None, current.saved}
    BY <1>1, <1>2, <1>8 DEF KnownJob
  <2>3. None # "log out"
    BY AccountsAssumption DEF AllJobs
  <2> QED
    BY <1>1, <1>2, <1>8, <2>1, <2>2, <2>3, AsksKeepsTokens DEF ReceiveSignOut
<1>9. CASE Ends(p, Forgotten(current, "signed out"))
  BY <1>1, <1>3, <1>9, EndsKeepsTokens
<1>10. CASE ~Signing(current) /\ ~LoggingOut(current) /\ Ends(p, Finished(current))
  BY <1>1, <1>4, <1>5, <1>10, EndsKeepsTokens
<1> QED
  BY <1>1, <1>6, <1>7, <1>8, <1>9, <1>10 DEF Receive, Signing, LoggingOut

LEMMA QuietStepsKeepTokens ==
    ASSUME AccountsInv, TokensKept, JobsKnown, UNCHANGED <<tasks, programs>>,
           issued' \in Nat, issued <= issued', VisitsOn, RevokesOn
    PROVE  TokensKept' /\ JobsKnown'
<1>1. /\ \A p \in Programs : HeldBy(p)' = HeldBy(p)
      /\ \A c \in Connections : Ending(tasks[c])' = Ending(tasks[c])
  BY DEF HeldBy, Held, Signing, Ending
<1>2. HoldsOn /\ EndsOn
  BY <1>1 DEF HoldsOn, EndsOn, LoggingOut
<1>3. JobsKnown'
  BY DEF JobsKnown, KnownJob, Signing
<1> QED
  BY <1>2, <1>3, LivesOn

\* A visitor who has no session yet, and gets none.
LEMMA GuestsKeepTokens ==
    ASSUME AccountsInv, LiveInv, NEW v \in Visitors,
           Arrive(v) \/ Shell(v) \/ LookUpKey(v) \/ VisitFails(v)
    PROVE  TokensKept' /\ JobsKnown'
<1>1. /\ visits \in [Visitors -> Visit] /\ visits[v] \in Visit /\ issued \in Nat
      /\ TokensKept /\ JobsKnown
  BY DEF LiveInv, AccountsInv, AccountsType
<1>2. UNCHANGED <<tasks, programs, leaving, last_use>>
  BY DEF Arrive, Shell, LookUpKey, VisitFails, Visits, databaseVars, serverVars
<1>3. issued' \in {issued, issued + 1}
  BY DEF Arrive, Shell, LookUpKey, VisitFails, Visits, databaseVars, serverVars, NextToken
<1>4. visits[v].at \in {"away", "connected", "look up", "start"}
  <2>1. CASE VisitFails(v)
    <3>1. visits[v].at \in FailingCalls
      BY <2>1 DEF VisitFails
    <3>2. FailingCalls \subseteq {"create", "verify", "start", "use", "delete", "link",
                                  "look up", "revoke"}
      BY AccountsAssumption
    <3> QED
      BY <1>1, <3>1, <3>2 DEF Visit
  <2> QED
    BY <2>1 DEF Arrive, Shell, LookUpKey, Visits
<1>5. visits[v].token = None
  BY <1>1, <1>4 DEF TokensKept, VisitorsHold
<1>6. PICK new : visits' = [visits EXCEPT ![v] = new]
  BY DEF Arrive, Shell, LookUpKey, VisitFails, Moves
<1>7. visits'[v].token = None /\ \A w \in Visitors : w # v => visits'[w] = visits[w]
  <2>1. visits'[v] = new /\ \A w \in Visitors : w # v => visits'[w] = visits[w]
    BY <1>1, <1>6
  <2>2. visits'[v].token = None
    <3>1. CASE Arrive(v)
      BY <1>1, <3>1 DEF Arrive, Moves, Away
    <3>2. CASE Shell(v)
      BY <1>1, <1>5, <3>2 DEF Shell, Moves, Visit
    <3>3. CASE LookUpKey(v)
      <4>1. PICK user : user = linked[visits[v].key]
        OBVIOUS
      <4>2. PICK ticket : ticket = NextToken
        OBVIOUS
      <4>3. \/ visits' = [visits EXCEPT ![v] = [visits[v] EXCEPT !.at = "start", !.user = user]]
            \/ visits' = [visits EXCEPT ![v] = [visits[v] EXCEPT !.at = "spawn", !.ticket = ticket]]
        BY <3>3, <4>1, <4>2 DEF LookUpKey, Moves
      <4>4. CASE visits' = [visits EXCEPT ![v] = [visits[v] EXCEPT !.at = "start", !.user = user]]
        BY <1>1, <1>5, <4>4 DEF Visit
      <4>5. CASE visits' = [visits EXCEPT ![v] = [visits[v] EXCEPT !.at = "spawn", !.ticket = ticket]]
        BY <1>1, <1>5, <4>5 DEF Visit
      <4> QED
        BY <4>3, <4>4, <4>5
    <3>4. CASE VisitFails(v)
      BY <1>1, <1>5, <3>4 DEF VisitFails, Visit
    <3> QED
      BY <3>1, <3>2, <3>3, <3>4
  <2> QED
    BY <2>1, <2>2
<1>8. VisitsOn
  BY <1>2, <1>4, <1>7 DEF VisitsOn
<1>9. RevokesOn
  BY <1>2 DEF RevokesOn
<1>10. issued' \in Nat /\ issued <= issued'
  BY <1>1, <1>3
<1> QED
  BY <1>1, <1>2, <1>8, <1>9, <1>10, QuietStepsKeepTokens

LEMMA SpawnKeepsTokens ==
    ASSUME AccountsInv, LiveInv, NEW v \in Visitors, Spawn(v)
    PROVE  TokensKept' /\ JobsKnown'
<1> DEFINE visit == visits[v]
<1>1. /\ visits \in [Visitors -> Visit] /\ visit \in Visit /\ issued \in Nat
      /\ programs \in [Programs -> ProgramState] /\ v \in Programs
      /\ TokensKept /\ JobsKnown
  BY VisitorsArePrograms DEF LiveInv, AccountsInv, AccountsType
<1>2. visit.at = "spawn" /\ UNCHANGED <<tasks, issued, leaving, last_use>>
  BY DEF Spawn, Visits
<1>3. RevokesOn /\ issued' \in Nat /\ issued <= issued'
  BY <1>1, <1>2 DEF RevokesOn
<1>4. CASE /\ visits' = [visits EXCEPT ![v] = [visit EXCEPT !.at = "running"]]
           /\ programs' = [programs EXCEPT ![v] = Program(visit.token, visit.ticket)]
  <2>1. /\ visits'[v].at = "running" /\ visits'[v].token = visit.token
        /\ \A w \in Visitors : w # v => visits'[w] = visits[w]
    BY <1>1, <1>4 DEF Visit
  <2>2. /\ programs'[v].job = None /\ programs'[v].saved = visit.token
        /\ \A q \in Programs : q # v => programs'[q] = programs[q]
    BY <1>1, <1>4 DEF Program
  <2>3. \A q \in Programs : programs[q].job # None => programs[q].connection # 0
    BY HeldByOne, TokensAreNumbers
  <2>4. OnlyTouches(v, 0)
    BY <1>2, <2>2, <2>3 DEF OnlyTouches
  <2>5. JobsKnown'
    BY <1>1, <2>2, <2>4, OthersKnowTheirJob
  <2>6. HeldBy(v)' = visit.token
    BY <2>2 DEF HeldBy, Held, Signing
  <2>7. HoldsOn
    <3>1. StartsWith(v)
      BY <1>2, <2>1, <2>6 DEF StartsWith
    <3>2. \A q \in Programs : q # v => programs'[q] = programs[q] /\ HeldBy(q)' = HeldBy(q)
      BY <2>4, OthersHoldOn
    <3> QED
      BY <3>1, <3>2 DEF HoldsOn, LoggingOut
  <2>8. VisitsOn
    BY <1>2, <2>1 DEF VisitsOn
  <2>9. EndsOn
    BY <1>2 DEF EndsOn, Ending
  <2> QED
    BY <1>1, <1>3, <2>5, <2>7, <2>8, <2>9, LivesOn
<1>5. CASE /\ visits' = [visits EXCEPT ![v] = [Away EXCEPT !.at = "connected", !.key = visit.key,
                                                            !.made = visit.made]]
           /\ programs' = programs
  <2>1. visits'[v].token = None /\ \A w \in Visitors : w # v => visits'[w] = visits[w]
    BY <1>1, <1>5 DEF Away
  <2>2. VisitsOn
    BY <1>2, <2>1 DEF VisitsOn
  <2> QED
    BY <1>1, <1>2, <1>3, <1>5, <2>2, QuietStepsKeepTokens
<1> QED
  BY <1>4, <1>5 DEF Spawn, Moves

LEMMA LeaveKeepsTokens ==
    ASSUME AccountsInv, LiveInv, NEW v \in Visitors, Leave(v)
    PROVE  TokensKept' /\ JobsKnown'
<1> DEFINE visit == visits[v]
           current == programs[v]
<1>1. /\ visits \in [Visitors -> Visit] /\ visit \in Visit /\ issued \in Nat
      /\ programs \in [Programs -> ProgramState] /\ v \in Programs
      /\ tasks \in [Connections -> Task] /\ TokensKept /\ JobsKnown
  BY VisitorsArePrograms DEF LiveInv, AccountsInv, AccountsType
<1>2. /\ visit.at \in {"connected", "running"}
      /\ visits' = [visits EXCEPT ![v] = [visit EXCEPT !.at = "left"]]
      /\ programs' = [programs EXCEPT ![v] = Program(None, None)]
      /\ tasks' = IF current.job = None THEN tasks
                  ELSE [tasks EXCEPT ![current.connection].by = None]
      /\ leaving' = leaving \cup ({visit.token} \ {None})
      /\ UNCHANGED <<issued, last_use>>
  BY DEF Leave, Moves, databaseVars
<1>3. /\ visits'[v].at = "left" /\ visits'[v].token = visit.token
      /\ \A w \in Visitors : w # v => visits'[w] = visits[w]
  BY <1>1, <1>2 DEF Visit
<1>4. /\ programs'[v].job = None /\ programs'[v].saved = None
      /\ \A q \in Programs : q # v => programs'[q] = programs[q]
  BY <1>1, <1>2 DEF Program
<1>5. PICK c : c = IF current.job = None THEN 0 ELSE current.connection
  OBVIOUS
<1>6. OnlyTouches(v, c)
  <2>1. CASE current.job = None
    <3>1. \A q \in Programs : programs[q].job # None => programs[q].connection # 0
      BY HeldByOne, TokensAreNumbers
    <3> QED
      BY <1>2, <1>4, <1>5, <2>1, <3>1 DEF OnlyTouches
  <2>2. CASE current.job # None
    <3>1. \A q \in Programs \ {v} : programs[q].job # None => programs[q].connection # c
      BY <1>1, <1>5, <2>2, HeldByOne
    <3>2. \A d \in Connections : d # c => tasks'[d] = tasks[d]
      BY <1>1, <1>2, <1>5, <2>2
    <3> QED
      BY <1>4, <3>1, <3>2 DEF OnlyTouches
  <2> QED
    BY <2>1, <2>2
<1>7. JobsKnown'
  BY <1>1, <1>4, <1>6, OthersKnowTheirJob
<1>8. HeldBy(v)' = None
  BY <1>4 DEF HeldBy, Held, Signing
<1>9. HoldsOn
  <2>1. \A q \in Programs : q # v => programs'[q] = programs[q] /\ HeldBy(q)' = HeldBy(q)
    BY <1>6, OthersHoldOn
  <2> QED
    BY <1>8, <2>1 DEF HoldsOn, LoggingOut
<1>10. VisitsOn
  BY <1>2, <1>3, <1>8 DEF VisitsOn
<1>11. EndsOn
  <2>1. ASSUME NEW d \in Connections
        PROVE  Ending(tasks[d])' = Ending(tasks[d])
    <3>1. tasks[d] \in Task
      BY <1>1
    <3>2. /\ tasks'[d].at = tasks[d].at /\ tasks'[d].session = tasks[d].session
          /\ tasks'[d].token = tasks[d].token
      BY <1>1, <1>2, <3>1 DEF Task
    <3> QED
      BY <3>2 DEF Ending
  <2> QED
    BY <2>1 DEF EndsOn
<1>12. RevokesOn /\ issued' \in Nat /\ issued <= issued'
  BY <1>1, <1>2 DEF RevokesOn
<1> QED
  BY <1>1, <1>7, <1>9, <1>10, <1>11, <1>12, LivesOn

LEMMA NextKeepsLive ==
    ASSUME AccountsInv, LiveInv, [AccountsNext]_accountVars
    PROVE  LiveInv'
<1> USE DEF databaseVars, serverVars, gatewayVars
<1>1. DatesAgree'
  BY DatesStayAgreed DEF LiveInv
<1>2. TokensKept /\ JobsKnown
  BY DEF LiveInv
<1> SUFFICES TokensKept' /\ JobsKnown'
  BY <1>1 DEF LiveInv
<1>3. ASSUME UNCHANGED <<tasks, programs, issued, visits>>, leaving' \subseteq leaving, RevokesOn
      PROVE  TokensKept' /\ JobsKnown'
  <2>1. VisitsOn
    BY <1>3 DEF VisitsOn
  <2>2. issued' \in Nat /\ issued <= issued'
    BY <1>3 DEF AccountsInv, AccountsType
  <2> QED
    BY <1>2, <1>3, <2>1, <2>2, QuietStepsKeepTokens
<1>4. CASE \E c \in Connections : Command(c)
  BY <1>2, <1>4, StartSessionKeepsTokens, CommandKeepsTokens, CommandKeepsJobs
<1>5. CASE \E c \in Connections : EndSocket(c)
  BY <1>5, EndSocketKeepsTokens
<1>6. CASE \E p \in Programs : Begin(p) \/ LoseConnection(p) \/ Receive(p)
  BY <1>6, BeginKeepsTokens, LoseConnectionKeepsTokens, ReceiveKeepsTokens
<1>7. CASE \E v \in Visitors : StartVisit(v)
  <2>1. UNCHANGED <<tasks, programs>>
    BY <1>7 DEF StartVisit, Visits
  <2>2. JobsKnown'
    BY <1>2, <2>1 DEF JobsKnown, KnownJob, Signing
  <2> QED
    BY <1>7, <2>2, StartVisitKeepsTokens
<1>8. CASE \E v \in Visitors : Arrive(v) \/ Shell(v) \/ LookUpKey(v) \/ VisitFails(v)
  BY <1>8, GuestsKeepTokens
<1>9. CASE \E v \in Visitors : Spawn(v) \/ Leave(v)
  BY <1>9, SpawnKeepsTokens, LeaveKeepsTokens
<1>10. CASE Revoke
  <2>1. PICK token \in leaving :
           /\ leaving' = leaving \ {token}
           /\ last_use' = [last_use EXCEPT ![token] = None] \/ last_use' = last_use
    BY <1>10 DEF Revoke, Revoked
  <2>2. RevokesOn
    BY <1>2, <2>1 DEF RevokesOn, LiveInv, DatesAgree
  <2>3. UNCHANGED <<tasks, programs, issued, visits>>
    BY <1>10 DEF Revoke
  <2> QED
    BY <1>3, <2>1, <2>2, <2>3
<1>11. CASE CleanSessions \/ NextDay \/ UNCHANGED accountVars
  <2>1. UNCHANGED <<tasks, programs, issued, visits, leaving, last_use>>
    BY <1>11 DEF CleanSessions, NextDay, accountVars
  <2> QED
    BY <1>3, <2>1 DEF RevokesOn
<1> QED
  BY <1>4, <1>5, <1>6, <1>7, <1>8, <1>9, <1>10, <1>11 DEF AccountsNext

LEMMA InitIsLive == AccountsInit => LiveInv
<1> SUFFICES ASSUME AccountsInit
             PROVE  LiveInv
  OBVIOUS
<1>1. /\ \A p \in Programs : programs[p].saved = None /\ programs[p].job = None
      /\ \A c \in Connections : tasks[c].at = "closed"
      /\ \A v \in Visitors : visits[v].token = None
  BY VisitorsArePrograms DEF AccountsInit, Program, Closed, Away
<1>2. /\ \A p \in Programs : HeldBy(p) = None
      /\ \A c \in Connections : Ending(tasks[c]) = None
  BY <1>1 DEF HeldBy, Held, Signing, Ending
<1>3. DatesAgree
  BY DEF AccountsInit, DatesAgree
<1>4. TokensKept
  BY <1>1, <1>2 DEF AccountsInit, TokensKept, OneHolder, VisitorsHold, OwnSessionEnds, HeldIsLive
<1>5. JobsKnown
  BY <1>1 DEF JobsKnown
<1> QED
  BY <1>3, <1>4, <1>5 DEF LiveInv

-----------------------------------------------------------------------------
(* Theorems                                                                *)

\* Type correctness, and with it what every task, program and visit knows of
\* its session, in every state of every run.
THEOREM AccountsAreKept == AccountsSpec => []AccountsInv
<1>1. AccountsInit => AccountsInv
  BY InitHasAccounts
<1>2. AccountsInv /\ [AccountsNext]_accountVars => AccountsInv'
  BY NextKeepsAccounts
<1> QED
  BY <1>1, <1>2, PTL DEF AccountsSpec

\* Whatever the calls that interleave, a connection that waits for its next
\* command is known to the hub by the account of the session it would log out
\* of, and by none without one (server.rs, handle_account).
THEOREM IdentityKept == AccountsSpec => []IdentityMatchesSession
<1>1. AccountsInv => IdentityMatchesSession
  BY DEF AccountsInv, TasksKnown, KnownTask, IdentityMatchesSession
<1> QED
  BY <1>1, AccountsAreKept, PTL

\* The session a program says it signed out of signs nobody in again, for any
\* programs, sessions and days, as long as the calls of a sign-out do not fail
\* (src/app/account.rs, sign_out; server.rs, LogOut).
THEOREM SignOutsAreHonest ==
    ASSUME FailingCalls \cap {"use", "delete"} = {}
    PROVE  AccountsSpec => []SignedOutMeansRevoked
<1>1. AccountsInit => AllHonest
  <2>1. Program(None, None).told = None /\ Program(None, None).job = None
    BY DEF Program
  <2>2. AccountsInit => \A p \in Programs : programs[p] = Program(None, None)
    BY DEF AccountsInit
  <2> QED
    BY <2>1, <2>2 DEF AllHonest, HonestProgram, HonestTold, HonestJob
<1>2. AccountsInv /\ AllHonest /\ [AccountsNext]_accountVars => AllHonest'
  BY NextKeepsHonest
<1>3. AllHonest => SignedOutMeansRevoked
  BY DEF AllHonest, HonestProgram, HonestTold, Gone, SignedOutMeansRevoked
<1> QED
  BY <1>1, <1>2, <1>3, AccountsAreKept, PTL DEF AccountsSpec

\* A session that a program is signed in with signs it in again, unless nobody
\* used it for IdleLimit days: for any programs, visitors and keys, whatever
\* request was lost or call of the database failed, no task and no visitor who
\* leaves revokes a session that another still holds (src/app/account.rs;
\* server.rs, handle_account; ssh.rs, Drop of Visitor).
THEOREM SavedSessionsStayLive == AccountsSpec => []SavedSessionsAreLive
<1>1. AccountsInit => LiveInv
  BY InitIsLive
<1>2. AccountsInv /\ LiveInv /\ [AccountsNext]_accountVars => LiveInv'
  BY NextKeepsLive
<1>3. AccountsInv /\ LiveInv => SavedSessionsAreLive
  <2> SUFFICES ASSUME AccountsInv, LiveInv, NEW p \in Programs, programs[p].job = None,
                      programs[p].saved # None
               PROVE  LET saved == programs[p].saved
                      IN  \/ Valid(saved)
                          \/ last_use[saved] # None /\ last_use[saved] < today - IdleLimit
    BY DEF SavedSessionsAreLive
  <2> DEFINE saved == programs[p].saved
  <2>1. HeldBy(p) = saved /\ ~LoggingOut(programs[p])
    BY DEF HeldBy, Held, Signing, LoggingOut
  <2>2. saved \in Tokens /\ last_use[saved] # None
    BY <2>1, HeldIsGiven DEF LiveInv, TokensKept, HeldIsLive
  <2>3. /\ last_use[saved] \in Nat /\ today \in Nat /\ IdleLimit \in Nat
        /\ sessions[saved] # None => sessions[saved] = last_use[saved]
        /\ sessions[saved] = None => last_use[saved] < today - IdleLimit
    BY <2>2, AccountsAssumption DEF LiveInv, DatesAgree, AccountsInv, AccountsType
  <2>4. CASE sessions[saved] = None
    BY <2>2, <2>3, <2>4
  <2>5. CASE sessions[saved] # None
    BY <2>2, <2>3, <2>5 DEF Valid
  <2> QED
    BY <2>4, <2>5
<1> QED
  BY <1>1, <1>2, <1>3, AccountsAreKept, PTL DEF AccountsSpec
===============================================================================
