------------------------------ MODULE Accounts ------------------------------
(***************************************************************************)
(* Accounts, sessions and SSH keys: the account commands of a connection   *)
(* (crates/chess-server/src/server.rs), the account service and its        *)
(* database (accounts.rs, store.rs), the SSH gateway (ssh.rs), and the     *)
(* account page of the client program (src/app/account.rs).                *)
(*                                                                         *)
(* A command runs in a task of the server that waits between its calls: at *)
(* names the call the task makes next.  Every call holds one lock, of the  *)
(* database, of the hub or of the tickets, and is one step.  Passwords,    *)
(* hashes and digests are left out: a log-in that knows the password names *)
(* its account, and a token stands for its digest.  A program is run on a  *)
(* computer, or by the gateway for a visitor.                              *)
(***************************************************************************)
EXTENDS Integers, FiniteSets

CONSTANTS
    None,
    Users,           \* usernames
    Computers,       \* programs that people run themselves
    Visitors,        \* SSH connections and the programs run for them
    Keys,            \* fingerprints of SSH keys
    MaxSessions,     \* visitors' programs at once
    IdleLimit,       \* days a session lasts unused
    StartMayFail,    \* whether a visitor's program may fail to start
    FailingCalls,    \* the calls of the database that may fail
    MaxTokens,       \* bound: sessions and tickets ever made
    MaxConnections,  \* bound: connections ever made
    MaxDays          \* bound: the calendar

Programs == Computers \cup Visitors
Tokens == 1..MaxTokens
Connections == 1..MaxConnections

\* What a program does on a connection of its own.
AllJobs == {"log in", "register", "games", "sign out", "log out", "link", "list"}

ASSUME AccountsAssumption ==
    /\ None \notin Users \cup Keys \cup Programs \cup Nat \cup AllJobs
    /\ Computers \cap Visitors = {}
    /\ FailingCalls \subseteq {"create", "verify", "start", "use", "delete", "link",
                              "look up", "revoke"}
    /\ MaxSessions \in Nat \ {0} /\ IdleLimit \in Nat
    /\ MaxTokens \in Nat /\ MaxConnections \in Nat /\ MaxDays \in Nat

VARIABLES
    users,     \* accounts in the database
    sessions,  \* each token's session in the database: its last use, or None
    owners,    \* the account each token was made for
    linked,    \* the account each SSH key is linked to
    tickets,   \* the key each live link ticket is for
    issued,    \* tokens made so far
    tasks,     \* the connections of the server and what each does
    dialled,   \* connections made so far
    programs,  \* what each program remembers and does
    visits,    \* the gateway's side of each visitor
    leaving,   \* tokens the gateway has yet to revoke
    last_use,  \* ghost: the day each token that was not revoked last signed in
    today

databaseVars == <<users, sessions, owners, linked, last_use>>
serverVars == <<tickets, issued, tasks, dialled>>
gatewayVars == <<visits, leaving>>
accountVars == <<databaseVars, serverVars, gatewayVars, programs, today>>

----------------------------------------------------------------------------
(* The database.                                                           *)

\* start_session and create_session
NextToken == issued + 1
NewSession(user) ==
    /\ issued < MaxTokens
    /\ issued' = NextToken
    /\ sessions' = [sessions EXCEPT ![NextToken] = today]
    /\ last_use' = [last_use EXCEPT ![NextToken] = today]
    /\ owners' = [owners EXCEPT ![NextToken] = user]

\* use_session lets in who was here IdleLimit days ago or later.
Valid(token) == sessions[token] # None /\ sessions[token] >= today - IdleLimit

Idle(token) == sessions[token] # None /\ sessions[token] < today - IdleLimit

\* The session cleaner: delete_idle_sessions
CleanSessions ==
    /\ \E token \in Tokens : Idle(token)
    /\ sessions' = [token \in Tokens |-> IF Idle(token) THEN None ELSE sessions[token]]
    /\ UNCHANGED <<users, owners, linked, last_use, serverVars, gatewayVars, programs, today>>

----------------------------------------------------------------------------
(* The account commands of a connection.                                   *)

\* session is ConnectionAccount::session_token, identity is what the hub knows;
\* user and token are what the command at hand is about.
Closed == [at |-> "closed", by |-> None, user |-> None, token |-> None, key |-> None,
           session |-> None, identity |-> None]

Goes(connection, at) == tasks' = [tasks EXCEPT ![connection].at = at]

\* A step of the task of connection that leaves all but the database alone.
Calls(connection, at) == tasks[connection].at = at /\ UNCHANGED <<programs, gatewayVars, dialled, today>>

\* A call of the database that fails answers the command with an error.
DatabaseFails(connection) ==
    /\ tasks[connection].at \in FailingCalls
    /\ Goes(connection, "failed")
    /\ UNCHANGED <<databaseVars, tickets, issued, programs, gatewayVars, dialled, today>>

\* Register: create_user, unless the name is taken.
CreateUser(connection) ==
    LET user == tasks[connection].user
    IN  /\ Calls(connection, "create")
        /\ users' = users \cup {user}
        /\ Goes(connection, IF user \in users THEN "taken" ELSE "start")
        /\ UNCHANGED <<sessions, owners, linked, last_use, tickets, issued>>

\* LogIn: user_with_password and the check of the password.
Verify(connection) ==
    /\ Calls(connection, "verify")
    /\ Goes(connection, IF tasks[connection].user \in users THEN "start" ELSE "refused")
    /\ UNCHANGED <<databaseVars, tickets, issued>>

StartSession(connection) ==
    /\ Calls(connection, "start")
    /\ NewSession(tasks[connection].user)
    /\ tasks' = [tasks EXCEPT ![connection].at = "adopt", ![connection].token = NextToken]
    /\ UNCHANGED <<users, linked, tickets>>

\* Authenticate: use_session
UseSession(connection) ==
    LET token == tasks[connection].token
    IN  /\ Calls(connection, "use")
        /\ \/ /\ Valid(token)
              /\ sessions' = [sessions EXCEPT ![token] = today]
              /\ last_use' = [last_use EXCEPT ![token] = today]
              /\ tasks' = [tasks EXCEPT ![connection].at = "adopt",
                                        ![connection].user = owners[token]]
           \/ /\ ~Valid(token)
              /\ Goes(connection, "invalid")
              /\ UNCHANGED <<sessions, last_use>>
        /\ UNCHANGED <<users, owners, linked, tickets, issued>>

\* adopt_sign_in and sign_in_connection
Adopt(connection) ==
    LET task == tasks[connection]
    IN  /\ Calls(connection, "adopt")
        /\ tasks' = [tasks EXCEPT ![connection] =
               [task EXCEPT !.at = "signed in", !.session = task.token, !.identity = task.user]]
        /\ UNCHANGED <<databaseVars, tickets, issued>>

\* Mutant: the hub keeps the identity of a connection that logs out.
SignOutSessionOnly(connection) ==
    LET task == tasks[connection]
    IN  /\ Calls(connection, "sign out")
        /\ tasks' = [tasks EXCEPT ![connection] =
               [task EXCEPT !.at = IF task.session = None THEN "signed out" ELSE "delete",
                            !.session = None, !.token = task.session]]
        /\ UNCHANGED <<databaseVars, tickets, issued>>

\* LogOut: the hub forgets the connection before its session is deleted.
SignOut(connection) ==
    LET task == tasks[connection]
    IN  /\ Calls(connection, "sign out")
        /\ tasks' = [tasks EXCEPT ![connection] =
               [task EXCEPT !.at = IF task.session = None THEN "signed out" ELSE "delete",
                            !.session = None, !.token = task.session, !.identity = None]]
        /\ UNCHANGED <<databaseVars, tickets, issued>>

\* log_out and delete_session
Revoked(token) ==
    /\ sessions' = [sessions EXCEPT ![token] = None]
    /\ last_use' = [last_use EXCEPT ![token] = None]

DeleteSession(connection) ==
    /\ Calls(connection, "delete")
    /\ Revoked(tasks[connection].token)
    /\ Goes(connection, "signed out")
    /\ UNCHANGED <<users, owners, linked, tickets, issued>>

\* LinkSshKey: the ticket is spent before the key is linked, so that two
\* connections never link with the same one.
SpendTicket(connection) ==
    LET task == tasks[connection]
    IN  /\ Calls(connection, "ticket")
        /\ tasks' = [tasks EXCEPT ![connection].at =
               IF task.identity = None THEN "not signed in"
               ELSE IF tickets[task.token] = None THEN "bad ticket" ELSE "link",
               ![connection].key = tickets[task.token]]
        /\ tickets' = IF task.identity = None THEN tickets
                      ELSE [tickets EXCEPT ![task.token] = None]
        /\ UNCHANGED <<databaseVars, issued>>

LinkKey(connection) ==
    LET task == tasks[connection]
    IN  /\ Calls(connection, "link")
        /\ linked' = [linked EXCEPT ![task.key] = task.identity]
        /\ Goes(connection, "linked")
        /\ UNCHANGED <<users, sessions, owners, last_use, tickets, issued>>

\* ListGames reads the games of whom the hub knows.
ListGames(connection) ==
    /\ Calls(connection, "list")
    /\ Goes(connection, IF tasks[connection].identity = None THEN "not signed in" ELSE "games")
    /\ UNCHANGED <<databaseVars, tickets, issued>>

Answers == {"taken", "refused", "signed in", "invalid", "signed out", "failed",
            "bad ticket", "linked", "not signed in", "games"}

Command(connection) ==
    \/ CreateUser(connection) \/ Verify(connection) \/ StartSession(connection)
    \/ UseSession(connection) \/ Adopt(connection) \/ SignOut(connection)
    \/ DeleteSession(connection) \/ SpendTicket(connection) \/ LinkKey(connection)
    \/ ListGames(connection) \/ DatabaseFails(connection)

\* The task of a connection its program has left ends when its command has.
EndSocket(connection) ==
    /\ tasks[connection].at \in Answers \cup {"idle"}
    /\ tasks[connection].by = None
    /\ tasks' = [tasks EXCEPT ![connection] = Closed]
    /\ UNCHANGED <<databaseVars, tickets, issued, programs, gatewayVars, dialled, today>>

----------------------------------------------------------------------------
(* The account page of a program.                                          *)

\* saved is the session it stays signed in with, job what it is doing on a
\* connection of its own, told what the person read after signing out.
Program(saved, ticket) ==
    [saved |-> saved, ticket |-> ticket, job |-> None, connection |-> None, told |-> None]

IsRunning(program) == program \in Visitors => visits[program].at = "running"

Jobs(program) == IF programs[program].saved = None THEN {"log in", "register"}
                 ELSE {"games", "sign out"}

\* OnlineClient::connect and the first request.
FirstCall == [job \in {"log in", "register", "games", "sign out"} |->
                 CASE job = "log in" -> "verify" [] job = "register" -> "create" [] OTHER -> "use"]
Begin(program) ==
    LET connection == dialled + 1
        current == programs[program]
    IN  /\ IsRunning(program) /\ current.job = None
        /\ connection \in Connections
        /\ dialled' = connection
        /\ \E job \in Jobs(program), user \in Users :
               /\ programs' = [programs EXCEPT ![program] =
                      [current EXCEPT !.job = job, !.connection = connection, !.told = None]]
               /\ tasks' = [tasks EXCEPT ![connection] =
                      [Closed EXCEPT !.at = FirstCall[job], !.by = program, !.user = user,
                                     !.token = current.saved]]
        /\ UNCHANGED <<databaseVars, tickets, issued, gatewayVars, today>>

\* The job is over: its client is dropped, and with it the connection.
Finished(current) == [current EXCEPT !.job = None, !.connection = None]
Forgotten(current, words) ==
    [Finished(current) EXCEPT !.saved = None, !.told = [words |-> words, token |-> current.saved]]

\* Mutant: signing out is only done when the server confirms it.
AfterFailureSignedIn(current) == Finished(current)

\* Mutant: signing out is reported done whatever happened to the request.
AfterFailureSignedOut(current) ==
    IF current.job \in {"sign out", "log out"} THEN Forgotten(current, "signed out")
    ELSE Finished(current)

\* A request that failed: no answer, or a connection lost before or after it
\* reached the server.
AfterFailure(current) ==
    IF current.job \in {"sign out", "log out"} THEN Forgotten(current, "signed out here")
    ELSE Finished(current)

LoseConnection(program) ==
    LET current == programs[program]
        task == tasks[current.connection]
        begun == task.at \notin {"create", "verify", "use", "sign out", "ticket", "list"}
    IN  /\ current.job # None
        /\ programs' = [programs EXCEPT ![program] = AfterFailure(current)]
        /\ \E at \in {task.at} \cup (IF begun THEN {} ELSE {"idle"}) :
               tasks' = [tasks EXCEPT ![current.connection] = [task EXCEPT !.at = at, !.by = None]]
        /\ UNCHANGED <<databaseVars, tickets, issued, gatewayVars, dialled, today>>

\* The second request of a job, on the same connection.
Asks(program, current, job, at, token) ==
    /\ programs' = [programs EXCEPT ![program] = [current EXCEPT !.job = job]]
    /\ tasks' = [tasks EXCEPT ![current.connection].at = at,
                              ![current.connection].token = token]
Ends(program, current) ==
    /\ programs' = [programs EXCEPT ![program] = current]
    /\ tasks' = [tasks EXCEPT ![programs[program].connection].by = None]

\* sign_in and create_account remember the session, and link the visitor's key.
ReceiveSignIn(program, current, task) ==
    LET remembered == [current EXCEPT !.saved = task.token]
    IN  IF task.at = "signed in"
        THEN IF current.ticket = None THEN Ends(program, Finished(remembered))
             ELSE Asks(program, [remembered EXCEPT !.ticket = None], "link", "ticket", current.ticket)
        ELSE Ends(program, Finished(current))

\* recent_games
ReceiveGames(program, current, task) ==
    IF task.at = "signed in" THEN Asks(program, current, "list", "list", None)
    ELSE Ends(program, IF task.at = "invalid" THEN [Finished(current) EXCEPT !.saved = None]
                       ELSE Finished(current))

\* sign_out: whatever the server says to the session, the log-out is sent.
ReceiveSignOut(program, current) == Asks(program, current, "log out", "sign out", None)

Receive(program) ==
    LET current == programs[program]
        task == tasks[current.connection]
    IN  /\ current.job # None /\ task.at \in Answers
        /\ CASE current.job \in {"log in", "register"} -> ReceiveSignIn(program, current, task)
             [] current.job = "games" -> ReceiveGames(program, current, task)
             [] current.job = "sign out" -> ReceiveSignOut(program, current)
             [] current.job = "log out" -> Ends(program, Forgotten(current, "signed out"))
             [] OTHER -> Ends(program, Finished(current))
        /\ UNCHANGED <<databaseVars, tickets, issued, gatewayVars, dialled, today>>

----------------------------------------------------------------------------
(* The SSH gateway.                                                        *)

\* token and ticket are those of Running; made are the sessions started for the
\* visitor.
Away == [at |-> "away", key |-> None, user |-> None, token |-> None, ticket |-> None, made |-> {}]

Visits(visitor, from) ==
    visits[visitor].at = from /\ UNCHANGED <<tasks, dialled, today, users, linked>>
Moves(visitor, visit) == visits' = [visits EXCEPT ![visitor] = visit]

\* auth_publickey, auth_keyboard_interactive and channel_open_session
Arrive(visitor) ==
    /\ Visits(visitor, "away")
    /\ \E key \in Keys \cup {None} : Moves(visitor, [Away EXCEPT !.at = "connected", !.key = key])
    /\ UNCHANGED <<sessions, owners, last_use, tickets, issued, leaving, programs>>

\* Programs that run or start hold a permit.
Permits == {visitor \in Visitors : visits[visitor].at \in {"look up", "start", "spawn", "running"}}

\* shell_request
Shell(visitor) ==
    LET visit == visits[visitor]
    IN  /\ Visits(visitor, "connected")
        /\ Cardinality(Permits) < MaxSessions
        /\ Moves(visitor, [visit EXCEPT !.at = IF visit.key = None THEN "spawn" ELSE "look up"])
        /\ UNCHANGED <<sessions, owners, last_use, tickets, issued, leaving, programs>>

\* identify: a linked key gets a session, any other a ticket.
LookUpKey(visitor) ==
    LET visit == visits[visitor]
    IN  /\ Visits(visitor, "look up")
        /\ IF linked[visit.key] # None
           THEN /\ Moves(visitor, [visit EXCEPT !.at = "start", !.user = linked[visit.key]])
                /\ UNCHANGED <<tickets, issued>>
           ELSE /\ issued < MaxTokens
                /\ issued' = NextToken
                /\ tickets' = [tickets EXCEPT ![NextToken] = visit.key]
                /\ Moves(visitor, [visit EXCEPT !.at = "spawn", !.ticket = NextToken])
        /\ UNCHANGED <<sessions, owners, last_use, leaving, programs>>

StartVisit(visitor) ==
    LET visit == visits[visitor]
    IN  /\ Visits(visitor, "start")
        /\ NewSession(visit.user)
        /\ Moves(visitor, [visit EXCEPT !.at = "spawn", !.token = NextToken,
                                        !.made = @ \cup {NextToken}])
        /\ UNCHANGED <<tickets, leaving, programs>>

\* A call of the database that fails leaves the visitor a guest.
VisitFails(visitor) ==
    /\ visits[visitor].at \in FailingCalls
    /\ visits' = [visits EXCEPT ![visitor].at = "spawn"]
    /\ UNCHANGED <<databaseVars, serverVars, leaving, programs, today>>

\* The program starts with what identify found, or start gives up.
Spawn(visitor) ==
    LET visit == visits[visitor]
    IN  /\ Visits(visitor, "spawn")
        /\ \/ /\ Moves(visitor, [visit EXCEPT !.at = "running"])
              /\ programs' = [programs EXCEPT ![visitor] = Program(visit.token, visit.ticket)]
           \/ /\ StartMayFail
              /\ Moves(visitor, [Away EXCEPT !.at = "connected", !.key = visit.key,
                                             !.made = visit.made])
              /\ UNCHANGED programs
        /\ UNCHANGED <<sessions, owners, last_use, tickets, issued, leaving>>

\* Mutant: the ticket dies with the visit, the session does not.
LeaveSignedIn(visitor) ==
    LET visit == visits[visitor]
        current == programs[visitor]
    IN  /\ visit.at \in {"connected", "running"}
        /\ Moves(visitor, [visit EXCEPT !.at = "left"])
        /\ programs' = [programs EXCEPT ![visitor] = Program(None, None)]
        /\ tasks' = IF current.job = None THEN tasks
                    ELSE [tasks EXCEPT ![current.connection].by = None]
        /\ tickets' = [ticket \in Tokens |->
                         IF ticket = visit.ticket THEN None ELSE tickets[ticket]]
        /\ UNCHANGED <<databaseVars, issued, dialled, leaving, today>>

\* Drop of Visitor: the program is killed, its ticket revoked at once and its
\* session by a task of its own.
Leave(visitor) ==
    LET visit == visits[visitor]
        current == programs[visitor]
    IN  /\ visit.at \in {"connected", "running"}
        /\ Moves(visitor, [visit EXCEPT !.at = "left"])
        /\ programs' = [programs EXCEPT ![visitor] = Program(None, None)]
        /\ tasks' = IF current.job = None THEN tasks
                    ELSE [tasks EXCEPT ![current.connection].by = None]
        /\ tickets' = [ticket \in Tokens |->
                         IF ticket = visit.ticket THEN None ELSE tickets[ticket]]
        /\ leaving' = leaving \cup ({visit.token} \ {None})
        /\ UNCHANGED <<databaseVars, issued, dialled, today>>

Revoke ==
    /\ \E token \in leaving :
           /\ leaving' = leaving \ {token}
           /\ \/ Revoked(token)
              \/ "revoke" \in FailingCalls /\ UNCHANGED <<sessions, last_use>>
    /\ UNCHANGED <<users, owners, linked, serverVars, visits, programs, today>>

----------------------------------------------------------------------------

NextDay == today < MaxDays /\ today' = today + 1
           /\ UNCHANGED <<databaseVars, serverVars, gatewayVars, programs>>

AccountsInit ==
    /\ users = {}
    /\ sessions = [token \in Tokens |-> None]
    /\ owners = [token \in Tokens |-> None]
    /\ last_use = [token \in Tokens |-> None]
    /\ linked = [key \in Keys |-> None]
    /\ tickets = [token \in Tokens |-> None]
    /\ issued = 0 /\ dialled = 0 /\ today = 0
    /\ tasks = [connection \in Connections |-> Closed]
    /\ programs = [program \in Programs |-> Program(None, None)]
    /\ visits = [visitor \in Visitors |-> Away]
    /\ leaving = {}

AccountsNext ==
    \/ \E connection \in Connections : Command(connection) \/ EndSocket(connection)
    \/ \E program \in Programs : Begin(program) \/ LoseConnection(program) \/ Receive(program)
    \/ \E visitor \in Visitors :
           \/ Arrive(visitor) \/ Shell(visitor) \/ LookUpKey(visitor) \/ StartVisit(visitor)
           \/ VisitFails(visitor) \/ Spawn(visitor) \/ Leave(visitor)
    \/ Revoke \/ CleanSessions \/ NextDay

AccountsSpec == AccountsInit /\ [][AccountsNext]_accountVars

\* A task that was spawned runs.
FairAccountsSpec == AccountsSpec /\ WF_accountVars(Revoke)

----------------------------------------------------------------------------
(* Properties.                                                             *)

\* Whenever a connection waits for its next command, the hub knows it by the
\* account of the session it would log out of, and by none without a session,
\* however the commands before it ended (server.rs, handle_account).
IdentityMatchesSession ==
    \A connection \in Connections :
        LET task == tasks[connection]
        IN  task.at \in Answers \cup {"idle"} =>
                /\ (task.identity = None) <=> (task.session = None)
                /\ task.session # None => owners[task.session] = task.identity

\* The session of which a program says "Signed out" signs nobody in again; no
\* connection, answered late or lost between the two requests, makes it say so
\* of a session that still signs in (src/app/account.rs, sign_out).
SignedOutMeansRevoked ==
    \A program \in Programs :
        LET told == programs[program].told
        IN  told # None /\ told.words = "signed out" => ~Valid(told.token)

\* A session a program stays signed in with still signs in, unless nobody used
\* it for IdleLimit days: no request that was lost half-way leaves a program
\* with a session that is gone (src/app/account.rs, src/client.rs).
SavedSessionsAreLive ==
    \A program \in Programs :
        LET saved == programs[program].saved
        IN  programs[program].job = None /\ saved # None =>
                \/ Valid(saved)
                \/ last_use[saved] # None /\ last_use[saved] < today - IdleLimit

\* The session a program was started with ends when its visitor has left, even
\* if the program was using it just then (ssh.rs, Drop of Visitor).
VisitorSessionsEnd ==
    \A visitor \in Visitors :
        visits[visitor].at = "left" ~>
            (visits[visitor].token # None => sessions[visits[visitor].token] = None)

==============================================================================
