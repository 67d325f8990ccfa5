------------------------------- MODULE Online -------------------------------
(***************************************************************************)
(* Online play from end to end: two client programs (src/app/online.rs),   *)
(* their network workers (src/client.rs), the socket tasks and outboxes of *)
(* the server (crates/chess-server/src/server.rs) and the hub of module    *)
(* Hub.                                                                    *)
(*                                                                         *)
(* A client's commands wait in one queue from the moment they are queued   *)
(* until the server reads them, and what the worker reports and the server *)
(* sends waits in one queue of events until the program handles it.  Which *)
(* of them were on the wire, in a buffer or in a channel is decided when a *)
(* connection is lost: the server still reads some prefix of the commands, *)
(* some more are gone, the rest is sent on the next connection; of the     *)
(* messages of that connection some prefix has arrived.                    *)
(*                                                                         *)
(* Hello and Authenticate change no game and are left out.  A failed       *)
(* attempt to connect leaves the program in the state "Offline" it is in   *)
(* already, so only the successful one is a step.                          *)
(***************************************************************************)
EXTENDS Hub

CONSTANTS
    OutboxCapacity,   \* messages an outbox holds
    MaxRequests       \* bound: requests one player makes

Clients == {"host", "guest"}

\* The host creates the game and plays White, the guest joins it with Black.
SideOf(client) == IF client = "host" THEN "white" ELSE "black"

\* Tasks that call the hub and dispatch what it returns.
Ticker == 0
Tasks == Connections \cup {Ticker}

ASSUME OnlineAssumption ==
    /\ OutboxCapacity \in Nat \ {0}
    /\ MaxRequests \in Nat

VARIABLES
    sessions,     \* the OnlineSession of each running client, else None
    seat_files,   \* online-session.json of each client
    links,        \* the connection of each client's network worker
    commands,     \* what each client has queued and the server has not read
    events,       \* what each client has yet to handle
    requests,     \* player requests so far, to bound them
    owners,       \* the client that dialled each connection
    wires,        \* what lost connections still have for the server
    peers,        \* connections that have an outbox
    outgoing      \* what each task has yet to dispatch

\* History variables: nothing the program does depends on them.  Of two answers
\* of the hub to one connection, the earlier is overtaken when the later is
\* dispatched first.
VARIABLES
    ahead,        \* for each task, those whose answers to a connection of its own
                  \* answer are earlier and have yet to be dispatched
    overtaken,    \* for each task, the connections on which its answer is late
    misled        \* clients whose last news was late

clientVars == <<sessions, seat_files, links, commands, events, requests>>
serverVars == <<owners, wires, peers, outgoing>>
historyVars == <<ahead, overtaken, misled>>
onlineVars == <<vars, clientVars, serverVars, historyVars>>

Statuses == Outcomes \cup {Result("waiting", None), Result("active", None)}

\* What a program shows of a game.
Views == [game_id    : GameIds \cup {None},
          revision   : Nat,
          moves      : Nat,
          draw_offer : Sides \cup {None},
          status     : Statuses,
          connected  : SUBSET Sides]

\* OnlineSession, with its intent and what the screen keeps of it.
OnlineSessions == [display      : {"Offline", "Connected", "Stopped"},
                   move_pending : BOOLEAN,
                   code         : Codes \cup {None},
                   seat         : Membership \cup {None},
                   invite_code  : Codes \cup {None},
                   view         : Views]

ASSUME SessionAssumption == None \notin OnlineSessions

Blank == [game_id |-> None, revision |-> 0, moves |-> 0, draw_offer |-> None,
          status |-> Result("waiting", None), connected |-> {}]

\* A program as it starts: with a saved seat it resumes it, else with a code
\* it joins and without one it creates.
Launched(code, seat) ==
    [display |-> "Offline", move_pending |-> TRUE, code |-> code, seat |-> seat,
     invite_code |-> None, view |-> Blank]

OnlineInit ==
    /\ Init
    /\ sessions = [p \in Clients |-> None]
    /\ seat_files = [p \in Clients |-> None]
    /\ links = [p \in Clients |-> None]
    /\ commands = [p \in Clients |-> <<>>]
    /\ events = [p \in Clients |-> <<>>]
    /\ requests = [p \in Clients |-> 0]
    /\ owners = [c \in Connections |-> None]
    /\ wires = [c \in Connections |-> <<>>]
    /\ peers = {}
    /\ outgoing = [t \in Tasks |-> {}]
    /\ ahead = [t \in Tasks |-> {}]
    /\ overtaken = [t \in Tasks |-> {}]
    /\ misled = [p \in Clients |-> FALSE]

-----------------------------------------------------------------------------
(* Connections *)

Healthy(c) == c \in sockets /\ c \in peers

\* Bound: the network fails only while there are connections left to recover.
MayFail ==
    next_connection_id
      + Cardinality({p \in Clients : links[p] = None \/ ~Healthy(links[p])})
    <= MaxConnections

\* The worker gets through: connect, an outbox, and an event for the program.
\* The server may still have to read what the last connection carried, and the
\* program to handle its events.
Dial(p) ==
    /\ sessions[p] # None
    /\ links[p] = None
    /\ Connect
    /\ links' = [links EXCEPT ![p] = next_connection_id]
    /\ owners' = [owners EXCEPT ![next_connection_id] = p]
    /\ peers' = peers \cup {next_connection_id}
    /\ events' = [events EXCEPT ![p] = Append(@, [event |-> "Connected"])]
    /\ UNCHANGED <<sessions, seat_files, commands, requests, wires, outgoing,
                   historyVars>>

\* Events of the current connection that may not have arrived yet.
Markers == {"Connected", "Disconnected"}

ArrivedPrefixes(queue) ==
    {n \in 0..Len(queue) :
        \A i \in (n + 1)..Len(queue) : queue[i].event \notin Markers}

\* The worker finds its connection broken.  A connection the server has shut
\* (no peer) delivers everything before it closes.
Lose(p) ==
    LET c == links[p]
    IN  /\ c # None
        /\ MayFail \/ ~Healthy(c)
        /\ \E n \in ArrivedPrefixes(events[p]) :
              /\ c \in sockets \ peers => n = Len(events[p])
              /\ events' = [events EXCEPT ![p] =
                    Append(SubSeq(@, 1, n), [event |-> "Disconnected"])]
        /\ \E read \in 0..Len(commands[p]), gone \in 0..Len(commands[p]) :
              /\ read <= gone
              /\ commands' = [commands EXCEPT ![p] = SubSeq(@, gone + 1, Len(@))]
              /\ wires' = [wires EXCEPT ![c] =
                    IF c \in sockets THEN SubSeq(commands[p], 1, read) ELSE <<>>]
        /\ links' = [links EXCEPT ![p] = None]
        /\ UNCHANGED <<vars, sessions, seat_files, requests, owners, peers, outgoing,
                       historyVars>>

\* The player leaves: the program and its worker are gone.
Quit(p) ==
    /\ sessions[p] # None
    /\ MayFail
    /\ \E read \in 0..Len(commands[p]) :
          wires' = IF links[p] \notin sockets THEN wires
                   ELSE [wires EXCEPT ![links[p]] = SubSeq(commands[p], 1, read)]
    /\ sessions' = [sessions EXCEPT ![p] = None]
    /\ links' = [links EXCEPT ![p] = None]
    /\ commands' = [commands EXCEPT ![p] = <<>>]
    /\ events' = [events EXCEPT ![p] = <<>>]
    /\ misled' = [misled EXCEPT ![p] = FALSE]
    /\ UNCHANGED <<vars, seat_files, requests, owners, peers, outgoing,
                   ahead, overtaken>>

\* play_online: create, join with the code the host reads out, or resume.
Launch(p) ==
    /\ sessions[p] = None
    /\ \/ p = "host" /\ sessions' = [sessions EXCEPT ![p] = Launched(None, None)]
       \/ /\ p = "guest" /\ sessions["host"] # None
          /\ sessions["host"].invite_code # None
          /\ sessions' = [sessions EXCEPT ![p] =
                Launched(sessions["host"].invite_code, None)]
       \/ /\ seat_files[p] # None
          /\ sessions' = [sessions EXCEPT ![p] = Launched(None, seat_files[p])]
    /\ UNCHANGED <<vars, seat_files, links, commands, events, requests, serverVars,
                   historyVars>>

-----------------------------------------------------------------------------
(* The server *)

\* A task dispatches an answer before it asks again.  It has unlocked the hub by
\* then, so any other task may ask, and dispatch, in between.
MayCallHub(t) == outgoing[t] = {}

Carried(d) ==
    [game_id    |-> d.game_id,
     revision   |-> d.snapshot.revision,
     moves      |-> d.snapshot.moves,
     draw_offer |-> d.snapshot.draw_offer,
     status     |-> d.snapshot.status,
     connected  |-> {s \in Sides : IsConnected(rooms'[d.game_id].seats[s])}]

Envelope(d) ==
    IF d.event \in NewsEvents
    THEN [target      |-> d.target,
          event       |-> d.event,
          token       |-> Token(d.game_id, memberships'[d.target].side),
          invite_code |-> rooms'[d.game_id].invite_code,
          view        |-> Carried(d),
          late        |-> FALSE]
    ELSE IF d.event = "Error"
    THEN [target |-> d.target, event |-> "Error", code |-> d.code, late |-> FALSE]
    ELSE [target |-> d.target, event |-> d.event, late |-> FALSE]

Receivers(batch) == {m.target : m \in batch}

Answer(t) ==
    LET batch == {Envelope(d) : d \in deliveries'}
    IN  /\ outgoing' = [outgoing EXCEPT ![t] = batch]
        /\ ahead' = [ahead EXCEPT ![t] =
              {u \in Tasks : Receivers(outgoing[u]) \cap Receivers(batch) # {}}]
        /\ UNCHANGED <<overtaken, misled>>

Handle(c, command) ==
    \/ /\ command.kind = "CreateGame"
       /\ \E tc \in TimeControls : CreateGame(c, TRUE, tc)
    \/ command.kind = "JoinGame" /\ JoinGame(c, TRUE, command.code)
    \/ command.kind = "Reconnect" /\ Reconnect(c, command.seat.game_id, command.seat)
    \/ /\ command.kind = "PlayMove"
       /\ PlayMove(c, command.game_id, command.ply, command.move, now)
    \/ command.kind = "OfferDraw" /\ OfferDraw(c, command.game_id)
    \/ command.kind = "RespondDraw" /\ RespondDraw(c, command.game_id, command.accept)
    \/ command.kind = "Resign" /\ Resign(c, command.game_id)

\* serve_socket reads a request of a connection that is up ...
Serve(p) ==
    /\ links[p] \in sockets
    /\ commands[p] # <<>>
    /\ MayCallHub(links[p])
    /\ Handle(links[p], Head(commands[p]))
    /\ Answer(links[p])
    /\ commands' = [commands EXCEPT ![p] = Tail(@)]
    /\ UNCHANGED <<sessions, seat_files, links, events, requests,
                   owners, wires, peers>>

\* ... or one that a lost connection left behind.
ServeLate(c) ==
    /\ c \in sockets
    /\ wires[c] # <<>>
    /\ MayCallHub(c)
    /\ Handle(c, Head(wires[c]))
    /\ Answer(c)
    /\ wires' = [wires EXCEPT ![c] = Tail(@)]
    /\ UNCHANGED <<clientVars, owners, peers>>

\* The loop of serve_socket ends: its peer is removed, the hub is told.  The
\* server may notice before the client does.
EndSocket(c) ==
    /\ c \in sockets
    /\ \/ wires[c] = <<>> /\ \A p \in Clients : links[p] # c
       \/ MayFail
    /\ MayCallHub(c)
    /\ Disconnect(c)
    /\ Answer(c)
    /\ peers' = peers \ {c}
    /\ wires' = [wires EXCEPT ![c] = <<>>]
    /\ UNCHANGED <<clientVars, owners>>

\* Mutant: a worker that has dialled again still reads the connection before.
ReachesOldToo(m, p) == owners[m.target] = p /\ m.target \in peers

\* The worker of p reads its one connection, which has an outbox.
Reaches(m, p) == m.target = links[p] /\ m.target \in peers

\* dispatch: a target without an outbox is skipped; one whose outbox is full
\* loses the message and its outbox, which closes the connection.
Dispatch(t) ==
    LET batch   == outgoing[t]
        Told(p) == {m \in batch : Reaches(m, p)}
        Letter(p) == CHOOSE m \in Told(p) : TRUE
    IN  /\ batch # {}
        /\ \E slow \in SUBSET {p \in Clients : /\ Told(p) # {}
                                               /\ Len(events[p]) >= OutboxCapacity
                                               /\ MayFail} :
              /\ peers' = peers \ {links[p] : p \in slow}
              /\ events' = [p \in Clients |->
                    IF Told(p) = {} \/ p \in slow THEN events[p]
                    ELSE Append(events[p], [Letter(p) EXCEPT
                                               !.late = @ \/ links[p] \in overtaken[t]])]
        /\ outgoing' = [outgoing EXCEPT ![t] = {}]
        /\ ahead' = [u \in Tasks |-> IF u = t THEN {} ELSE ahead[u] \ {t}]
        /\ overtaken' = [u \in Tasks |->
              IF u = t THEN {}
              ELSE IF u \in ahead[t]
              THEN overtaken[u] \cup (Receivers(outgoing[u]) \cap Receivers(batch))
              ELSE overtaken[u]]
        /\ UNCHANGED <<vars, sessions, seat_files, links, commands, requests,
                       owners, wires, misled>>

TickerCalls ==
    /\ MayCallHub(Ticker)
    /\ TickAt
    /\ Answer(Ticker)
    /\ UNCHANGED <<clientVars, owners, wires, peers>>

-----------------------------------------------------------------------------
(* The program handles events *)

IsOverView(view) == view.status.kind \notin {"waiting", "active"}

Queue(p, command) == commands' = [commands EXCEPT ![p] = Append(@, command)]

\* Every new connection is used to get into the seat, or to ask for one.
EntryCommand(session) ==
    IF session.seat # None THEN [kind |-> "Reconnect", seat |-> session.seat]
    ELSE IF session.code # None THEN [kind |-> "JoinGame", code |-> session.code]
    ELSE [kind |-> "CreateGame"]

Fatal == {"GameNotFound", "GameFull", "InvalidReconnectToken"}

\* Mutant: only an answer to the player's own request ends the wait.
AppliedWhenAcknowledged(session, view, acknowledge) ==
    [session EXCEPT !.display = "Connected", !.view = view,
                    !.move_pending = @ /\ ~acknowledge]

\* apply_online_snapshot
Applied(session, view, acknowledge) ==
    [session EXCEPT
        !.display = "Connected",
        !.view = view,
        !.move_pending = /\ @
                         /\ ~acknowledge
                         /\ view.revision = session.view.revision
                         /\ IsOverView(view) = IsOverView(session.view)]

\* GameCreated and GameJoined: the seat is kept, in memory and on disk.
Seated(session, message) ==
    Applied([session EXCEPT
                !.seat = message.token,
                !.invite_code = IF message.event = "GameCreated"
                                THEN message.invite_code ELSE @],
            message.view, TRUE)

\* A program that does not know its side takes White for its opponent when told
\* that the opponent is back, and nobody when told that the opponent is gone.
WithOpponent(session, connected) ==
    LET opponent == IF session.seat = None THEN "white" ELSE Flip(session.seat.side)
    IN  IF connected THEN [session EXCEPT !.view.connected = @ \cup {opponent}]
        ELSE IF session.seat = None THEN session
        ELSE [session EXCEPT !.view.connected = @ \ {opponent}]

\* Mutant: no error stops the client.
AfterErrorGoOn(session, code) == session

AfterError(session, code) ==
    IF code \in Fatal THEN [session EXCEPT !.display = "Stopped", !.move_pending = FALSE]
    ELSE session

After(session, message) ==
    CASE message.event = "Connected" ->
             [session EXCEPT !.display = "Connected", !.move_pending = TRUE]
      [] message.event = "Disconnected" ->
             [session EXCEPT !.display = "Offline", !.move_pending = TRUE]
      [] message.event \in {"GameCreated", "GameJoined"} -> Seated(session, message)
      [] message.event = "GameUpdated" -> Applied(session, message.view, FALSE)
      [] message.event = "MoveRejected" -> Applied(session, message.view, TRUE)
      [] message.event = "OpponentDisconnected" -> WithOpponent(session, FALSE)
      [] message.event = "OpponentReconnected" -> WithOpponent(session, TRUE)
      [] message.event = "Error" -> AfterError(session, message.code)

Notices == {"OpponentDisconnected", "OpponentReconnected"}

HandleEvent(p) ==
    /\ sessions[p] # None
    /\ events[p] # <<>>
    /\ LET message == Head(events[p])
       IN  /\ sessions' = [sessions EXCEPT ![p] = After(@, message)]
           /\ seat_files' = IF message.event \in {"GameCreated", "GameJoined"}
                            THEN [seat_files EXCEPT ![p] = message.token] ELSE seat_files
           /\ IF message.event = "Connected" THEN Queue(p, EntryCommand(sessions[p]))
              ELSE UNCHANGED commands
           /\ misled' = [misled EXCEPT ![p] =
                 IF message.event \in NewsEvents THEN message.late
                 ELSE @ \/ (message.event \in Notices /\ message.late)]
    /\ events' = [events EXCEPT ![p] = Tail(@)]
    /\ UNCHANGED <<vars, links, requests, serverVars, ahead, overtaken>>

-----------------------------------------------------------------------------
(* The players *)

\* online_connected_for_actions, in a program that knows its seat
MayAct(session) ==
    /\ session.seat # None
    /\ ~IsOverView(session.view)
    /\ session.display = "Connected"
    /\ session.view.connected = Sides

TurnOf(view) == IF view.moves % 2 = 0 THEN "white" ELSE "black"

\* OnlineDisplay::can_move
CanMove(session, p) ==
    MayAct(session) /\ TurnOf(session.view) = SideOf(p) /\ ~session.move_pending

Request(p, command) ==
    /\ requests[p] < MaxRequests
    /\ requests' = [requests EXCEPT ![p] = @ + 1]
    /\ Queue(p, command)
    /\ UNCHANGED <<vars, seat_files, links, events, serverVars, historyVars>>

SendMove(p) ==
    /\ sessions[p] # None /\ CanMove(sessions[p], p)
    /\ sessions[p].view.moves < MaxPly
    /\ \E move \in MoveKinds :
          Request(p, [kind |-> "PlayMove", game_id |-> sessions[p].seat.game_id,
                      ply |-> sessions[p].view.moves, move |-> move])
    /\ sessions' = [sessions EXCEPT ![p].move_pending = TRUE]

\* offer_or_accept_draw and respond_to_draw
SendDraw(p) ==
    /\ sessions[p] # None /\ MayAct(sessions[p])
    /\ LET view == sessions[p].view
       IN  \/ /\ view.draw_offer = None
              /\ Request(p, [kind |-> "OfferDraw", game_id |-> sessions[p].seat.game_id])
           \/ /\ view.draw_offer = Flip(SideOf(p))
              /\ \E accept \in BOOLEAN :
                    Request(p, [kind |-> "RespondDraw", accept |-> accept,
                                game_id |-> sessions[p].seat.game_id])
    /\ UNCHANGED sessions

SendResignation(p) ==
    /\ sessions[p] # None /\ MayAct(sessions[p])
    /\ Request(p, [kind |-> "Resign", game_id |-> sessions[p].seat.game_id])
    /\ UNCHANGED sessions

-----------------------------------------------------------------------------
OnlineNext ==
    \/ \E p \in Clients :
          \/ Launch(p) \/ Quit(p) \/ Dial(p) \/ Lose(p) \/ HandleEvent(p)
          \/ Serve(p)
          \/ SendMove(p) \/ SendDraw(p) \/ SendResignation(p)
    \/ \E c \in Connections : ServeLate(c) \/ EndSocket(c)
    \/ \E t \in Tasks : Dispatch(t)
    \/ TickerCalls

OnlineSpec == OnlineInit /\ [][OnlineNext]_onlineVars

\* As long as there is something to do, the workers retry, the programs handle
\* their events or the server serves a socket.  Nothing is assumed of the players
\* and no failure is fair.
Progress ==
    \/ \E p \in Clients :
          \/ Dial(p) \/ HandleEvent(p) \/ Serve(p)
          \/ links[p] # None /\ ~Healthy(links[p]) /\ Lose(p)
    \/ \E c \in Connections : ServeLate(c)
    \/ \E t \in Tasks : Dispatch(t)

FairOnlineSpec == OnlineSpec /\ WF_onlineVars(Progress)

-----------------------------------------------------------------------------
(* Properties *)

\* Nothing is under way between a client and the server.
Quiet(p) ==
    /\ sessions[p] # None
    /\ links[p] # None /\ Healthy(links[p])
    /\ commands[p] = <<>> /\ events[p] = <<>>
    /\ \A t \in Tasks : outgoing[t] = {}

IsCurrent(view, g) ==
    /\ view.game_id = g
    /\ view.revision = rooms[g].game.revision
    /\ view.moves = Len(rooms[g].game.moves)
    /\ view.draw_offer = rooms[g].game.draw_offer
    /\ view.status = RoomStatus(rooms[g])
    /\ view.connected = {s \in Sides : IsConnected(rooms[g].seats[s])}

\* README.md: the client displays server snapshots, so reconnecting cannot leave
\* the players with two different positions.  A player whose connection is up and
\* has nothing under way sees the game the server holds, its draw offer and who is
\* there, whatever was lost, refused or said twice on the way, unless the last
\* it heard of the game had been overtaken by something newer.
QuietMeansCurrent ==
    \A p \in Clients :
        Quiet(p) /\ memberships[links[p]] # None /\ ~misled[p]
        => IsCurrent(sessions[p].view, memberships[links[p]].game_id)

\* online.rs, move_pending: a client that waits for an answer gets one, or its
\* connection falls.  Only a program whose seat was taken from it waits with
\* nothing under way: the server answers what it asks with an error (hub.rs,
\* member_side) and the program waits on.
NobodyWaitsForNothing ==
    \A p \in Clients :
        Quiet(p) => /\ sessions[p].display # "Offline"
                    /\ sessions[p].move_pending => /\ memberships[links[p]] = None
                                                   /\ sessions[p].seat # None

\* hub.rs, reconnect: the connection that asks takes the seat, whoever has it.  A
\* program whose connection stays up keeps its seat on it, whatever the other
\* program and its own earlier connections do, unless a Reconnect that it left on
\* one of these is read late and takes the seat back there.
SeatsAreLostToOwnRequests ==
    [][\A p \in Clients :
          LET c == links[p]
          IN  c # None /\ links'[p] = c /\ c \in sockets' /\ memberships[c] # None
              => \/ memberships'[c] = memberships[c]
                 \/ rooms'[memberships[c].game_id] = None
                 \/ \E old \in Connections :
                       /\ owners[old] = p /\ wires[old] # <<>>
                       /\ Head(wires[old]).kind = "Reconnect"
                       /\ memberships'[old] = memberships[c]]_onlineVars

\* README.md: "If the connection drops, the client reconnects automatically and
\* restores the same seat using a local reconnect token": while it runs, a program
\* that has been given a seat is given no other one.
SameSeatIsRestored ==
    [][\A p \in Clients :
          sessions[p] # None /\ sessions'[p] # None /\ sessions[p].seat # None
          => sessions'[p].seat = sessions[p].seat]_onlineVars

\* The screen goes back to an earlier state of the game only when what it is told
\* was overtaken on the way.
ViewNeverGoesBack ==
    [][\A p \in Clients :
          /\ sessions[p] # None /\ sessions'[p] # None
          /\ sessions[p].view.game_id # None
          /\ sessions'[p].view.game_id = sessions[p].view.game_id
          /\ sessions'[p].view.revision < sessions[p].view.revision
          => Head(events[p]).late]_onlineVars

\* However often the network fails, a program that keeps running gets into a
\* seat or is told why not.
ClientsSettle ==
    \A p \in Clients :
        sessions[p] # None
        ~> \/ sessions[p] = None
           \/ sessions[p].display = "Stopped"
           \/ links[p] # None /\ memberships[links[p]] # None
=============================================================================
