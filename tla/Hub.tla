--------------------------------- MODULE Hub ---------------------------------
(***************************************************************************)
(* The authoritative lobby and room manager of online play,                *)
(* crates/chess-server/src/hub.rs.                                         *)
(*                                                                         *)
(* Every operation runs to its end under the hub lock, so each is one      *)
(* action.  A HashMap is a total function whose absent entries are None.   *)
(* Uuids and invite codes are members of small sets: a game id is never    *)
(* generated twice, an invite code is unique among the codes in use.  The  *)
(* reconnect token of a seat is the pair of its game and its side.         *)
(*                                                                         *)
(* deliveries is the value the last operation returned: the messages the   *)
(* transport must send.  Player names are left out of rooms; whether a     *)
(* requested name is acceptable is an input of the request.                *)
(***************************************************************************)
EXTENDS Game, FiniteSets

CONSTANTS
    GameIds, Codes, Users,
    MaxConnections,      \* bound: connections accepted in one run
    MaxTime,             \* bound: the last instant of the run
    MaxPly,              \* bound: moves in one game
    MaxRevision,         \* bound: changes of one game
    TimeControls,        \* time controls a client may ask for
    MaxInitial, MaxIncrement,
    ReconnectGrace, FinishedRetention, IdleRoomTtl

Connections == 1..MaxConnections

\* A clock that starts at zero on the wire stands for none (TimeControl::initial).
ASSUME HubAssumption ==
    /\ None \notin GameIds \cup Codes \cup Users
    /\ MaxConnections \in Nat /\ MaxTime \in Nat
    /\ MaxPly \in Nat /\ MaxRevision \in Nat
    /\ MaxInitial \in Nat /\ MaxIncrement \in Nat
    /\ ReconnectGrace \in Nat /\ FinishedRetention \in Nat /\ IdleRoomTtl \in Nat
    /\ TimeControls \subseteq [initial : (Nat \ {0}) \cup {None}, increment : Nat]

VARIABLES
    rooms, invites, memberships, identities, finished_games,
    next_connection_id, dirty,
    sockets,        \* connections whose serve_socket loop is running
    issued,         \* game ids generated so far
    now,            \* the monotonic clock
    deliveries      \* what the last operation returned

vars == <<rooms, invites, memberships, identities, finished_games,
          next_connection_id, dirty, sockets, issued, now, deliveries>>

Slot == [user            : Users \cup {None},
         connection      : Connections \cup {None},
         disconnected_at : Nat \cup {None}]

Room == [invite_code : Codes,
         game        : GameState,
         seats       : [Sides -> Slot \cup {None}],
         started_at  : Nat,
         finished_at : Nat \cup {None}]

Membership == [game_id : GameIds, side : Sides]

FinishedGame == [game_id : GameIds,
                 players : [Sides -> Users \cup {None}],
                 result  : Outcomes]

\* Why a move is rejected.
Reasons == {"GameNotActive", "StalePosition", "NotYourTurn", "IllegalMove"}

\* None is no value of an Option.
ASSUME OptionAssumption ==
    /\ None \notin Slot /\ None \notin Room /\ None \notin Membership
    /\ None \notin Reasons

NewSlot(user, c) == [user |-> user, connection |-> c, disconnected_at |-> None]

Token(g, side) == [game_id |-> g, side |-> side]

-----------------------------------------------------------------------------
(* Rooms *)

Joined(room) == room.seats["black"] # None
IsActive(room) == Joined(room) /\ ~IsOver(room.game)

IsConnected(slot) == slot # None /\ slot.connection # None

Targets(room) == {room.seats[s].connection :
                     s \in {x \in Sides : IsConnected(room.seats[x])}}

LongAbsent(slot, period, t) ==
    /\ slot # None
    /\ slot.disconnected_at # None
    /\ t - slot.disconnected_at >= period

\* Room::expired
Expired(room, t) ==
    \/ room.finished_at # None /\ t - room.finished_at >= FinishedRetention
    \/ \A s \in Sides : room.seats[s] # None =>
          /\ room.seats[s].connection = None
          /\ LongAbsent(room.seats[s], IdleRoomTtl, t)

RoomStatus(room) ==
    IF ~Joined(room) THEN Result("waiting", None)
    ELSE IF IsOver(room.game) THEN Outcome(room.game) ELSE Result("active", None)

\* snapshot() synchronises the clock of the room before it copies it.
Settled(room, t) == [room EXCEPT !.game.clock = Sync(@, t)]

Snapshot(room) == [revision   |-> room.game.revision,
                   moves      |-> Len(room.game.moves),
                   draw_offer |-> room.game.draw_offer,
                   status     |-> RoomStatus(room)]

-----------------------------------------------------------------------------
(* Deliveries *)

Notice(c, event, g) == [target |-> c, event |-> event, game_id |-> g]

News(c, event, g, room) ==
    [target |-> c, event |-> event, game_id |-> g, snapshot |-> Snapshot(room)]

\* Messages that carry a snapshot of their game.
NewsEvents == {"GameCreated", "GameJoined", "GameUpdated", "MoveRejected"}

Refusal(c, code) == [target |-> c, event |-> "Error", code |-> code]

Broadcast(g, room) == {News(c, "GameUpdated", g, room) : c \in Targets(room)}

-----------------------------------------------------------------------------
Init ==
    /\ rooms = [g \in GameIds |-> None]
    /\ invites = [k \in Codes |-> None]
    /\ memberships = [c \in Connections |-> None]
    /\ identities = [c \in Connections |-> None]
    /\ finished_games = {}
    /\ next_connection_id = 1
    /\ dirty = FALSE
    /\ sockets = {}
    /\ issued = {}
    /\ now = 0
    /\ deliveries = {}

(***************************************************************************)
(* Transport.  serve_socket takes a connection id, feeds the hub requests, *)
(* and when its loop ends calls disconnect.                                *)
(***************************************************************************)
Connect ==
    /\ next_connection_id <= MaxConnections
    /\ sockets' = sockets \cup {next_connection_id}
    /\ next_connection_id' = next_connection_id + 1
    /\ deliveries' = {}
    /\ UNCHANGED <<rooms, invites, memberships, identities, finished_games,
                   dirty, issued, now>>

\* Mutant: the seat keeps the connection that is gone.
VacatedByNobody(room, side, c, t) == [room EXCEPT !.seats[side].disconnected_at = t]

\* A seat taken over by another connection is left alone.
Vacated(room, side, c, t) ==
    IF IsConnected(room.seats[side]) /\ room.seats[side].connection = c
    THEN [room EXCEPT !.seats[side].connection = None,
                      !.seats[side].disconnected_at = t]
    ELSE room

Disconnect(c) ==
    /\ c \in sockets
    /\ sockets' = sockets \ {c}
    /\ identities' = [identities EXCEPT ![c] = None]
    /\ memberships' = [memberships EXCEPT ![c] = None]
    /\ IF memberships[c] = None \/ rooms[memberships[c].game_id] = None
       THEN deliveries' = {} /\ UNCHANGED rooms
       ELSE LET g    == memberships[c].game_id
                room == Vacated(rooms[g], memberships[c].side, c, now)
            IN  /\ rooms' = [rooms EXCEPT ![g] = room]
                /\ deliveries' = {Notice(d, "OpponentDisconnected", g) :
                                      d \in Targets(room)}
    /\ UNCHANGED <<invites, finished_games, next_connection_id, dirty, issued, now>>

SignIn(c, user) ==
    /\ c \in sockets
    /\ identities' = [identities EXCEPT ![c] = user]
    /\ deliveries' = {}
    /\ UNCHANGED <<rooms, invites, memberships, finished_games,
                   next_connection_id, dirty, sockets, issued, now>>

SignOut(c) ==
    /\ c \in sockets
    /\ identities' = [identities EXCEPT ![c] = None]
    /\ deliveries' = {}
    /\ UNCHANGED <<rooms, invites, memberships, finished_games,
                   next_connection_id, dirty, sockets, issued, now>>

(***************************************************************************)
(* Requests.  handle() marks the state dirty before it looks at a game     *)
(* request, so a refused request leaves the rooms alone but not dirty.     *)
(***************************************************************************)
Refuse(c, code) ==
    /\ deliveries' = {Refusal(c, code)}
    /\ dirty' = TRUE
    /\ UNCHANGED <<rooms, invites, memberships, identities, finished_games,
                   next_connection_id, sockets, issued, now>>

\* A seat is played under the account of its connection, else under an
\* acceptable name of the guest's choice.
MayTakeSeat(c, name_ok) == memberships[c] = None /\ (identities[c] # None \/ name_ok)

Supported(tc) ==
    /\ tc.initial # None => tc.initial <= MaxInitial
    /\ tc.increment <= MaxIncrement

CreateGame(c, name_ok, tc) ==
    /\ c \in sockets
    /\ \/ /\ ~(MayTakeSeat(c, name_ok) /\ Supported(tc))
          /\ Refuse(c, "InvalidRequest")
       \/ /\ MayTakeSeat(c, name_ok) /\ Supported(tc)
          /\ \E g \in GameIds \ issued, k \in {x \in Codes : invites[x] = None} :
                LET game == NewGame("white", tc.initial, tc.increment, now)
                    room == [invite_code |-> k,
                             game  |-> [game EXCEPT !.clock = Pause(@, now)],
                             seats |-> [s \in Sides |->
                                          IF s = "white" THEN NewSlot(identities[c], c)
                                          ELSE None],
                             started_at  |-> 0,
                             finished_at |-> None]
                IN  /\ issued' = issued \cup {g}
                    /\ invites' = [invites EXCEPT ![k] = g]
                    /\ memberships' = [memberships EXCEPT
                           ![c] = [game_id |-> g, side |-> "white"]]
                    /\ rooms' = [rooms EXCEPT ![g] = room]
                    /\ deliveries' = {News(c, "GameCreated", g, room)}
          /\ dirty' = TRUE
          /\ UNCHANGED <<identities, finished_games, next_connection_id, sockets, now>>

\* The second player is there: the host's clock starts.
Begun(game, t) == Changed([game EXCEPT !.clock = Resume(@, "white", t)])

JoinGame(c, name_ok, k) ==
    /\ c \in sockets
    /\ \/ ~MayTakeSeat(c, name_ok) /\ Refuse(c, "InvalidRequest")
       \/ /\ MayTakeSeat(c, name_ok)
          /\ invites[k] = None
          /\ Refuse(c, "GameNotFound")
       \/ /\ MayTakeSeat(c, name_ok)
          /\ invites[k] # None
          /\ Joined(rooms[invites[k]])
          /\ Refuse(c, "GameFull")
       \/ /\ MayTakeSeat(c, name_ok)
          /\ invites[k] # None
          /\ ~Joined(rooms[invites[k]])
          /\ LET g    == invites[k]
                 room == [rooms[g] EXCEPT
                            !.seats["black"] = NewSlot(identities[c], c),
                            !.started_at = now,
                            !.game = Begun(@, now)]
             IN  /\ rooms' = [rooms EXCEPT ![g] = Settled(room, now)]
                 /\ memberships' = [memberships EXCEPT
                        ![c] = [game_id |-> g, side |-> "black"]]
                 /\ deliveries' = {News(c, "GameJoined", g, Settled(room, now))}
                      \cup {News(d, "GameUpdated", g, Settled(room, now)) : d \in Targets(rooms[g])}
          /\ dirty' = TRUE
          /\ UNCHANGED <<invites, identities, finished_games, next_connection_id,
                         sockets, issued, now>>

\* Mutant: the seat passes to the account of the connection.
ReseatedUnderNewAccount(room, side, c) ==
    [room EXCEPT !.seats[side].connection = c, !.seats[side].disconnected_at = None,
                 !.seats[side].user = identities[c]]

Reseated(room, side, c) ==
    [room EXCEPT !.seats[side].connection = c, !.seats[side].disconnected_at = None]

\* Mutant: the connection whose seat was taken over stays a member.
TransferredToBoth(old, c, g, side) ==
    [memberships EXCEPT ![c] = [game_id |-> g, side |-> side]]

\* Mutant: whoever is in the game loses membership, as when it is evicted.
TransferredFromAll(old, c, g, side) ==
    [d \in Connections |-> IF d = c THEN [game_id |-> g, side |-> side]
                           ELSE IF memberships[d] # None /\ memberships[d].game_id = g
                           THEN None ELSE memberships[d]]

\* The old connection of the seat loses its membership but is not told.
Transferred(old, c, g, side) ==
    [d \in Connections |-> IF d = c THEN [game_id |-> g, side |-> side]
                           ELSE IF d = old THEN None ELSE memberships[d]]

Reconnect(c, g, token) ==
    LET sides == IF rooms[g] = None THEN {}
                 ELSE {s \in Sides : rooms[g].seats[s] # None /\ Token(g, s) = token}
    IN
    /\ c \in sockets
    /\ \/ memberships[c] # None /\ Refuse(c, "InvalidRequest")
       \/ memberships[c] = None /\ rooms[g] = None /\ Refuse(c, "GameNotFound")
       \/ /\ memberships[c] = None /\ rooms[g] # None /\ sides = {}
          /\ Refuse(c, "InvalidReconnectToken")
       \/ /\ memberships[c] = None
          /\ \E side \in sides :
                LET room     == Settled(Reseated(rooms[g], side, c), now)
                    opponent == room.seats[Flip(side)]
                IN  /\ rooms' = [rooms EXCEPT ![g] = room]
                    /\ memberships' = Transferred(rooms[g].seats[side].connection, c, g, side)
                    /\ deliveries' = {News(c, "GameJoined", g, room)}
                          \cup IF IsConnected(opponent)
                               THEN {Notice(opponent.connection, "OpponentReconnected", g)}
                               ELSE {}
          /\ dirty' = TRUE
          /\ UNCHANGED <<invites, identities, finished_games, next_connection_id,
                         sockets, issued, now>>

\* member_side
IsMember(c, g) == memberships[c] # None /\ memberships[c].game_id = g

RefuseStranger(c, g) ==
    /\ ~IsMember(c, g)
    /\ Refuse(c, IF memberships[c] = None THEN "InvalidRequest" ELSE "GameNotFound")

\* A member changed its room: everyone in it gets the settled result.
Publish(g, room, t) ==
    /\ rooms' = [rooms EXCEPT ![g] = Settled(room, t)]
    /\ deliveries' = Broadcast(g, Settled(room, t))

\* Mutant: moves are judged by the position alone.
RejectionOfActiveGame(room, side, ply, move) ==
    IF ~Joined(room) THEN "GameNotActive"
    ELSE IF Len(room.game.moves) # ply THEN "StalePosition"
    ELSE IF SideToMove(room.game) # side THEN "NotYourTurn"
    ELSE IF move \notin MoveKinds THEN "IllegalMove"
    ELSE None

Rejection(room, side, ply, move) ==
    IF ~IsActive(room) THEN "GameNotActive"
    ELSE IF Len(room.game.moves) # ply THEN "StalePosition"
    ELSE IF SideToMove(room.game) # side THEN "NotYourTurn"
    ELSE IF move \notin MoveKinds THEN "IllegalMove"
    ELSE None

\* Mutant: the deciding move leaves the clock running.
PlayedWithoutPause(game, move, t) == Play(game, move, t)

Played(game, move, t) ==
    LET next == Play(game, move, t)
    IN  IF IsOver(next) THEN [next EXCEPT !.clock = Pause(@, t)] ELSE next

\* The clock is read when the request is judged and again, later, when the
\* move is made: the flag may fall in between.
PlayMove(c, g, ply, move, later) ==
    /\ c \in sockets
    /\ \/ RefuseStranger(c, g)
       \/ /\ IsMember(c, g)
          /\ LET room   == [rooms[g] EXCEPT !.game.clock = Tick(@, now)]
                 reason == Rejection(room, memberships[c].side, ply, move)
             IN  \/ /\ reason # None
                    /\ rooms' = [rooms EXCEPT ![g] = Settled(room, later)]
                    /\ deliveries' = {News(c, "MoveRejected", g, Settled(room, later))}
                 \/ /\ reason = None
                    /\ Len(room.game.moves) < MaxPly
                    /\ Publish(g, [room EXCEPT !.game = Played(@, move, later)], later)
          /\ now' = later
          /\ dirty' = TRUE
          /\ UNCHANGED <<invites, memberships, identities, finished_games,
                         next_connection_id, sockets, issued>>

OfferDraw(c, g) ==
    /\ c \in sockets
    /\ \/ RefuseStranger(c, g)
       \/ IsMember(c, g) /\ ~IsActive(rooms[g]) /\ Refuse(c, "InvalidRequest")
       \/ /\ IsMember(c, g) /\ IsActive(rooms[g])
          /\ rooms[g].game.revision < MaxRevision
          /\ Publish(g, [rooms[g] EXCEPT !.game =
                            Changed([@ EXCEPT !.draw_offer = memberships[c].side])], now)
          /\ dirty' = TRUE
          /\ UNCHANGED <<invites, memberships, identities, finished_games,
                         next_connection_id, sockets, issued, now>>

MayAnswerDraw(c, g) ==
    rooms[g].game.draw_offer = Flip(memberships[c].side) /\ IsActive(rooms[g])

Answered(game, accept, t) ==
    LET cleared == [game EXCEPT !.draw_offer = None]
    IN  Changed(IF accept
                THEN [cleared EXCEPT !.agreed_draw = TRUE, !.clock = Pause(@, t)]
                ELSE cleared)

RespondDraw(c, g, accept) ==
    /\ c \in sockets
    /\ \/ RefuseStranger(c, g)
       \/ IsMember(c, g) /\ ~MayAnswerDraw(c, g) /\ Refuse(c, "InvalidRequest")
       \/ /\ IsMember(c, g) /\ MayAnswerDraw(c, g)
          /\ Publish(g, [rooms[g] EXCEPT !.game = Answered(@, accept, now)], now)
          /\ dirty' = TRUE
          /\ UNCHANGED <<invites, memberships, identities, finished_games,
                         next_connection_id, sockets, issued, now>>

Resigned(game, side, t) ==
    Changed([game EXCEPT !.resigned = side, !.clock = Pause(@, t)])

Resign(c, g) ==
    /\ c \in sockets
    /\ \/ RefuseStranger(c, g)
       \/ IsMember(c, g) /\ ~IsActive(rooms[g]) /\ Refuse(c, "InvalidRequest")
       \/ /\ IsMember(c, g) /\ IsActive(rooms[g])
          /\ Publish(g, [rooms[g] EXCEPT !.game =
                            Resigned(@, memberships[c].side, now)], now)
          /\ dirty' = TRUE
          /\ UNCHANGED <<invites, memberships, identities, finished_games,
                         next_connection_id, sockets, issued, now>>

(***************************************************************************)
(* The ticker.  tick_at looks at every room: whether the game was active   *)
(* before its clock is read decides if absence may forfeit it.             *)
(***************************************************************************)
\* Mutant: the opponent need not be there to claim the win.
ForfeitersAlone(room, t) ==
    {s \in Sides : IsActive(room) /\ LongAbsent(room.seats[s], ReconnectGrace, t)}

Forfeiters(room, t) ==
    {s \in Sides : /\ IsActive(room)
                   /\ LongAbsent(room.seats[s], ReconnectGrace, t)
                   /\ IsConnected(room.seats[Flip(s)])}

Abandoned(game, side, t) ==
    Changed([game EXCEPT !.abandoned = side, !.clock = Pause(@, t)])

Enforced(room, t) ==
    LET ticked == [room EXCEPT !.game.clock = Tick(@, t)]
        gone   == Forfeiters(room, t)
    IN  IF gone = {} THEN ticked
        ELSE [ticked EXCEPT !.game =
                Abandoned(@, IF "white" \in gone THEN "white" ELSE "black", t)]

\* Mutant: only a game that this very tick ends is marked finished.
FinishesNow(room, t) ==
    IsActive(room) /\ room.finished_at = None /\ ~IsActive(Enforced(room, t))

Finishes(room, t) ==
    /\ Joined(room)
    /\ room.finished_at = None
    /\ ~IsActive(Enforced(room, t))

TickedRoom(room, t) ==
    IF Finishes(room, t) THEN [Enforced(room, t) EXCEPT !.finished_at = t]
    ELSE Enforced(room, t)

\* Mutant: a forfeit is broadcast only if a displayed clock changed too.
ClockTickChanged(room, t) == TickChanged(room.game.clock, t)

RoomTickChanged(room, t) ==
    TickChanged(room.game.clock, t) \/ Forfeiters(room, t) # {}

FinishedRecord(g, room) ==
    [game_id |-> g,
     players |-> [s \in Sides |-> room.seats[s].user],
     result  |-> Outcome(room.game)]

OpenGames == {g \in GameIds : rooms[g] # None}

InvitesWithout(gone) ==
    [k \in Codes |-> IF \E g \in gone : rooms[g].invite_code = k THEN None
                     ELSE invites[k]]

MembershipsWithout(gone) ==
    [c \in Connections |->
        IF memberships[c] # None /\ memberships[c].game_id \in gone THEN None
        ELSE memberships[c]]

Evicted(t) == {g \in OpenGames : Expired(TickedRoom(rooms[g], t), t)}

TickAt ==
    LET ended == {g \in OpenGames : Finishes(rooms[g], now)}
        gone  == Evicted(now)
    IN
    /\ rooms' = [g \in GameIds |-> IF g \notin OpenGames \/ g \in gone THEN None
                                   ELSE TickedRoom(rooms[g], now)]
    /\ invites' = InvitesWithout(gone)
    /\ memberships' = MembershipsWithout(gone)
    /\ finished_games' = finished_games \cup
          {FinishedRecord(g, TickedRoom(rooms[g], now)) : g \in ended}
    /\ dirty' = (dirty \/ gone # {} \/ \E g \in ended : IsActive(rooms[g]))
    /\ deliveries' = UNION {Broadcast(g, TickedRoom(rooms[g], now)) :
                       g \in {x \in OpenGames : RoomTickChanged(rooms[x], now)}}
    /\ UNCHANGED <<identities, next_connection_id, sockets, issued, now>>

\* record_finished_games takes what the ticker collected.
TakeFinishedGames ==
    /\ finished_games # {}
    /\ finished_games' = {}
    /\ deliveries' = {}
    /\ UNCHANGED <<rooms, invites, memberships, identities, next_connection_id,
                   dirty, sockets, issued, now>>

\* The persister encodes the rooms; capturing a room settles its clock.
EncodeIfDirty ==
    /\ dirty
    /\ dirty' = FALSE
    /\ rooms' = [g \in GameIds |-> IF rooms[g] = None THEN None
                                   ELSE Settled(rooms[g], now)]
    /\ deliveries' = {}
    /\ UNCHANGED <<invites, memberships, identities, finished_games,
                   next_connection_id, sockets, issued, now>>

AdvanceTime ==
    /\ now < MaxTime
    /\ now' = now + 1
    /\ deliveries' = {}
    /\ UNCHANGED <<rooms, invites, memberships, identities, finished_games,
                   next_connection_id, dirty, sockets, issued>>

-----------------------------------------------------------------------------
Tokens == [game_id : GameIds, side : Sides]

GameRequest(c) ==
    \/ \E name_ok \in BOOLEAN, tc \in TimeControls : CreateGame(c, name_ok, tc)
    \/ \E name_ok \in BOOLEAN, k \in Codes : JoinGame(c, name_ok, k)
    \/ \E g \in GameIds, token \in Tokens : Reconnect(c, g, token)
    \/ \E g \in GameIds, ply \in 0..MaxPly, move \in MoveKinds \cup {"illegal"},
          later \in now..MaxTime :
          later <= now + 1 /\ PlayMove(c, g, ply, move, later)
    \/ \E g \in GameIds : OfferDraw(c, g)
    \/ \E g \in GameIds, accept \in BOOLEAN : RespondDraw(c, g, accept)
    \/ \E g \in GameIds : Resign(c, g)

Next ==
    \/ Connect
    \/ \E c \in Connections : Disconnect(c)
    \/ \E c \in Connections, user \in Users : SignIn(c, user)
    \/ \E c \in Connections : SignOut(c)
    \/ \E c \in Connections : GameRequest(c)
    \/ TickAt
    \/ TakeFinishedGames
    \/ EncodeIfDirty
    \/ AdvanceTime

Spec == Init /\ [][Next]_vars

-----------------------------------------------------------------------------
(* Types *)

TypeOK ==
    /\ rooms \in [GameIds -> Room \cup {None}]
    /\ invites \in [Codes -> GameIds \cup {None}]
    /\ memberships \in [Connections -> Membership \cup {None}]
    /\ identities \in [Connections -> Users \cup {None}]
    /\ finished_games \subseteq FinishedGame
    /\ next_connection_id \in Nat \ {0}
    /\ dirty \in BOOLEAN
    /\ sockets \subseteq Connections
    /\ issued \subseteq GameIds
    /\ now \in Nat

-----------------------------------------------------------------------------
(* Safety *)

SitsAt(c, g, side) ==
    /\ rooms[g] # None
    /\ rooms[g].seats[side] # None
    /\ rooms[g].seats[side].connection = c

\* A connection is a member of a game exactly when that game's room has it in
\* the seat the membership names, and members have a running socket.  The two
\* maps are changed apart by create, join, reconnect (which takes a seat over
\* from a live connection), disconnect and eviction; if they drift, a request
\* plays for the wrong seat or news goes to a closed socket.
SeatsMatchMemberships ==
    \A c \in Connections :
        /\ memberships[c] # None => c \in sockets
        /\ \A g \in GameIds, side \in Sides :
              SitsAt(c, g, side) <=> memberships[c] = [game_id |-> g, side |-> side]

\* Invite codes and rooms point at each other.  join_game and play_move
\* `expect` the room behind an invite or a membership: a stale entry is a panic
\* under the hub lock.
InvitesMatchRooms ==
    /\ \A k \in Codes : invites[k] # None =>
          rooms[invites[k]] # None /\ rooms[invites[k]].invite_code = k
    /\ \A g \in OpenGames : invites[rooms[g].invite_code] = g

\* A seat is dated absent exactly while nobody holds it: a date that outlives a
\* reconnection forfeits a player who is there, a missing one keeps a dead
\* room forever.
AbsenceIsDated ==
    \A g \in OpenGames, side \in Sides :
        LET slot == rooms[g].seats[side]
        IN  slot # None => (slot.connection = None <=> slot.disconnected_at # None)

\* Whoever created a game has a seat in it until its room is discarded.
HostsAreSeated == \A g \in OpenGames : rooms[g].seats["white"] # None

RoomsWereIssued == OpenGames \subseteq issued

Timed(room) == room.game.clock.initial # None

\* The clock of a timed game runs, for the side to move, exactly while the game
\* is active, so nobody loses time before the game starts or after it ends and
\* no active game stands still.
ClockRunsWhileActive ==
    \A g \in OpenGames :
        LET clock == rooms[g].game.clock
        IN  /\ clock.running # None => /\ IsActive(rooms[g])
                                       /\ clock.running.side = SideToMove(rooms[g].game)
            /\ Timed(rooms[g]) /\ IsActive(rooms[g]) => clock.running # None

\* No time is lost or charged twice: while a clock runs, what both sides have
\* left is what they started with and the increments of the moves played, less
\* the time since the second player joined.
ClockConservation ==
    \A g \in OpenGames :
        LET clock == rooms[g].game.clock
        IN  clock.running # None =>
              clock.remaining["white"] + clock.remaining["black"]
                = 2 * clock.initial + clock.increment * Len(rooms[g].game.moves)
                  - (clock.running.since - rooms[g].started_at)

-----------------------------------------------------------------------------
(* Action properties *)

\* A game that is over keeps its result and its moves for as long as its room
\* exists, whatever its players or the ticker still do: late moves, answers to
\* old draw offers, resignations, forfeits and clock readings.
ResultIsFinal ==
    [][\A g \in GameIds :
          rooms[g] # None /\ rooms'[g] # None /\ Joined(rooms[g]) /\ IsOver(rooms[g].game)
          => /\ Outcome(rooms'[g].game) = Outcome(rooms[g].game)
             /\ rooms'[g].game.moves = rooms[g].game.moves]_vars

\* Nothing about a game is sent to a connection that is not in it: neither to
\* one whose seat was taken over nor to one that is closed.
OnlyPlayersHear ==
    [][\A d \in deliveries' :
          d.event # "Error" =>
            /\ d.target \in sockets
            /\ \E side \in Sides :
                 \/ memberships[d.target] = [game_id |-> d.game_id, side |-> side]
                 \/ memberships'[d.target] = [game_id |-> d.game_id, side |-> side]]_vars

\* The account a seat is played under is settled when the seat is taken: signing
\* in or out and reconnecting from a connection with another account never move a
\* game to somebody else's history.
SeatsKeepTheirAccount ==
    [][/\ \A g \in GameIds, side \in Sides :
             rooms[g] # None /\ rooms'[g] # None /\ rooms[g].seats[side] # None
             => /\ rooms'[g].seats[side] # None
                /\ rooms'[g].seats[side].user = rooms[g].seats[side].user
       /\ \A record \in finished_games' \ finished_games :
             \A side \in Sides :
                record.players[side] = rooms[record.game_id].seats[side].user]_vars

\* Nobody who is connected loses by abandonment, and nobody loses that way to
\* an opponent who is absent too.
ForfeitNeedsAbsence ==
    [][\A g \in GameIds, side \in Sides :
          /\ rooms[g] # None /\ rooms'[g] # None
          /\ rooms[g].game.abandoned # side
          /\ rooms'[g].game.abandoned = side
          => /\ ~\E c \in sockets : memberships[c] = [game_id |-> g, side |-> side]
             /\ \E c \in sockets : memberships[c] = [game_id |-> g, side |-> Flip(side)]]_vars
==============================================================================
