----------------------------- MODULE NewsProofs -----------------------------
(***************************************************************************)
(* Proofs about what the hub tells and to whom it denies a game, for any   *)
(* number of connections and games: news of a game reaches its players     *)
(* only, nobody who is there loses by abandonment, and each player has     *)
(* been told the game as it is, but for a fallen flag that the next tick   *)
(* spreads or that the opponent's rejected move has found.  And proofs     *)
(* about what travels from the hub to the players' screens and back: in    *)
(* which order news is handled and which requests take a seat.             *)
(***************************************************************************)
EXTENDS HubProofs, HubViews, Online, SequenceTheorems

-----------------------------------------------------------------------------
(* Who hears                                                               *)

\* A message is a refusal, or for a connection in a seat of the game it is about.
Addressed(message, room, g) ==
    /\ message.event # "Error"
    /\ message.game_id = g
    /\ message.target \in Targets(room)

\* What the step sends is about one of the games, to who sits there before or
\* after it.
ToPlayers ==
    \A d \in deliveries' : d.event # "Error" =>
        \E g \in GameIds :
            \/ rooms[g] # None /\ Addressed(d, rooms[g], g)
            \/ rooms'[g] # None /\ Addressed(d, rooms'[g], g)

LEMMA TargetsAreSeated ==
    ASSUME NEW room \in Room, NEW c
    PROVE  c \in Targets(room) <=>
               \E side \in Sides : /\ room.seats[side] # None
                                   /\ room.seats[side].connection = c
                                   /\ c # None
BY DEF Targets, IsConnected

LEMMA TargetsAreMembers ==
    ASSUME IInv, NEW g \in GameIds, rooms[g] # None, NEW c \in Targets(rooms[g])
    PROVE  /\ c \in sockets
           /\ \E side \in Sides : memberships[c] = [game_id |-> g, side |-> side]
<1>1. rooms[g] \in Room
  BY DEF IInv, TypeOK
<1>2. PICK side \in Sides : /\ rooms[g].seats[side] # None
                            /\ rooms[g].seats[side].connection = c /\ c # None
  BY <1>1, TargetsAreSeated
<1>3. c \in Connections
  BY <1>1, <1>2 DEF Room, Slot
<1>4. SitsAt(c, g, side)
  BY <1>2 DEF SitsAt
<1>5. memberships[c] = [game_id |-> g, side |-> side]
  BY <1>3, <1>4 DEF IInv, MapsAgree, SeatsMatchMemberships
<1>6. memberships[c] # None
  BY <1>5, OptionAssumption DEF Membership
<1> QED
  BY <1>3, <1>5, <1>6 DEF IInv, MapsAgree, SeatsMatchMemberships

LEMMA SilenceIsToPlayers ==
    ASSUME deliveries' = {}
    PROVE  ToPlayers
BY DEF ToPlayers

LEMMA RefusalIsToPlayers ==
    ASSUME NEW c, NEW code, Refuse(c, code)
    PROVE  ToPlayers
BY DEF Refuse, Refusal, ToPlayers

LEMMA SameSeatsSameTargets ==
    ASSUME NEW room, NEW old, SameSeats(room, old)
    PROVE  Targets(room) = Targets(old)
BY DEF SameSeats, Targets, IsConnected

LEMMA BroadcastIsAddressed ==
    ASSUME NEW g, NEW room, NEW d \in Broadcast(g, room)
    PROVE  Addressed(d, room, g)
BY DEF Broadcast, News, Addressed

LEMMA PublishIsToPlayers ==
    ASSUME IInv, NEW c \in Connections, NEW g \in GameIds, IsMember(c, g),
           NEW room \in Room, NEW t \in Nat, Publish(g, room, t)
    PROVE  ToPlayers
<1>1. rooms[g] # None
  BY MembersHaveRooms
<1>2. Settled(room, t) \in Room
  BY SettledKeepsSeats DEF SameSeats
<1>3. rooms'[g] = Settled(room, t)
  BY DEF Publish, IInv, TypeOK
<1>4. rooms'[g] # None
  BY <1>2, <1>3, OptionAssumption
<1>5. deliveries' = Broadcast(g, rooms'[g])
  BY <1>3 DEF Publish
<1> QED
  BY <1>4, <1>5, BroadcastIsAddressed DEF ToPlayers

\* A member hears of its own room.
LEMMA MemberIsTarget ==
    ASSUME IInv, NEW c \in Connections, NEW g \in GameIds, IsMember(c, g)
    PROVE  c \in Targets(rooms[g])
<1>1. /\ rooms[g] \in Room /\ memberships[c].side \in Sides
      /\ memberships[c] = [game_id |-> g, side |-> memberships[c].side]
  BY MembersHaveRooms
<1>2. SitsAt(c, g, memberships[c].side) /\ c # None
  BY <1>1, NewSlotType DEF IInv, MapsAgree, SeatsMatchMemberships
<1> QED
  BY <1>1, <1>2, TargetsAreSeated DEF SitsAt

LEMMA PlayMoveIsToPlayers ==
    ASSUME IInv, NEW c \in Connections, NEW g \in GameIds, NEW ply \in Nat,
           NEW move, NEW later \in Nat, PlayMove(c, g, ply, move, later)
    PROVE  ToPlayers
<1>1. CASE RefuseStranger(c, g)
  BY <1>1, RefusalIsToPlayers DEF RefuseStranger
<1>2. CASE IsMember(c, g) /\ ~RefuseStranger(c, g)
  <2> DEFINE room == [rooms[g] EXCEPT !.game.clock = Tick(@, now)]
             reason == Rejection(room, memberships[c].side, ply, move)
             played == [room EXCEPT !.game = Played(@, move, later)]
  <2>1. rooms[g] \in Room /\ rooms[g] # None /\ now \in Nat
    BY <1>2, MembersHaveRooms DEF IInv, TypeOK
  <2>2. SameSeats(room, rooms[g])
    BY <2>1, TickedKeepsSeats
  <2>3. ASSUME reason = None  PROVE played \in Room
    <3>1. move \in MoveKinds
      BY <2>3, OptionAssumption DEF Rejection, Reasons
    <3> HIDE DEF room
    <3>2. Played(room.game, move, later) \in GameState
      BY <2>2, <3>1, PlayedType DEF SameSeats, Room
    <3> QED
      BY <2>2, <3>2 DEF SameSeats, Room
  <2>4. \/ deliveries' = {News(c, "MoveRejected", g, Settled(room, later))}
        \/ reason = None /\ Publish(g, played, later)
    BY <1>2 DEF PlayMove
  <2> HIDE DEF room, reason, played
  <2>5. CASE deliveries' = {News(c, "MoveRejected", g, Settled(room, later))}
    <3>1. c \in Targets(rooms[g])
      BY <1>2, MemberIsTarget
    <3> QED
      BY <2>1, <2>5, <3>1 DEF ToPlayers, Addressed, News
  <2>6. CASE reason = None /\ Publish(g, played, later)
    BY <1>2, <2>3, <2>6, PublishIsToPlayers
  <2> QED
    BY <2>4, <2>5, <2>6
<1> QED
  BY <1>1, <1>2 DEF PlayMove

\* Offers, answers and resignations.
LEMMA ChangedGameIsToPlayers ==
    ASSUME IInv, NEW c \in Connections, NEW g \in GameIds, IsMember(c, g),
           NEW game \in GameState, Publish(g, [rooms[g] EXCEPT !.game = game], now)
    PROVE  ToPlayers
<1>1. rooms[g] \in Room /\ now \in Nat
  BY MembersHaveRooms DEF IInv, TypeOK
<1>2. [rooms[g] EXCEPT !.game = game] \in Room
  BY <1>1, WithGameKeepsSeats DEF SameSeats
<1> QED
  BY <1>1, <1>2, PublishIsToPlayers

LEMMA DecisionIsToPlayers ==
    ASSUME IInv, NEW c \in Connections, NEW g \in GameIds, NEW accept \in BOOLEAN,
           OfferDraw(c, g) \/ RespondDraw(c, g, accept) \/ Resign(c, g)
    PROVE  ToPlayers
<1> DEFINE offered == Changed([rooms[g].game EXCEPT !.draw_offer = memberships[c].side])
           answered == Answered(rooms[g].game, accept, now)
           resigned == Resigned(rooms[g].game, memberships[c].side, now)
<1>1. CASE \E code : Refuse(c, code)
  BY <1>1, RefusalIsToPlayers
<1>2. CASE ~\E code : Refuse(c, code)
  <2>1. /\ IsMember(c, g)
        /\ \E game \in {offered, answered, resigned} :
              Publish(g, [rooms[g] EXCEPT !.game = game], now)
    BY <1>2 DEF OfferDraw, RespondDraw, Resign, RefuseStranger
  <2>2. rooms[g].game \in GameState /\ memberships[c].side \in Sides /\ now \in Nat
    BY <2>1, MembersHaveRooms DEF Room, IInv, TypeOK
  <2>3. offered \in GameState
    <3>1. [rooms[g].game EXCEPT !.draw_offer = memberships[c].side] \in GameState
      BY <2>2 DEF GameState
    <3> QED
      BY <3>1, ChangedType
  <2>4. answered \in GameState /\ resigned \in GameState
    BY <2>2, AnsweredType, ResignedType
  <2> HIDE DEF offered, answered, resigned
  <2> QED
    BY <2>1, <2>3, <2>4, ChangedGameIsToPlayers
<1> QED
  BY <1>1, <1>2

\* Whoever takes a seat is told of the room it then sits in.
LEMMA MemberHearsOfItsRoom ==
    ASSUME IInv', NEW c \in Connections, NEW g \in GameIds, NEW side \in Sides,
           memberships'[c] = [game_id |-> g, side |-> side]
    PROVE  rooms'[g] # None /\ rooms'[g] \in Room /\ c \in Targets(rooms'[g])
<1>1. SitsAt(c, g, side)'
  BY DEF IInv, MapsAgree, SeatsMatchMemberships
<1>2. c # None
  BY NoneAssumption, HubAssumption DEF Connections
<1>3. rooms'[g] \in Room \cup {None}
  BY DEF IInv, TypeOK
<1> QED
  BY <1>1, <1>2, <1>3 DEF SitsAt, Targets, IsConnected

LEMMA CreateGameIsToPlayers ==
    ASSUME IInv, IInv', NEW c \in Connections, NEW name_ok \in BOOLEAN,
           NEW tc \in TimeControls, CreateGame(c, name_ok, tc)
    PROVE  ToPlayers
<1>1. CASE Refuse(c, "InvalidRequest")
  BY <1>1, RefusalIsToPlayers
<1>2. CASE ~Refuse(c, "InvalidRequest")
  <2>1. PICK g \in GameIds :
            /\ memberships' = [memberships EXCEPT ![c] = [game_id |-> g, side |-> "white"]]
            /\ \E room : deliveries' = {News(c, "GameCreated", g, room)}
    BY <1>2 DEF CreateGame
  <2>2. memberships'[c] = [game_id |-> g, side |-> "white"]
    BY <2>1 DEF IInv, TypeOK
  <2>3. rooms'[g] # None /\ c \in Targets(rooms'[g])
    BY <2>2, MemberHearsOfItsRoom DEF Sides
  <2> QED
    BY <2>1, <2>3 DEF ToPlayers, Addressed, News
<1> QED
  BY <1>1, <1>2

LEMMA JoinGameIsToPlayers ==
    ASSUME IInv, IInv', NEW c \in Connections, NEW name_ok \in BOOLEAN, NEW k \in Codes,
           JoinGame(c, name_ok, k)
    PROVE  ToPlayers
<1>1. CASE \E code : Refuse(c, code)
  BY <1>1, RefusalIsToPlayers
<1>2. CASE ~\E code : Refuse(c, code)
  <2> DEFINE g == invites[k]
  <2>1. /\ g # None /\ memberships' = [memberships EXCEPT
                                        ![c] = [game_id |-> g, side |-> "black"]]
        /\ \E snapshot :
              deliveries' = {News(c, "GameJoined", g, snapshot)}
                  \cup {News(d, "GameUpdated", g, snapshot) : d \in Targets(rooms[g])}
    BY <1>2 DEF JoinGame
  <2>2. g \in GameIds /\ rooms[g] # None
    BY <2>1 DEF IInv, TypeOK, MapsAgree, InvitesMatchRooms
  <2> HIDE DEF g
  <2>3. memberships'[c] = [game_id |-> g, side |-> "black"]
    BY <2>1 DEF IInv, TypeOK
  <2>4. rooms'[g] # None /\ c \in Targets(rooms'[g])
    BY <2>2, <2>3, MemberHearsOfItsRoom DEF Sides
  <2> QED
    BY <2>1, <2>2, <2>4 DEF ToPlayers, Addressed, News
<1> QED
  BY <1>1, <1>2

LEMMA ReconnectIsToPlayers ==
    ASSUME IInv, IInv', NEW c \in Connections, NEW g \in GameIds, NEW token,
           Reconnect(c, g, token)
    PROVE  ToPlayers
<1>1. CASE \E code : Refuse(c, code)
  BY <1>1, RefusalIsToPlayers
<1>2. CASE ~\E code : Refuse(c, code)
  <2> DEFINE room(side) == Settled(Reseated(rooms[g], side, c), now)
             opponent(side) == room(side).seats[Flip(side)]
  <2>1. PICK side \in Sides :
            /\ rooms[g] # None
            /\ rooms' = [rooms EXCEPT ![g] = room(side)]
            /\ memberships' = Transferred(rooms[g].seats[side].connection, c, g, side)
            /\ deliveries' = {News(c, "GameJoined", g, room(side))}
                  \cup IF IsConnected(opponent(side))
                       THEN {Notice(opponent(side).connection, "OpponentReconnected", g)}
                       ELSE {}
    BY <1>2 DEF Reconnect
  <2>2. rooms'[g] = room(side)
    BY <2>1 DEF IInv, TypeOK
  <2>3. memberships'[c] = [game_id |-> g, side |-> side]
    BY <2>1 DEF Transferred
  <2>4. rooms'[g] # None /\ rooms'[g] \in Room /\ c \in Targets(rooms'[g])
    BY <2>3, MemberHearsOfItsRoom
  <2>5. IsConnected(opponent(side)) => opponent(side).connection \in Targets(rooms'[g])
    BY <2>2, FlipIsOther DEF Targets
  <2> HIDE DEF room, opponent
  <2> QED
    BY <2>1, <2>4, <2>5 DEF ToPlayers, Addressed, News, Notice
<1> QED
  BY <1>1, <1>2

LEMMA DisconnectIsToPlayers ==
    ASSUME IInv, IInv', NEW c \in Connections, Disconnect(c)
    PROVE  ToPlayers
<1>1. CASE memberships[c] = None
  BY <1>1, SilenceIsToPlayers DEF Disconnect
<1>2. CASE memberships[c] # None
  <2> DEFINE g == memberships[c].game_id
             room == Vacated(rooms[g], memberships[c].side, c, now)
  <2>1. g \in GameIds /\ rooms[g] # None /\ rooms[g] \in Room
    BY <1>2, MembersHaveRooms DEF IsMember
  <2>2. /\ rooms' = [rooms EXCEPT ![g] = room]
        /\ deliveries' = {Notice(d, "OpponentDisconnected", g) : d \in Targets(room)}
    BY <1>2, <2>1 DEF Disconnect
  <2>3. rooms'[g] = room
    BY <2>1, <2>2 DEF IInv, TypeOK
  <2>4. issued' = issued /\ invites' = invites
    BY DEF Disconnect
  <2>5. rooms'[g] # None
    <3>1. invites[rooms[g].invite_code] = g /\ rooms[g].invite_code \in Codes /\ g # None
      BY <2>1, HubAssumption DEF IInv, MapsAgree, InvitesMatchRooms, OpenGames, Room
    <3> QED
      BY <2>4, <3>1 DEF IInv, MapsAgree, InvitesMatchRooms
  <2> HIDE DEF room, g
  <2> QED
    BY <2>1, <2>2, <2>3, <2>5 DEF ToPlayers, Addressed, Notice
<1> QED
  BY <1>1, <1>2

\* A game that the ticker discards is told of for the last time.
LEMMA TickAtIsToPlayers ==
    ASSUME IInv, TickAt
    PROVE  ToPlayers
<1>1. \A g \in OpenGames : /\ g \in GameIds /\ rooms[g] # None
                           /\ Targets(TickedRoom(rooms[g], now)) = Targets(rooms[g])
  BY TickedRoomKeepsSeats, SameSeatsSameTargets DEF IInv, TypeOK, OpenGames
<1>2. ASSUME NEW d \in deliveries'
      PROVE  \E g \in OpenGames : d \in Broadcast(g, TickedRoom(rooms[g], now))
  BY <1>2 DEF TickAt
<1> QED
  BY <1>1, <1>2, BroadcastIsAddressed DEF ToPlayers, Addressed

LEMMA NextIsToPlayers ==
    ASSUME IInv, IInv', Next
    PROVE  ToPlayers
<1>1. ASSUME NEW c \in Connections, Disconnect(c)  PROVE ToPlayers
  BY <1>1, DisconnectIsToPlayers
<1>2. ASSUME NEW c \in Connections, GameRequest(c)  PROVE ToPlayers
  <2>1. ASSUME NEW name_ok \in BOOLEAN, NEW tc \in TimeControls, CreateGame(c, name_ok, tc)
        PROVE  ToPlayers
    BY <2>1, CreateGameIsToPlayers
  <2>2. ASSUME NEW name_ok \in BOOLEAN, NEW k \in Codes, JoinGame(c, name_ok, k)
        PROVE  ToPlayers
    BY <2>2, JoinGameIsToPlayers
  <2>3. ASSUME NEW g \in GameIds, NEW token \in Tokens, Reconnect(c, g, token)
        PROVE  ToPlayers
    BY <2>3, ReconnectIsToPlayers
  <2>4. ASSUME NEW g \in GameIds, NEW ply \in 0..MaxPly,
               NEW move \in MoveKinds \cup {"illegal"}, NEW later \in now..MaxTime,
               PlayMove(c, g, ply, move, later)
        PROVE  ToPlayers
    <3>1. ply \in Nat /\ later \in Nat
      BY HubAssumption DEF IInv, TypeOK
    <3> QED
      BY <2>4, <3>1, PlayMoveIsToPlayers
  <2>5. ASSUME NEW g \in GameIds, NEW accept \in BOOLEAN,
               OfferDraw(c, g) \/ RespondDraw(c, g, accept) \/ Resign(c, g)
        PROVE  ToPlayers
    BY <2>5, DecisionIsToPlayers
  <2> QED
    BY <1>2, <2>1, <2>2, <2>3, <2>4, <2>5 DEF GameRequest
<1>3. CASE TickAt
  BY <1>3, TickAtIsToPlayers
<1>4. CASE \/ Connect \/ TakeFinishedGames \/ EncodeIfDirty \/ AdvanceTime
           \/ \E c \in Connections, user \in Users : SignIn(c, user)
           \/ \E c \in Connections : SignOut(c)
  BY <1>4, SilenceIsToPlayers
     DEF Connect, TakeFinishedGames, EncodeIfDirty, AdvanceTime, SignIn, SignOut
<1> QED
  BY <1>1, <1>2, <1>3, <1>4 DEF Next

\* Only a new connection opens a socket, and it is told nothing yet.
LEMMA OnlyConnectOpens ==
    ASSUME Next
    PROVE  Connect \/ sockets' \subseteq sockets
<1>1. ASSUME NEW c \in Connections, GameRequest(c)  PROVE sockets' = sockets
  <2>1. \A code : Refuse(c, code) => sockets' = sockets
    BY DEF Refuse
  <2>2. ASSUME NEW name_ok, NEW tc, CreateGame(c, name_ok, tc)  PROVE sockets' = sockets
    BY <2>1, <2>2 DEF CreateGame
  <2>3. ASSUME NEW name_ok, NEW k, JoinGame(c, name_ok, k)  PROVE sockets' = sockets
    BY <2>1, <2>3 DEF JoinGame
  <2>4. ASSUME NEW g, NEW token, Reconnect(c, g, token)  PROVE sockets' = sockets
    BY <2>1, <2>4 DEF Reconnect
  <2>5. ASSUME NEW g, NEW ply, NEW move, NEW later, PlayMove(c, g, ply, move, later)
        PROVE  sockets' = sockets
    BY <2>1, <2>5 DEF PlayMove, RefuseStranger
  <2>6. ASSUME NEW g, NEW accept, OfferDraw(c, g) \/ RespondDraw(c, g, accept) \/ Resign(c, g)
        PROVE  sockets' = sockets
    BY <2>1, <2>6 DEF OfferDraw, RespondDraw, Resign, RefuseStranger
  <2> QED
    BY <1>1, <2>2, <2>3, <2>4, <2>5, <2>6 DEF GameRequest
<1>2. ASSUME NEW c \in Connections, Disconnect(c)  PROVE sockets' \subseteq sockets
  BY <1>2 DEF Disconnect
<1>3. CASE \/ TickAt \/ TakeFinishedGames \/ EncodeIfDirty \/ AdvanceTime
           \/ \E c \in Connections, user \in Users : SignIn(c, user)
           \/ \E c \in Connections : SignOut(c)
  BY <1>3 DEF TickAt, TakeFinishedGames, EncodeIfDirty, AdvanceTime, SignIn, SignOut
<1> QED
  BY <1>1, <1>2, <1>3 DEF Next

-----------------------------------------------------------------------------
(* Who loses by absence                                                    *)

\* The absence of a side ends a game in this step.
Forfeits(g, side) ==
    /\ rooms[g] # None /\ rooms'[g] # None
    /\ rooms[g].game.abandoned # side
    /\ rooms'[g].game.abandoned = side

\* In a room that the ticker forfeits, one side has been away and the other sits.
LEMMA ForfeitersAreAway ==
    ASSUME NEW room \in Room, NEW t \in Nat, NEW side \in Sides,
           room.game.abandoned # side, TickedRoom(room, t).game.abandoned = side
    PROVE  side \in Forfeiters(room, t)
<1> DEFINE ticked == [room EXCEPT !.game.clock = Tick(@, t)]
           gone == IF "white" \in Forfeiters(room, t) THEN "white" ELSE "black"
<1>1. ticked \in Room /\ ticked.game.abandoned = room.game.abandoned
  <2>1. ticked \in Room
    BY TickedKeepsSeats DEF SameSeats
  <2> QED
    BY <2>1 DEF Room, GameState
<1> HIDE DEF ticked
<1>2. CASE Forfeiters(room, t) = {}
  <2>1. TickedRoom(room, t).game = ticked.game
    BY <1>1, <1>2 DEF TickedRoom, Enforced, Room, ticked
  <2> QED
    BY <1>1, <2>1
<1>3. CASE Forfeiters(room, t) # {}
  <2>1. Enforced(room, t) = [ticked EXCEPT !.game = Abandoned(@, gone, t)]
    BY <1>3 DEF Enforced, ticked
  <2>2. gone \in Forfeiters(room, t) /\ gone \in Sides
    BY <1>3 DEF Forfeiters, Sides
  <2> HIDE DEF gone
  <2>3. TickedRoom(room, t).game = Abandoned(ticked.game, gone, t)
    BY <1>1, <2>1 DEF TickedRoom, Room
  <2>4. Abandoned(ticked.game, gone, t).abandoned = gone
    BY <1>1 DEF Abandoned, Changed, Room, GameState
  <2> QED
    BY <2>2, <2>3, <2>4
<1> QED
  BY <1>2, <1>3

\* No other operation ends a game that way.
LEMMA OperationsForfeitNothing ==
    ASSUME NEW game \in GameState, NEW t \in Nat, NEW side \in Sides, NEW accept \in BOOLEAN,
           NEW move \in MoveKinds
    PROVE  /\ Played(game, move, t).abandoned = game.abandoned
           /\ Changed([game EXCEPT !.draw_offer = side]).abandoned = game.abandoned
           /\ Answered(game, accept, t).abandoned = game.abandoned
           /\ Resigned(game, side, t).abandoned = game.abandoned
<1>1. Play(game, move, t) \in GameState /\ Play(game, move, t).abandoned = game.abandoned
  BY PlayType DEF Play, Changed, GameState
<1>2. Played(game, move, t).abandoned = game.abandoned
  BY <1>1 DEF Played, GameState
<1>3. Answered(game, accept, t).abandoned = game.abandoned
  BY DEF Answered, Changed, GameState
<1> QED
  BY <1>2, <1>3 DEF Resigned, Changed, GameState

LEMMA SettledForfeitsNothing ==
    ASSUME NEW room \in Room, NEW t \in Nat
    PROVE  Settled(room, t).game.abandoned = room.game.abandoned
BY DEF Settled, Room, GameState

\* The games of all rooms that stay have the absences they had.
NothingForfeited ==
    \A g \in GameIds : rooms[g] # None /\ rooms'[g] # None =>
        rooms'[g].game.abandoned = rooms[g].game.abandoned

LEMMA OneRoomForfeitsNothing ==
    ASSUME IInv, NEW g \in GameIds, NEW room \in Room, NEW t \in Nat,
           room.game.abandoned = rooms[g].game.abandoned,
           rooms' = [rooms EXCEPT ![g] = Settled(room, t)]
    PROVE  NothingForfeited
BY SettledForfeitsNothing DEF NothingForfeited, IInv, TypeOK

LEMMA RequestForfeitsNothing ==
    ASSUME IInv, NEW c \in Connections, GameRequest(c)
    PROVE  NothingForfeited
<1>0. now \in Nat /\ rooms \in [GameIds -> Room \cup {None}]
  BY DEF IInv, TypeOK
<1>a. ASSUME NEW code, Refuse(c, code)  PROVE NothingForfeited
  BY <1>a DEF Refuse, NothingForfeited
<1>1. ASSUME NEW name_ok \in BOOLEAN, NEW tc \in TimeControls, CreateGame(c, name_ok, tc),
             ~\E code : Refuse(c, code)
      PROVE  NothingForfeited
  <2>1. PICK g \in GameIds \ issued : \E room : rooms' = [rooms EXCEPT ![g] = room]
    BY <1>1 DEF CreateGame
  <2>2. rooms[g] = None
    BY <2>1 DEF IInv, TypeOK, MapsAgree, RoomsWereIssued, OpenGames
  <2> QED
    BY <1>0, <2>1, <2>2 DEF NothingForfeited
<1>2. ASSUME NEW name_ok \in BOOLEAN, NEW k \in Codes, JoinGame(c, name_ok, k),
             ~\E code : Refuse(c, code)
      PROVE  NothingForfeited
  <2> DEFINE g == invites[k]
             game == Begun(rooms[g].game, now)
             room == [rooms[g] EXCEPT !.seats["black"] = NewSlot(identities[c], c),
                                      !.started_at = now,
                                      !.game = game]
  <2>1. g # None /\ rooms' = [rooms EXCEPT ![g] = Settled(room, now)]
    BY <1>2 DEF JoinGame
  <2>2. g \in GameIds /\ rooms[g] \in Room
    BY <2>1 DEF IInv, TypeOK, MapsAgree, InvitesMatchRooms
  <2>3. game \in GameState
    <3>1. Resume(rooms[g].game.clock, "white", now) \in Clock
      BY <1>0, <2>2, ResumeType DEF Room, GameState, Sides
    <3>2. [rooms[g].game EXCEPT !.clock = Resume(@, "white", now)] \in GameState
      BY <2>2, <3>1 DEF Room, GameState
    <3> QED
      BY <3>2, ChangedType DEF Begun
  <2>4. game.abandoned = rooms[g].game.abandoned
    BY <2>2 DEF Begun, Changed, Room, GameState
  <2> HIDE DEF game
  <2>5. room \in Room /\ room.game = game
    BY <1>0, <2>2, <2>3, NewSlotType DEF Room, Sides
  <2> HIDE DEF room, g
  <2> QED
    BY <1>0, <2>1, <2>2, <2>4, <2>5, OneRoomForfeitsNothing
<1>3. ASSUME NEW g \in GameIds, NEW token \in Tokens, Reconnect(c, g, token),
             ~\E code : Refuse(c, code)
      PROVE  NothingForfeited
  <2>1. PICK side \in Sides :
            /\ rooms[g] # None /\ rooms[g].seats[side] # None
            /\ rooms' = [rooms EXCEPT ![g] = Settled(Reseated(rooms[g], side, c), now)]
    BY <1>3 DEF Reconnect
  <2>2. rooms[g] \in Room /\ rooms[g].seats[side] \in Slot
    BY <1>0, <2>1 DEF Room
  <2>3. Reseated(rooms[g], side, c) \in Room /\ Reseated(rooms[g], side, c).game = rooms[g].game
    BY <2>2 DEF Reseated, Room, Slot
  <2> QED
    BY <1>0, <2>1, <2>3, OneRoomForfeitsNothing
<1>4. ASSUME NEW g \in GameIds, NEW ply \in 0..MaxPly, NEW move \in MoveKinds \cup {"illegal"},
             NEW later \in now..MaxTime, PlayMove(c, g, ply, move, later),
             ~\E code : Refuse(c, code)
      PROVE  NothingForfeited
  <2> DEFINE room == [rooms[g] EXCEPT !.game.clock = Tick(@, now)]
             reason == Rejection(room, memberships[c].side, ply, move)
             played == [room EXCEPT !.game = Played(@, move, later)]
  <2>1. IsMember(c, g)
    BY <1>4 DEF PlayMove, RefuseStranger
  <2>2. rooms[g] \in Room /\ later \in Nat
    <3>1. rooms[g] \in Room
      BY <2>1, MembersHaveRooms
    <3>2. later \in Nat
      BY <1>0, HubAssumption
    <3> QED
      BY <3>1, <3>2
  <2>3. room \in Room /\ room.game.abandoned = rooms[g].game.abandoned
    <3>1. room \in Room
      BY <1>0, <2>2, TickedKeepsSeats DEF SameSeats
    <3> QED
      BY <2>2, <3>1 DEF Room, GameState
  <2>4. \/ rooms' = [rooms EXCEPT ![g] = Settled(room, later)]
        \/ reason = None /\ rooms' = [rooms EXCEPT ![g] = Settled(played, later)]
    BY <1>4, <2>1 DEF PlayMove, Publish, RefuseStranger
  <2>5. ASSUME reason = None
        PROVE  played \in Room /\ played.game.abandoned = room.game.abandoned
    <3>1. move \in MoveKinds
      BY <2>5, OptionAssumption DEF Rejection, Reasons
    <3> HIDE DEF room
    <3>2. room.game \in GameState
      BY <2>3 DEF Room
    <3>3. /\ Played(room.game, move, later) \in GameState
          /\ Played(room.game, move, later).abandoned = room.game.abandoned
      <4>1. "white" \in Sides /\ TRUE \in BOOLEAN
        BY DEF Sides
      <4> QED
        BY <2>2, <3>1, <3>2, <4>1, PlayedType, OperationsForfeitNothing
    <3> QED
      BY <2>3, <3>3 DEF Room
  <2> HIDE DEF room, reason, played
  <2> QED
    BY <2>2, <2>3, <2>4, <2>5, OneRoomForfeitsNothing
<1>5. ASSUME NEW g \in GameIds, NEW accept \in BOOLEAN,
             OfferDraw(c, g) \/ RespondDraw(c, g, accept) \/ Resign(c, g),
             ~\E code : Refuse(c, code)
      PROVE  NothingForfeited
  <2> DEFINE offered == Changed([rooms[g].game EXCEPT !.draw_offer = memberships[c].side])
             answered == Answered(rooms[g].game, accept, now)
             resigned == Resigned(rooms[g].game, memberships[c].side, now)
  <2>1. /\ IsMember(c, g)
        /\ \E game \in {offered, answered, resigned} :
              rooms' = [rooms EXCEPT ![g] = Settled([rooms[g] EXCEPT !.game = game], now)]
    BY <1>5 DEF OfferDraw, RespondDraw, Resign, RefuseStranger, Publish
  <2>2. /\ rooms[g] \in Room /\ rooms[g].game \in GameState
        /\ memberships[c].side \in Sides
    BY <2>1, MembersHaveRooms DEF Room
  <2>3. \A game \in {offered, answered, resigned} :
            game \in GameState /\ game.abandoned = rooms[g].game.abandoned
    <3>1. [rooms[g].game EXCEPT !.draw_offer = memberships[c].side] \in GameState
      BY <2>2 DEF GameState
    <3>2. offered \in GameState
      BY <3>1, ChangedType
    <3>3. answered \in GameState /\ resigned \in GameState
      BY <1>0, <2>2, AnsweredType, ResignedType
    <3>4. "quiet" \in MoveKinds
      BY DEF MoveKinds
    <3> QED
      BY <1>0, <2>2, <3>2, <3>3, <3>4, OperationsForfeitNothing
  <2> HIDE DEF offered, answered, resigned
  <2>4. PICK game \in {offered, answered, resigned} :
            rooms' = [rooms EXCEPT ![g] = Settled([rooms[g] EXCEPT !.game = game], now)]
    BY <2>1
  <2>5. /\ [rooms[g] EXCEPT !.game = game] \in Room
        /\ [rooms[g] EXCEPT !.game = game].game.abandoned = rooms[g].game.abandoned
    BY <2>2, <2>3 DEF Room
  <2> QED
    BY <1>0, <2>4, <2>5, OneRoomForfeitsNothing
<1> QED
  BY <1>a, <1>1, <1>2, <1>3, <1>4, <1>5 DEF GameRequest

LEMMA DisconnectForfeitsNothing ==
    ASSUME IInv, NEW c \in Connections, Disconnect(c)
    PROVE  NothingForfeited
<1>1. CASE rooms' = rooms
  BY <1>1 DEF NothingForfeited
<1>2. CASE rooms' # rooms
  <2> DEFINE g == memberships[c].game_id
             room == Vacated(rooms[g], memberships[c].side, c, now)
  <2>1. memberships[c] # None /\ rooms' = [rooms EXCEPT ![g] = room]
    BY <1>2 DEF Disconnect
  <2>2. g \in GameIds /\ rooms[g] \in Room
    BY <2>1, MembersHaveRooms DEF IsMember
  <2>3. room.game = rooms[g].game
    BY <2>2 DEF Vacated, Room
  <2> HIDE DEF room, g
  <2> QED
    BY <2>1, <2>2, <2>3 DEF NothingForfeited, IInv, TypeOK
<1> QED
  BY <1>1, <1>2

LEMMA OnlyTheTickerForfeits ==
    ASSUME IInv, [Next]_vars, NEW g \in GameIds, NEW side \in Sides, Forfeits(g, side)
    PROVE  TickAt
<1>1. ASSUME NothingForfeited  PROVE FALSE
  BY <1>1 DEF NothingForfeited, Forfeits
<1>2. ASSUME NEW c \in Connections, Disconnect(c)  PROVE FALSE
  BY <1>1, <1>2, DisconnectForfeitsNothing
<1>3. ASSUME NEW c \in Connections, GameRequest(c)  PROVE FALSE
  BY <1>1, <1>3, RequestForfeitsNothing
<1>4. CASE EncodeIfDirty
  BY <1>1, <1>4, SettledForfeitsNothing
     DEF EncodeIfDirty, NothingForfeited, IInv, TypeOK
<1>5. CASE \/ Connect \/ TakeFinishedGames \/ AdvanceTime
           \/ \E c \in Connections, user \in Users : SignIn(c, user)
           \/ \E c \in Connections : SignOut(c)
           \/ UNCHANGED vars
  BY <1>1, <1>5
     DEF Connect, TakeFinishedGames, AdvanceTime, SignIn, SignOut, vars, NothingForfeited
<1> QED
  BY <1>2, <1>3, <1>4, <1>5 DEF Next

-----------------------------------------------------------------------------
(* Flags that fall                                                         *)

\* While its flag is up both sides of a timed game have time left and see that they
\* do; a clock whose flag has fallen stands still, and so does that of an untimed game.
InTime(clock) ==
    /\ clock.flagged # None => clock.running = None
    /\ clock.initial = None => clock.running = None /\ clock.flagged = None
    /\ clock.initial # None /\ clock.flagged = None =>
          \A side \in Sides : clock.remaining[side] > 0 /\ clock.shown[side] > 0

\* A fallen flag that the next tick finds, by the seconds it shows, and one that
\* no tick will ever find.
Unshown(clock) == clock.flagged # None /\ RememberShown(clock).shown # clock.shown
Reported(clock) ==
    clock.flagged # None /\ clock.running = None /\ RememberShown(clock).shown = clock.shown

\* A step of the clock keeps both.
KeepsTime(new, old) ==
    InTime(old) => InTime(new) /\ (Reported(old) => Reported(new))

Idle(clock) == clock.running = None /\ clock.flagged = None

LEMMA ShownOfTime ==
    ASSUME NEW time \in Nat
    PROVE  /\ ShownSeconds(time) \in Nat
           /\ ShownSeconds(0) = 0
           /\ time > 0 => ShownSeconds(time) > 0
<1>1. Second \in Nat /\ Second > 0
  BY SecondAssumption
<1>2. (time + Second - 1) \div Second \in Nat
  BY <1>1
<1>3. (0 + Second - 1) \div Second = 0
  BY <1>1
<1>4. time > 0 => (time + Second - 1) \div Second > 0
  BY <1>1
<1> QED
  BY <1>2, <1>3, <1>4 DEF ShownSeconds

LEMMA RememberedIsShown ==
    ASSUME NEW clock \in Clock
    PROVE  LET new == RememberShown(clock)
           IN  /\ new \in Clock
               /\ new.initial = clock.initial /\ new.running = clock.running
               /\ new.flagged = clock.flagged /\ new.remaining = clock.remaining
               /\ new.shown = [s \in Sides |-> ShownSeconds(clock.remaining[s])]
               /\ RememberShown(new).shown = new.shown
               /\ \A side \in Sides : clock.remaining[side] > 0 => new.shown[side] > 0
<1> DEFINE shown == [s \in Sides |-> ShownSeconds(clock.remaining[s])]
           new == [clock EXCEPT !.shown = shown]
<1>1. \A s \in Sides : clock.remaining[s] \in Nat
  BY DEF Clock
<1>2. /\ \A s \in Sides : shown[s] \in Nat
      /\ \A s \in Sides : clock.remaining[s] > 0 => shown[s] > 0
  BY <1>1, ShownOfTime
<1>3. shown \in [Sides -> Nat]
  BY <1>2
<1> HIDE DEF shown
<1>4. /\ new \in Clock
      /\ new.initial = clock.initial /\ new.running = clock.running
      /\ new.flagged = clock.flagged /\ new.remaining = clock.remaining
      /\ new.shown = shown
  BY <1>3 DEF Clock
<1> HIDE DEF new
<1>5. RememberShown(new).shown = shown
  BY <1>4 DEF RememberShown, Clock, shown
<1> QED
  BY <1>2, <1>4, <1>5 DEF RememberShown, new, shown

\* Showing a clock that is in time.
LEMMA RememberKeepsTime ==
    ASSUME NEW clock \in Clock, InTime(clock)
    PROVE  InTime(RememberShown(clock)) /\ ~Unshown(RememberShown(clock))
BY RememberedIsShown DEF InTime, Unshown

\* Charging the running side: its flag may fall, and is then seen by the next tick.
LEMMA SyncKeepsTime ==
    ASSUME NEW clock \in Clock, NEW t \in Nat, InTime(clock)
    PROVE  LET new == Sync(clock, t)
           IN  /\ new \in Clock /\ InTime(new) /\ KeepsTime(new, clock)
               /\ clock.running = None => new = clock
               /\ new.flagged # clock.flagged => Unshown(new)
               /\ Unshown(clock) => Unshown(new)
<1> DEFINE new == Sync(clock, t)
<1>1. CASE clock.running = None
  <2>1. new = clock
    BY <1>1 DEF Sync
  <2> HIDE DEF new
  <2>2. KeepsTime(new, clock)
    BY <2>1 DEF KeepsTime
  <2> QED
    BY <2>1, <2>2 DEF new
<1>2. CASE clock.running # None
  <2> DEFINE side == clock.running.side
             left == SaturatingSub(clock.remaining[side], t - clock.running.since)
  <2>1. new = [clock EXCEPT !.remaining[side] = left,
                            !.flagged = IF left = 0 THEN side ELSE @,
                            !.running = IF left = 0 THEN None
                                        ELSE [side |-> side, since |-> t]]
    BY <1>2 DEF Sync
  <2>2. /\ side \in Sides /\ clock.remaining[side] \in Nat /\ clock.running.since \in Nat
        /\ clock.flagged = None /\ clock.initial # None
    BY <1>2 DEF InTime, Clock, Running
  <2>3. left \in Nat
    <3>1. t - clock.running.since \in Int
      BY <2>2
    <3> QED
      BY <2>2, <3>1, SubtractionSaturates
  <2>4. side # None
    BY <2>2, NoneAssumption DEF Sides
  <2>5. new \in Clock
    BY SyncType
  <2> HIDE DEF left
  <2>6. /\ new.initial = clock.initial /\ new.shown = clock.shown
        /\ new.flagged = IF left = 0 THEN side ELSE None
        /\ left = 0 => new.running = None
        /\ \A s \in Sides : new.remaining[s] = IF s = side THEN left ELSE clock.remaining[s]
    BY <2>1, <2>2 DEF Clock
  <2> HIDE DEF new
  <2>7. \A s \in Sides : clock.remaining[s] > 0 /\ clock.shown[s] > 0
    BY <2>2 DEF InTime
  <2>8. InTime(new)
    <3>1. left # 0 => \A s \in Sides : new.remaining[s] > 0 /\ new.shown[s] > 0
      BY <2>3, <2>6, <2>7
    <3> QED
      BY <2>2, <2>4, <2>6, <3>1 DEF InTime
  <2>9. ASSUME left = 0  PROVE Unshown(new)
    <3>1. RememberShown(new).shown[side] = ShownSeconds(0)
      <4>1. new.remaining[side] = 0
        BY <2>2, <2>6, <2>9
      <4>2. RememberShown(new).shown = [s \in Sides |-> ShownSeconds(new.remaining[s])]
        BY <2>5, RememberedIsShown
      <4> QED
        BY <2>2, <4>1, <4>2
    <3>2. RememberShown(new).shown[side] = 0
      BY <3>1, ShownOfTime
    <3>3. new.shown[side] # 0
      BY <2>2, <2>6, <2>7
    <3> QED
      BY <2>4, <2>6, <2>9, <3>2, <3>3 DEF Unshown
  <2>10. ~Reported(clock) /\ ~Unshown(clock)
    BY <2>2 DEF Reported, Unshown
  <2> QED
    BY <1>2, <2>2, <2>5, <2>6, <2>8, <2>9, <2>10 DEF KeepsTime, new
<1> QED
  BY <1>1, <1>2

LEMMA TickKeepsTime ==
    ASSUME NEW clock \in Clock, NEW t \in Nat, InTime(clock)
    PROVE  LET new == Tick(clock, t)
           IN  /\ new \in Clock /\ InTime(new) /\ KeepsTime(new, clock)
               /\ clock.running = None => new.running = None /\ new.flagged = clock.flagged
               /\ new.flagged # None => Reported(new)
               /\ Reported(clock) \/ Unshown(clock) =>
                     (TickChanged(clock, t) <=> Unshown(clock))
<1> DEFINE synced == Sync(clock, t)
           new == RememberShown(synced)
<1>1. /\ synced \in Clock /\ InTime(synced)
      /\ clock.running = None => synced = clock
  BY SyncKeepsTime
<1> HIDE DEF synced
<1>2. new \in Clock /\ InTime(new)
  BY <1>1, RememberedIsShown, RememberKeepsTime
<1>3. /\ new.running = synced.running /\ new.flagged = synced.flagged
      /\ RememberShown(new).shown = new.shown
  BY <1>1, RememberedIsShown
<1>4. new.flagged # None => Reported(new)
  BY <1>2, <1>3 DEF Reported, InTime
<1>5. ASSUME Reported(clock) \/ Unshown(clock)
      PROVE  /\ clock.running = None /\ new.flagged = clock.flagged /\ clock.flagged # None
             /\ (new.shown # clock.shown) <=> Unshown(clock)
  <2>1. clock.flagged # None /\ clock.running = None
    BY <1>5 DEF Reported, Unshown, InTime
  <2> QED
    BY <1>1, <1>3, <2>1 DEF Unshown
<1>6. KeepsTime(new, clock)
  BY <1>2, <1>4, <1>5 DEF KeepsTime
<1>7. new = Tick(clock, t)
  BY DEF Tick, synced
<1> HIDE DEF new
<1> QED
  BY <1>1, <1>2, <1>3, <1>4, <1>5, <1>6, <1>7 DEF TickChanged

LEMMA PauseKeepsTime ==
    ASSUME NEW clock \in Clock, NEW t \in Nat, InTime(clock)
    PROVE  LET new == Pause(clock, t)
           IN  new \in Clock /\ InTime(new) /\ KeepsTime(new, clock) /\ new.running = None
<1> DEFINE synced == Sync(clock, t)
           stopped == [synced EXCEPT !.running = None]
           new == RememberShown(stopped)
<1>1. /\ synced \in Clock /\ InTime(synced)
      /\ clock.running = None => synced = clock
  BY SyncKeepsTime
<1> HIDE DEF synced
<1>2. /\ stopped \in Clock /\ stopped.running = None /\ stopped.initial = synced.initial
      /\ stopped.flagged = synced.flagged /\ stopped.remaining = synced.remaining
      /\ stopped.shown = synced.shown
  BY <1>1 DEF Clock
<1>3. InTime(stopped)
  BY <1>1, <1>2 DEF InTime
<1> HIDE DEF stopped
<1>4. new \in Clock /\ InTime(new) /\ new.running = None /\ new.flagged = synced.flagged
      /\ RememberShown(new).shown = new.shown
  BY <1>2, <1>3, RememberedIsShown, RememberKeepsTime
<1>5. Reported(clock) => Reported(new)
  BY <1>1, <1>4 DEF Reported
<1>6. new = Pause(clock, t)
  BY DEF Pause, stopped, synced
<1> HIDE DEF new
<1> QED
  BY <1>4, <1>5, <1>6 DEF KeepsTime

LEMMA ResumeKeepsTime ==
    ASSUME NEW clock \in Clock, NEW side \in Sides, NEW t \in Nat,
           InTime(clock), clock.flagged = None
    PROVE  InTime(Resume(clock, side, t))
<1> DEFINE begun == [clock EXCEPT !.flagged = None, !.running = [side |-> side, since |-> t]]
<1>1. CASE clock.initial = None
  BY <1>1 DEF Resume
<1>2. CASE clock.initial # None
  <2>1. /\ begun \in Clock /\ begun.initial = clock.initial
        /\ begun.flagged = None /\ begun.remaining = clock.remaining
        /\ begun.shown = clock.shown
    BY DEF Clock, Running
  <2>2. InTime(begun)
    BY <1>2, <2>1 DEF InTime
  <2> HIDE DEF begun
  <2>3. InTime(RememberShown(begun))
    BY <2>1, <2>2, RememberKeepsTime
  <2> QED
    BY <1>2, <2>3 DEF Resume, begun
<1> QED
  BY <1>1, <1>2

LEMMA CompleteMoveKeepsTime ==
    ASSUME NEW clock \in Clock, NEW mover \in Sides, NEW next \in Sides, NEW t \in Nat,
           InTime(clock)
    PROVE  LET new == CompleteMove(clock, mover, next, t)
           IN  InTime(new) /\ KeepsTime(new, clock)
<1> DEFINE synced == Sync(clock, t)
           handed == [synced EXCEPT !.remaining[mover] = @ + synced.increment,
                                    !.running = [side |-> next, since |-> t]]
<1>1. /\ synced \in Clock /\ InTime(synced) /\ KeepsTime(synced, clock)
      /\ clock.running = None => synced = clock
  BY SyncKeepsTime
<1> HIDE DEF synced
<1>2. CASE synced.flagged # None \/ synced.initial = None
  BY <1>1, <1>2 DEF CompleteMove, synced
<1>3. CASE ~(synced.flagged # None \/ synced.initial = None)
  <2>1. /\ synced.increment \in Nat /\ synced.remaining[mover] \in Nat
        /\ \A s \in Sides : synced.remaining[s] \in Nat
    BY <1>1 DEF Clock
  <2>2. /\ handed \in Clock /\ handed.initial = synced.initial
        /\ handed.flagged = None /\ handed.shown = synced.shown
        /\ \A s \in Sides : handed.remaining[s] =
              IF s = mover THEN synced.remaining[s] + synced.increment ELSE synced.remaining[s]
    <3> DEFINE earned == synced.remaining[mover] + synced.increment
    <3>1. earned \in Nat
      BY <2>1
    <3>2. handed = [synced EXCEPT !.remaining = [@ EXCEPT ![mover] = earned],
                                  !.running = [side |-> next, since |-> t]]
      BY <1>1 DEF Clock
    <3> HIDE DEF handed
    <3>3. [side |-> next, since |-> t] \in Running
      BY DEF Running
    <3> QED
      BY <1>1, <1>3, <3>1, <3>2, <3>3 DEF Clock
  <2> HIDE DEF handed
  <2>3. \A s \in Sides : synced.remaining[s] > 0 /\ synced.shown[s] > 0
    BY <1>1, <1>3 DEF InTime
  <2>4. \A s \in Sides : handed.remaining[s] > 0 /\ handed.shown[s] > 0
    BY <2>1, <2>2, <2>3
  <2>5. InTime(handed)
    BY <1>3, <2>2, <2>4 DEF InTime
  <2>6. InTime(RememberShown(handed))
    BY <2>2, <2>5, RememberKeepsTime
  <2>7. ~Reported(clock)
    BY <1>1, <1>3 DEF Reported
  <2>8. CompleteMove(clock, mover, next, t) = RememberShown(handed)
    BY <1>3 DEF CompleteMove, handed, synced
  <2> QED
    BY <2>6, <2>7, <2>8 DEF KeepsTime
<1> QED
  BY <1>2, <1>3

\* A new clock, paused until the second player is there: nobody asks for a timed
\* game of no time.
LEMMA NewClockIsInTime ==
    ASSUME NEW initial \in (Nat \ {0}) \cup {None}, NEW increment \in Nat,
           NEW side \in Sides, NEW t \in Nat
    PROVE  LET clock == Pause(NewClock(initial, increment, side, t), t)
           IN  clock \in Clock /\ InTime(clock) /\ Idle(clock)
<1> DEFINE new == NewClock(initial, increment, side, t)
<1>1. new \in Clock
  BY NewClockType
<1>2. /\ new.initial = initial /\ new.flagged = None
      /\ new.running = IF initial = None THEN None ELSE [side |-> side, since |-> t]
      /\ initial # None => \A s \in Sides : /\ new.remaining[s] = initial
                                            /\ new.shown[s] = ShownSeconds(initial)
  BY DEF NewClock, InitialTime
<1> HIDE DEF new
<1>3. InTime(new)
  <2>1. initial # None => initial \in Nat /\ initial > 0
    OBVIOUS
  <2>2. initial # None => \A s \in Sides : new.remaining[s] > 0 /\ new.shown[s] > 0
    BY <1>2, <2>1, ShownOfTime
  <2> QED
    BY <1>2, <2>2 DEF InTime
<1>4. Sync(new, t).flagged = None
  <2>1. CASE initial = None
    BY <1>2, <2>1 DEF Sync
  <2>2. CASE initial # None
    <3>1. new.running # None /\ new.running.side = side /\ new.running.since = t
      BY <1>2, <2>2, RunningAssumption DEF Running
    <3>2. SaturatingSub(new.remaining[side], t - t) # 0
      <4>1. t - t = 0 /\ initial - 0 = initial /\ initial \in Nat /\ initial # 0
        BY <2>2
      <4> QED
        BY <1>2, <2>2, <4>1 DEF SaturatingSub
    <3>3. Sync(new, t).flagged =
              IF SaturatingSub(new.remaining[side], t - t) = 0 THEN side ELSE new.flagged
      BY <1>1, <3>1 DEF Sync, Clock
    <3> QED
      BY <1>2, <3>2, <3>3
  <2> QED
    BY <2>1, <2>2
<1>5. Pause(new, t).flagged = Sync(new, t).flagged
  <2>1. Sync(new, t) \in Clock
    BY <1>1, SyncType
  <2>2. [Sync(new, t) EXCEPT !.running = None] \in Clock
    BY <2>1 DEF Clock
  <2> QED
    BY <2>1, <2>2, RememberedIsShown DEF Pause, Clock
<1> QED
  BY <1>1, <1>3, <1>4, <1>5, PauseKeepsTime DEF Idle, new

\* Leaving a seat gives it to nobody else.
LEMMA VacatedJoined ==
    ASSUME NEW room \in Room, NEW side \in Sides, NEW c, NEW t \in Nat
    PROVE  Joined(Vacated(room, side, c, t)) <=> Joined(room)
<1>1. CASE IsConnected(room.seats[side]) /\ room.seats[side].connection = c
  <2> DEFINE slot == [room.seats[side] EXCEPT !.connection = None, !.disconnected_at = t]
             new == [room EXCEPT !.seats = [@ EXCEPT ![side] = slot]]
  <2>1. room.seats[side] \in Slot
    BY <1>1 DEF IsConnected, Room
  <2>2. slot \in Slot /\ slot # None
    BY <2>1, OptionAssumption DEF Slot
  <2>3. Vacated(room, side, c, t) = new
    BY <1>1, <2>1 DEF Vacated, Room, Slot
  <2> HIDE DEF slot, new
  <2>4. new.seats = [room.seats EXCEPT ![side] = slot]
    BY DEF new, Room
  <2> QED
    BY <1>1, <2>2, <2>3, <2>4 DEF IsConnected, Room, Joined
<1>2. CASE ~(IsConnected(room.seats[side]) /\ room.seats[side].connection = c)
  BY <1>2 DEF Vacated
<1> QED
  BY <1>1, <1>2

\* No clock runs, nor has one stopped at its flag, before the second player is there.
Sound(room) == InTime(room.game.clock) /\ (~Joined(room) => Idle(room.game.clock))

RoomsSound == \A g \in OpenGames : Sound(rooms[g])

\* room is what one step made of the room old, as far as its clock goes.
ClockStays(room, old) ==
    Sound(old) => Sound(room) /\ (Reported(old.game.clock) => Reported(room.game.clock))

\* Every room that is there after the step was there, or is new and sound.
ClocksStay ==
    \A g \in GameIds : rooms'[g] # None =>
        IF rooms[g] = None THEN Sound(rooms'[g]) /\ g \notin issued
        ELSE ClockStays(rooms'[g], rooms[g])

LEMMA SoundClock ==
    ASSUME NEW room \in Room
    PROVE  room.game \in GameState /\ room.game.clock \in Clock
BY DEF Room, GameState

LEMMA ClockStaysCompose ==
    ASSUME NEW old, NEW mid, NEW room, ClockStays(mid, old), ClockStays(room, mid)
    PROVE  ClockStays(room, old)
BY DEF ClockStays

\* The same game between other connections.
LEMMA SameClockStays ==
    ASSUME NEW old, NEW room, room.game = old.game, Joined(room) <=> Joined(old)
    PROVE  ClockStays(room, old)
BY DEF ClockStays, Sound

LEMMA SettledClockStays ==
    ASSUME NEW room \in Room, NEW t \in Nat
    PROVE  /\ Settled(room, t) \in Room /\ Settled(room, t).seats = room.seats
           /\ ClockStays(Settled(room, t), room)
<1> DEFINE new == Settled(room, t)
<1>1. new \in Room /\ new.seats = room.seats
  BY SettledKeepsSeats DEF SameSeats
<1>2. new.game.clock = Sync(room.game.clock, t)
  BY DEF Settled, Room, GameState
<1> HIDE DEF new
<1>3. Joined(new) <=> Joined(room)
  BY <1>1 DEF Joined
<1>4. ClockStays(new, room)
  <2> SUFFICES ASSUME Sound(room)
               PROVE  Sound(new) /\ (Reported(room.game.clock) => Reported(new.game.clock))
    BY DEF ClockStays
  <2> QED
    BY <1>2, <1>3, SoundClock, SyncKeepsTime DEF Sound, Idle, KeepsTime
<1> QED
  BY <1>1, <1>4 DEF new

LEMMA TickedClockStays ==
    ASSUME NEW room \in Room, NEW t \in Nat
    PROVE  LET new == [room EXCEPT !.game.clock = Tick(@, t)]
           IN  /\ new \in Room /\ new.seats = room.seats
               /\ new.game.clock = Tick(room.game.clock, t)
               /\ ClockStays(new, room)
<1> DEFINE new == [room EXCEPT !.game.clock = Tick(@, t)]
<1>1. new \in Room /\ new.seats = room.seats
  BY TickedKeepsSeats DEF SameSeats
<1>2. new.game.clock = Tick(room.game.clock, t)
  BY DEF Room, GameState
<1> HIDE DEF new
<1>3. Joined(new) <=> Joined(room)
  BY <1>1 DEF Joined
<1>4. ClockStays(new, room)
  <2> SUFFICES ASSUME Sound(room)
               PROVE  Sound(new) /\ (Reported(room.game.clock) => Reported(new.game.clock))
    BY DEF ClockStays
  <2> QED
    BY <1>2, <1>3, SoundClock, TickKeepsTime DEF Sound, Idle, KeepsTime
<1> QED
  BY <1>1, <1>2, <1>4 DEF new

LEMMA PlayedKeepsTime ==
    ASSUME NEW game \in GameState, NEW move \in MoveKinds, NEW t \in Nat, InTime(game.clock)
    PROVE  LET new == Played(game, move, t).clock
           IN  InTime(new) /\ KeepsTime(new, game.clock)
<1> DEFINE next == Play(game, move, t)
<1>1. next \in GameState /\ next.clock \in Clock
  BY PlayType DEF GameState
<1>2. InTime(next.clock) /\ KeepsTime(next.clock, game.clock)
  <2>1. next.clock = CompleteMove(game.clock, SideToMove(game), Flip(SideToMove(game)), t)
    BY DEF Play, Changed, GameState
  <2>2. SideToMove(game) \in Sides /\ Flip(SideToMove(game)) \in Sides
    BY DEF SideToMove, Flip, Sides, GameState
  <2>3. game.clock \in Clock
    BY DEF GameState
  <2> QED
    BY <2>1, <2>2, <2>3, CompleteMoveKeepsTime
<1> HIDE DEF next
<1>3. /\ InTime(Pause(next.clock, t)) /\ KeepsTime(Pause(next.clock, t), next.clock)
  BY <1>1, <1>2, PauseKeepsTime
<1>4. Played(game, move, t).clock \in {next.clock, Pause(next.clock, t)}
  BY <1>1 DEF Played, next, GameState
<1> QED
  BY <1>2, <1>3, <1>4 DEF KeepsTime

\* A step that gives one room another game.
LEMMA OneClockStays ==
    ASSUME IInv, NEW g \in GameIds, NEW room, ClockStays(room, rooms[g]), rooms[g] # None,
           rooms' = [rooms EXCEPT ![g] = room]
    PROVE  ClocksStay
<1>1. rooms'[g] = room /\ \A h \in GameIds : h # g => rooms'[h] = rooms[h]
  BY DEF IInv, TypeOK
<1>2. \A h \in GameIds : h # g => ClockStays(rooms'[h], rooms[h])
  BY <1>1 DEF ClockStays
<1> QED
  BY <1>1, <1>2 DEF ClocksStay

LEMMA SettledRoomStays ==
    ASSUME IInv, NEW g \in GameIds, rooms[g] # None, NEW room \in Room, NEW t \in Nat,
           ClockStays(room, rooms[g]), rooms' = [rooms EXCEPT ![g] = Settled(room, t)]
    PROVE  ClocksStay
<1>1. ClockStays(Settled(room, t), rooms[g])
  BY SettledClockStays, ClockStaysCompose
<1> QED
  BY <1>1, OneClockStays

LEMMA SameRoomsStay ==
    ASSUME rooms' = rooms
    PROVE  ClocksStay
BY DEF ClocksStay, ClockStays

LEMMA CreateGameClocks ==
    ASSUME IInv, NEW c \in Connections, NEW name_ok \in BOOLEAN, NEW tc \in TimeControls,
           CreateGame(c, name_ok, tc)
    PROVE  ClocksStay
<1>1. CASE Refuse(c, "InvalidRequest")
  BY <1>1, SameRoomsStay DEF Refuse
<1>2. CASE ~Refuse(c, "InvalidRequest")
  <2> DEFINE game == NewGame("white", tc.initial, tc.increment, now)
             begun == [game EXCEPT !.clock = Pause(@, now)]
             room(k) == [invite_code |-> k, game |-> begun,
                         seats |-> [s \in Sides |-> IF s = "white"
                                                    THEN NewSlot(identities[c], c) ELSE None],
                         started_at |-> 0, finished_at |-> None]
  <2>1. PICK g \in GameIds \ issued, k \in Codes : rooms' = [rooms EXCEPT ![g] = room(k)]
    BY <1>2 DEF CreateGame
  <2>2. rooms[g] = None
    BY <2>1 DEF IInv, TypeOK, MapsAgree, RoomsWereIssued, OpenGames
  <2>3. /\ tc.initial \in (Nat \ {0}) \cup {None} /\ tc.increment \in Nat /\ now \in Nat
        /\ "white" \in Sides
    BY HubAssumption DEF IInv, TypeOK, Sides
  <2>4. game \in GameState /\ game.clock = NewClock(tc.initial, tc.increment, "white", now)
    BY <2>3, NewGameType DEF NewGame
  <2> HIDE DEF game
  <2>5. begun.clock = Pause(NewClock(tc.initial, tc.increment, "white", now), now)
    BY <2>4 DEF GameState
  <2>6. InTime(begun.clock) /\ Idle(begun.clock)
    BY <2>3, <2>5, NewClockIsInTime
  <2> HIDE DEF begun
  <2>7. Sound(room(k))
    BY <2>6 DEF Sound
  <2>8. rooms'[g] = room(k) /\ \A h \in GameIds : h # g => rooms'[h] = rooms[h]
    BY <2>1 DEF IInv, TypeOK
  <2>9. \A h \in GameIds : h # g => ClockStays(rooms'[h], rooms[h])
    BY <2>8 DEF ClockStays
  <2> HIDE DEF room
  <2> QED
    BY <2>1, <2>2, <2>7, <2>8, <2>9 DEF ClocksStay
<1> QED
  BY <1>1, <1>2

LEMMA JoinGameClocks ==
    ASSUME IInv, NEW c \in Connections, NEW name_ok \in BOOLEAN, NEW k \in Codes,
           JoinGame(c, name_ok, k)
    PROVE  ClocksStay
<1>1. CASE \E code : Refuse(c, code)
  BY <1>1, SameRoomsStay DEF Refuse
<1>2. CASE ~\E code : Refuse(c, code)
  <2> DEFINE g == invites[k]
             old == rooms[g]
             room == [old EXCEPT !.seats["black"] = NewSlot(identities[c], c),
                                 !.started_at = now, !.game = Begun(@, now)]
  <2>1. /\ g # None /\ ~Joined(old) /\ now \in Nat
        /\ rooms' = [rooms EXCEPT ![g] = Settled(room, now)]
    BY <1>2 DEF JoinGame, IInv, TypeOK
  <2>2. g \in GameIds /\ old # None /\ old \in Room
    BY <2>1 DEF IInv, TypeOK, MapsAgree, InvitesMatchRooms
  <2>3. /\ old.game \in GameState /\ old.game.clock \in Clock
        /\ Resume(old.game.clock, "white", now) \in Clock
    BY <2>1, <2>2, SoundClock, ResumeType DEF Sides
  <2>4. /\ Begun(old.game, now) \in GameState
        /\ Begun(old.game, now).clock = Resume(old.game.clock, "white", now)
    <3> DEFINE game == [old.game EXCEPT !.clock = Resume(@, "white", now)]
    <3>1. game \in GameState /\ game.clock = Resume(old.game.clock, "white", now)
      BY <2>3 DEF GameState
    <3>2. Begun(old.game, now) = Changed(game)
      BY DEF Begun
    <3> HIDE DEF game
    <3> QED
      BY <3>1, <3>2, ChangedType DEF Changed, GameState
  <2>5. room \in Room /\ room.game = Begun(old.game, now) /\ Joined(room)
    BY <2>1, <2>2, <2>4, NewSlotType DEF Room, Sides, Joined
  <2> HIDE DEF g, old, room
  <2>6. ClockStays(room, old)
    <3> SUFFICES ASSUME Sound(old)
                 PROVE  Sound(room) /\ (Reported(old.game.clock) => Reported(room.game.clock))
      BY DEF ClockStays
    <3>1. InTime(old.game.clock) /\ old.game.clock.flagged = None
      BY <2>1 DEF Sound, Idle
    <3>2. InTime(room.game.clock)
      BY <2>1, <2>3, <2>4, <2>5, <3>1, ResumeKeepsTime DEF Sides
    <3> QED
      BY <2>5, <3>1, <3>2 DEF Sound, Reported
  <2> QED
    BY <2>1, <2>2, <2>5, <2>6, SettledRoomStays DEF old
<1> QED
  BY <1>1, <1>2

LEMMA ReconnectClocks ==
    ASSUME IInv, NEW c \in Connections, NEW g \in GameIds, NEW token,
           Reconnect(c, g, token)
    PROVE  ClocksStay
<1>1. CASE \E code : Refuse(c, code)
  BY <1>1, SameRoomsStay DEF Refuse
<1>2. CASE ~\E code : Refuse(c, code)
  <2>1. PICK side \in Sides :
            /\ rooms[g] # None /\ rooms[g].seats[side] # None
            /\ rooms' = [rooms EXCEPT ![g] = Settled(Reseated(rooms[g], side, c), now)]
    BY <1>2 DEF Reconnect
  <2> DEFINE room == Reseated(rooms[g], side, c)
  <2>2. rooms[g] \in Room /\ rooms[g].seats[side] \in Slot /\ now \in Nat
    BY <2>1 DEF IInv, TypeOK, Room
  <2>3. room \in Room /\ room.game = rooms[g].game
    BY <2>2, NewSlotType DEF Reseated, Room, Slot, Sides
  <2>4. room.seats["black"] # None <=> rooms[g].seats["black"] # None
    BY <2>1, <2>2, OptionAssumption, NewSlotType DEF Reseated, Room, Slot, Sides
  <2> HIDE DEF room
  <2>5. ClockStays(room, rooms[g])
    BY <2>3, <2>4, SameClockStays DEF Joined
  <2>6. rooms' = [rooms EXCEPT ![g] = Settled(room, now)]
    BY <2>1 DEF room
  <2> QED
    BY <2>1, <2>2, <2>3, <2>5, <2>6, SettledRoomStays
<1> QED
  BY <1>1, <1>2

LEMMA DecisionClocks ==
    ASSUME IInv, NEW c \in Connections, NEW g \in GameIds, NEW accept \in BOOLEAN,
           OfferDraw(c, g) \/ RespondDraw(c, g, accept) \/ Resign(c, g)
    PROVE  ClocksStay
<1> DEFINE old == rooms[g]
           offered == Changed([old.game EXCEPT !.draw_offer = memberships[c].side])
           answered == Answered(old.game, accept, now)
           resigned == Resigned(old.game, memberships[c].side, now)
<1>1. CASE \E code : Refuse(c, code)
  BY <1>1, SameRoomsStay DEF Refuse
<1>2. CASE ~\E code : Refuse(c, code)
  <2>1. /\ IsMember(c, g) /\ IsActive(old)
        /\ \E game \in {offered, answered, resigned} :
              rooms' = [rooms EXCEPT ![g] = Settled([old EXCEPT !.game = game], now)]
    BY <1>2 DEF OfferDraw, RespondDraw, Resign, RefuseStranger, Publish, MayAnswerDraw
  <2>2. /\ old \in Room /\ old # None
        /\ memberships[c].side \in Sides /\ now \in Nat
    BY <2>1, MembersHaveRooms DEF IInv, TypeOK
  <2>3. old.game \in GameState /\ old.game.clock \in Clock /\ Joined(old)
    BY <2>1, <2>2, SoundClock DEF IsActive
  <2> HIDE DEF old
  <2>4. offered \in GameState /\ offered.clock = old.game.clock
    <3> DEFINE game == [old.game EXCEPT !.draw_offer = memberships[c].side]
    <3>1. game \in GameState /\ game.clock = old.game.clock
      BY <2>2, <2>3 DEF GameState
    <3>2. offered = Changed(game)
      OBVIOUS
    <3> HIDE DEF game, offered
    <3> QED
      BY <3>1, <3>2, ChangedType DEF Changed, GameState
  <2>5. answered \in GameState /\ resigned \in GameState
    BY <2>2, <2>3, AnsweredType, ResignedType
  <2>6. /\ answered.clock \in {old.game.clock, Pause(old.game.clock, now)}
        /\ resigned.clock = Pause(old.game.clock, now)
    BY <2>3 DEF Answered, Resigned, Changed, GameState
  <2> HIDE DEF offered, answered, resigned
  <2>7. PICK game \in GameState :
            /\ game.clock \in {old.game.clock, Pause(old.game.clock, now)}
            /\ rooms' = [rooms EXCEPT ![g] = Settled([old EXCEPT !.game = game], now)]
    BY <2>1, <2>4, <2>5, <2>6
  <2> DEFINE room == [old EXCEPT !.game = game]
  <2>8. room \in Room /\ room.game = game /\ room.seats = old.seats
    BY <2>2, <2>7 DEF Room
  <2>9. rooms' = [rooms EXCEPT ![g] = Settled(room, now)]
    BY <2>7
  <2> HIDE DEF room
  <2>10. ClockStays(room, old)
    <3> SUFFICES ASSUME Sound(old)
                 PROVE  Sound(room) /\ (Reported(old.game.clock) => Reported(room.game.clock))
      BY DEF ClockStays
    <3>1. /\ InTime(old.game.clock)
          /\ InTime(Pause(old.game.clock, now))
          /\ Reported(old.game.clock) => Reported(Pause(old.game.clock, now))
      BY <2>2, <2>3, PauseKeepsTime DEF Sound, KeepsTime
    <3>2. Joined(room)
      BY <2>3, <2>8 DEF Joined
    <3> QED
      BY <2>7, <2>8, <3>1, <3>2 DEF Sound
  <2> QED
    BY <2>2, <2>8, <2>9, <2>10, SettledRoomStays DEF old
<1> QED
  BY <1>1, <1>2

LEMMA PlayMoveClocks ==
    ASSUME IInv, NEW c \in Connections, NEW g \in GameIds, NEW ply, NEW move,
           NEW later \in Nat, PlayMove(c, g, ply, move, later)
    PROVE  ClocksStay
<1>1. CASE RefuseStranger(c, g)
  BY <1>1, SameRoomsStay DEF RefuseStranger, Refuse
<1>2. CASE IsMember(c, g) /\ ~RefuseStranger(c, g)
  <2> DEFINE ticked == [rooms[g] EXCEPT !.game.clock = Tick(@, now)]
             reason == Rejection(ticked, memberships[c].side, ply, move)
             played == [ticked EXCEPT !.game = Played(@, move, later)]
  <2>1. rooms[g] \in Room /\ rooms[g] # None /\ now \in Nat
    BY <1>2, MembersHaveRooms DEF IInv, TypeOK
  <2>2. ticked \in Room /\ ClockStays(ticked, rooms[g])
    BY <2>1, TickedClockStays
  <2>3. \/ rooms' = [rooms EXCEPT ![g] = Settled(ticked, later)]
        \/ reason = None /\ rooms' = [rooms EXCEPT ![g] = Settled(played, later)]
    BY <1>2 DEF PlayMove, Publish
  <2>4. ASSUME reason = None
        PROVE  played \in Room /\ ClockStays(played, rooms[g])
    <3>1. move \in MoveKinds /\ IsActive(ticked)
      BY <2>4, OptionAssumption DEF Rejection, Reasons
    <3> DEFINE game == Played(ticked.game, move, later)
    <3> HIDE DEF ticked
    <3>2. ticked.game \in GameState /\ game \in GameState
      BY <2>2, <3>1, PlayedType, SoundClock
    <3>3. played \in Room /\ played.game = game /\ played.seats = ticked.seats
      BY <2>2, <3>2 DEF Room
    <3>4. InTime(ticked.game.clock) => InTime(game.clock) /\ KeepsTime(game.clock, ticked.game.clock)
      BY <3>1, <3>2, PlayedKeepsTime
    <3> HIDE DEF game, played
    <3>5. Joined(ticked) /\ Joined(played)
      BY <3>1, <3>3 DEF IsActive, Joined
    <3>6. ClockStays(played, ticked)
      BY <3>3, <3>4, <3>5 DEF ClockStays, Sound, KeepsTime
    <3> QED
      BY <2>2, <3>3, <3>6, ClockStaysCompose
  <2> HIDE DEF ticked, reason, played
  <2> QED
    BY <2>1, <2>2, <2>3, <2>4, SettledRoomStays
<1> QED
  BY <1>1, <1>2 DEF PlayMove

LEMMA DisconnectClocks ==
    ASSUME IInv, NEW c \in Connections, Disconnect(c)
    PROVE  ClocksStay
<1>1. CASE rooms' = rooms
  BY <1>1, SameRoomsStay
<1>2. CASE rooms' # rooms
  <2> DEFINE g == memberships[c].game_id
             side == memberships[c].side
             room == Vacated(rooms[g], side, c, now)
  <2>1. memberships[c] # None /\ rooms' = [rooms EXCEPT ![g] = room]
    BY <1>2 DEF Disconnect
  <2>2. /\ g \in GameIds /\ rooms[g] # None /\ rooms[g] \in Room
        /\ side \in Sides /\ now \in Nat
    BY <2>1, MembersHaveRooms DEF IsMember, IInv, TypeOK
  <2>3. room.game = rooms[g].game
    BY <2>2 DEF Vacated, Room
  <2>4. Joined(room) <=> Joined(rooms[g])
    BY <2>2, VacatedJoined
  <2> HIDE DEF g, side, room
  <2>5. ClockStays(room, rooms[g])
    BY <2>3, <2>4, SameClockStays
  <2> QED
    BY <2>1, <2>2, <2>5, OneClockStays
<1> QED
  BY <1>1, <1>2

LEMMA TickAtClocks ==
    ASSUME IInv, TickAt
    PROVE  ClocksStay
<1> SUFFICES ASSUME NEW g \in GameIds, rooms'[g] # None
             PROVE  rooms[g] # None /\ ClockStays(rooms'[g], rooms[g])
  BY DEF ClocksStay
<1>1. /\ rooms[g] # None /\ rooms'[g] = TickedRoom(rooms[g], now)
      /\ rooms[g] \in Room /\ now \in Nat
  BY DEF TickAt, OpenGames, IInv, TypeOK
<1> DEFINE old == rooms[g]
           ticked == [old EXCEPT !.game.clock = Tick(@, now)]
           left(side) == Abandoned(ticked.game, side, now)
<1>2. ticked \in Room /\ ticked.seats = old.seats /\ ClockStays(ticked, old)
  BY <1>1, TickedClockStays
<1>3. Enforced(old, now) \in Room /\ Enforced(old, now).seats = old.seats
  BY <1>1, EnforcedKeepsSeats DEF SameSeats
<1>4. \/ Enforced(old, now) = ticked
      \/ IsActive(old) /\ \E side : Enforced(old, now) = [ticked EXCEPT !.game = left(side)]
  BY DEF Enforced, Forfeiters
<1> HIDE DEF ticked
<1>5. ticked.game \in GameState /\ ticked.game.clock \in Clock
  BY <1>2, SoundClock
<1>6. \A side : left(side).clock = Pause(ticked.game.clock, now)
  BY <1>5 DEF Abandoned, Changed, GameState
<1> HIDE DEF left
<1>7. ClockStays(Enforced(old, now), ticked)
  <2>1. CASE Enforced(old, now) = ticked
    BY <2>1 DEF ClockStays
  <2>2. CASE IsActive(old) /\ \E side : Enforced(old, now) = [ticked EXCEPT !.game = left(side)]
    <3> DEFINE new == Enforced(old, now)
    <3>1. new.game.clock = Pause(ticked.game.clock, now)
      BY <1>2, <1>6, <2>2 DEF Room
    <3>2. Joined(new) /\ Joined(ticked)
      BY <1>2, <1>3, <2>2 DEF IsActive, Joined
    <3> HIDE DEF new
    <3> SUFFICES ASSUME Sound(ticked)
                 PROVE  Sound(new) /\ (Reported(ticked.game.clock) => Reported(new.game.clock))
      BY DEF ClockStays, new
    <3> QED
      BY <1>1, <1>5, <3>1, <3>2, PauseKeepsTime DEF Sound, KeepsTime
  <2> QED
    BY <1>4, <2>1, <2>2
<1>8. /\ TickedRoom(old, now).game = Enforced(old, now).game
      /\ TickedRoom(old, now).seats = Enforced(old, now).seats
  BY <1>3 DEF TickedRoom, Room
<1>9. ClockStays(TickedRoom(old, now), Enforced(old, now))
  BY <1>8, SameClockStays DEF Joined
<1> QED
  BY <1>1, <1>2, <1>7, <1>9, ClockStaysCompose

LEMMA EncodeClocks ==
    ASSUME IInv, EncodeIfDirty
    PROVE  ClocksStay
<1> SUFFICES ASSUME NEW g \in GameIds, rooms'[g] # None
             PROVE  rooms[g] # None /\ ClockStays(rooms'[g], rooms[g])
  BY DEF ClocksStay
<1>1. rooms[g] # None /\ rooms'[g] = Settled(rooms[g], now)
  BY DEF EncodeIfDirty
<1>2. rooms[g] \in Room /\ now \in Nat
  BY <1>1 DEF IInv, TypeOK
<1> QED
  BY <1>1, <1>2, SettledClockStays

LEMMA NextClocks ==
    ASSUME IInv, Next
    PROVE  ClocksStay
<1>1. ASSUME NEW c \in Connections, Disconnect(c)  PROVE ClocksStay
  BY <1>1, DisconnectClocks
<1>2. ASSUME NEW c \in Connections, GameRequest(c)  PROVE ClocksStay
  <2>1. ASSUME NEW name_ok \in BOOLEAN, NEW tc \in TimeControls, CreateGame(c, name_ok, tc)
        PROVE  ClocksStay
    BY <2>1, CreateGameClocks
  <2>2. ASSUME NEW name_ok \in BOOLEAN, NEW k \in Codes, JoinGame(c, name_ok, k)
        PROVE  ClocksStay
    BY <2>2, JoinGameClocks
  <2>3. ASSUME NEW g \in GameIds, NEW token \in Tokens, Reconnect(c, g, token)
        PROVE  ClocksStay
    BY <2>3, ReconnectClocks
  <2>4. ASSUME NEW g \in GameIds, NEW ply \in 0..MaxPly,
               NEW move \in MoveKinds \cup {"illegal"}, NEW later \in now..MaxTime,
               PlayMove(c, g, ply, move, later)
        PROVE  ClocksStay
    <3>1. later \in Nat
      BY HubAssumption DEF IInv, TypeOK
    <3> QED
      BY <2>4, <3>1, PlayMoveClocks
  <2>5. ASSUME NEW g \in GameIds, NEW accept \in BOOLEAN,
               OfferDraw(c, g) \/ RespondDraw(c, g, accept) \/ Resign(c, g)
        PROVE  ClocksStay
    BY <2>5, DecisionClocks
  <2> QED
    BY <1>2, <2>1, <2>2, <2>3, <2>4, <2>5 DEF GameRequest
<1>3. CASE TickAt
  BY <1>3, TickAtClocks
<1>4. CASE EncodeIfDirty
  BY <1>4, EncodeClocks
<1>5. CASE \/ Connect \/ TakeFinishedGames \/ AdvanceTime
           \/ \E c \in Connections, user \in Users : SignIn(c, user)
           \/ \E c \in Connections : SignOut(c)
  BY <1>5, SameRoomsStay DEF Connect, TakeFinishedGames, AdvanceTime, SignIn, SignOut
<1> QED
  BY <1>1, <1>2, <1>3, <1>4, <1>5 DEF Next

LEMMA NextKeepsSound ==
    ASSUME RoomsSound, ClocksStay
    PROVE  RoomsSound'
BY DEF RoomsSound, ClocksStay, ClockStays, OpenGames

-----------------------------------------------------------------------------
(* What the players have been told                                         *)

\* room is old, up to a flag that has fallen.
Same(old, room) ==
    /\ room.game.revision = old.game.revision
    /\ room.game.moves = old.game.moves
    /\ room.game.draw_offer = old.game.draw_offer
    /\ RoomStatus(room) = RoomStatus(old) \/ RoomStatus(room).kind = "timeout"

\* Nor is a fallen flag lost on the next tick.
Still(old, room) ==
    /\ Same(old, room)
    /\ Unshown(old.game.clock) \/ RoomStatus(room) # RoomStatus(old) => Unshown(room.game.clock)

\* seen is what there is to see of room from side, up to a flag that has fallen
\* and that the next tick finds, or that a move of the opponent has found.
UpToDate(seen, room, side, hush) ==
    /\ seen.revision = room.game.revision
    /\ seen.moves = Len(room.game.moves)
    /\ seen.draw_offer = room.game.draw_offer
    /\ seen.status # RoomStatus(room) =>
          /\ RoomStatus(room).kind = "timeout"
          /\ Unshown(room.game.clock) \/ hush = {Flip(side)}

MembersUpToDate ==
    \A c \in Connections : memberships[c] # None =>
        LET g == memberships[c].game_id
        IN  UpToDate(told[c], rooms[g], memberships[c].side, hushed[g])

\* Who was hushed has seen a flag down that no tick will find.
HushedIsReported ==
    \A g \in GameIds : hushed[g] # {} =>
        /\ g \in issued
        /\ rooms[g] # None => Reported(rooms[g].game.clock)

\* Whoever hears nothing of g from this step sees nothing change, or only the flag
\* that the opponent's move has found.
Kept(g, room, side) ==
    \/ Still(rooms[g], room) /\ HushedBy(g, deliveries') = {}
    \/ Same(rooms[g], room) /\ hushed[g] \cup HushedBy(g, deliveries') = {Flip(side)}

\* Who is in a game after the step hears of it as it is, or hears nothing and was
\* in it before.
Tells ==
    \A c \in Connections : memberships'[c] # None =>
        LET g == memberships'[c].game_id
        IN  /\ \A d \in NewsFor(c, deliveries') : d.snapshot = Snapshot(rooms'[g])
            /\ NewsFor(c, deliveries') = {} =>
                   memberships[c] = memberships'[c] /\ Kept(g, rooms'[g], memberships[c].side)

\* No move is rejected.
Unhushed == \A d \in deliveries' : d.event # "MoveRejected"

LEMMA UnhushedHushesNobody ==
    ASSUME Unhushed, NEW g
    PROVE  HushedBy(g, deliveries') = {}
BY DEF Unhushed, HushedBy

LEMMA StillIsKept ==
    ASSUME NEW g, NEW room, NEW side, Still(rooms[g], room), Unhushed
    PROVE  Kept(g, room, side)
BY UnhushedHushesNobody DEF Kept

\* All news is of a room as it is after the step, and for somebody in it.
NewsIsTrue ==
    \A d \in deliveries' : d.event \in NewsEvents =>
        /\ d.game_id \in GameIds /\ rooms'[d.game_id] # None
        /\ d.snapshot = Snapshot(rooms'[d.game_id])
        /\ d.target \in Targets(rooms'[d.game_id])

LEMMA TellingKeepsUpToDate ==
    ASSUME IInv', MembersUpToDate, Tells, Listen
    PROVE  MembersUpToDate'
<1> SUFFICES ASSUME NEW c \in Connections, memberships'[c] # None
             PROVE  LET g == memberships'[c].game_id
                    IN  UpToDate(told'[c], rooms'[g], memberships'[c].side, hushed'[g])
  BY DEF MembersUpToDate, UpToDate
<1> DEFINE g == memberships'[c].game_id
           side == memberships'[c].side
           news == NewsFor(c, deliveries')
<1>1. /\ \A d \in news : d.snapshot = Snapshot(rooms'[g])
      /\ news = {} => memberships[c] = memberships'[c] /\ Kept(g, rooms'[g], memberships[c].side)
  BY DEF Tells
<1>2. told'[c] = IF news = {} THEN told[c] ELSE (CHOOSE d \in news : TRUE).snapshot
  BY DEF Listen
<1>3. hushed'[g] = hushed[g] \cup HushedBy(g, deliveries')
  <2>1. g \in GameIds
    BY DEF IInv, TypeOK, Membership
  <2> QED
    BY <2>1 DEF Listen
<1> HIDE DEF news
<1>4. CASE news = {}
  <2>1. memberships[c] = memberships'[c] /\ Kept(g, rooms'[g], side)
    BY <1>1, <1>4
  <2>2. UpToDate(told[c], rooms[g], side, hushed[g])
    BY <2>1 DEF MembersUpToDate
  <2> HIDE DEF g, side
  <2>3. UpToDate(told[c], rooms'[g], side, hushed'[g])
    BY <1>3, <2>1, <2>2 DEF UpToDate, Kept, Still, Same
  <2> QED
    BY <1>2, <1>4, <2>3 DEF g, side
<1>5. CASE news # {}
  <2>1. (CHOOSE d \in news : TRUE) \in news
    BY <1>5
  <2>2. told'[c] = Snapshot(rooms'[g])
    BY <1>1, <1>2, <1>5, <2>1
  <2> HIDE DEF g, side
  <2>3. UpToDate(Snapshot(rooms'[g]), rooms'[g], side, hushed'[g])
    BY DEF UpToDate, Snapshot
  <2> QED
    BY <2>2, <2>3 DEF g, side
<1> QED
  BY <1>4, <1>5

LEMMA StillIsTransitive ==
    ASSUME NEW old, NEW mid, NEW room, Still(old, mid), Still(mid, room)
    PROVE  Still(old, room)
BY DEF Still, Same

\* A clock may show that a flag has fallen, which decides only games that
\* nothing else has.
LEMMA ClockIsStill ==
    ASSUME NEW old \in Room, NEW room \in Room, Joined(room) <=> Joined(old),
           room.game = [old.game EXCEPT !.clock = room.game.clock],
           room.game.clock.flagged = old.game.clock.flagged
               \/ room.game.clock.flagged # None
    PROVE  /\ Same(old, room)
           /\ room.game.clock.flagged = old.game.clock.flagged => RoomStatus(room) = RoomStatus(old)
<1>1. old.game \in GameState
  BY DEF Room
<1>2. /\ room.game.revision = old.game.revision /\ room.game.moves = old.game.moves
      /\ room.game.draw_offer = old.game.draw_offer /\ room.game.start = old.game.start
      /\ room.game.resigned = old.game.resigned /\ room.game.abandoned = old.game.abandoned
      /\ room.game.agreed_draw = old.game.agreed_draw
  BY <1>1 DEF GameState
<1>3. CASE room.game.clock.flagged = old.game.clock.flagged
  <2>1. SameVerdict(room.game, old.game)
    BY <1>2, <1>3 DEF SameVerdict
  <2>2. RoomStatus(room) = RoomStatus(old)
    BY <2>1, SameVerdictSameOutcome DEF RoomStatus
  <2> QED
    BY <1>2, <2>2 DEF Same
<1>4. CASE room.game.clock.flagged # None /\ room.game.clock.flagged # old.game.clock.flagged
  <2>1. room.game \in GameState /\ IsOver(room.game)
    BY <1>4, DecidedIsOver DEF Room
  <2>2. \/ Outcome(room.game).kind = "timeout"
        \/ /\ Outcome(room.game) = Outcome(old.game)
           /\ old.game.resigned # None \/ old.game.agreed_draw
    BY <1>2, <1>4 DEF Outcome, Result
  <2>3. old.game.resigned # None \/ old.game.agreed_draw => IsOver(old.game)
    BY <1>1, DecidedIsOver
  <2>4. RoomStatus(room) = RoomStatus(old) \/ RoomStatus(room).kind = "timeout"
    BY <2>1, <2>2, <2>3 DEF RoomStatus
  <2> QED
    BY <1>2, <1>4, <2>4 DEF Same
<1> QED
  BY <1>3, <1>4

LEMMA SyncFlags ==
    ASSUME NEW clock \in Clock, NEW t \in Nat
    PROVE  /\ Sync(clock, t).flagged = clock.flagged \/ Sync(clock, t).flagged # None
           /\ Tick(clock, t).flagged = Sync(clock, t).flagged
<1>1. Sync(clock, t).flagged = clock.flagged \/ Sync(clock, t).flagged # None
  BY NoneAssumption DEF Sync, Clock, Running
<1>2. Sync(clock, t) \in Clock
  BY SyncType
<1>3. Tick(clock, t).flagged = Sync(clock, t).flagged
  BY <1>2, RememberShownSameTime DEF Tick, SameTime
<1> QED
  BY <1>1, <1>3

LEMMA SettledIsStill ==
    ASSUME NEW room \in Room, NEW t \in Nat, InTime(room.game.clock)
    PROVE  Still(room, Settled(room, t))
<1> DEFINE new == Settled(room, t)
<1>1. new \in Room /\ new.seats = room.seats
  BY SettledKeepsSeats DEF SameSeats
<1>2. /\ new.game = [room.game EXCEPT !.clock = new.game.clock]
      /\ new.game.clock = Sync(room.game.clock, t)
  BY DEF Settled, Room, GameState
<1>3. room.game.clock \in Clock
  BY DEF Room, GameState
<1> HIDE DEF new
<1>4. new.game.clock.flagged = room.game.clock.flagged \/ new.game.clock.flagged # None
  BY <1>2, <1>3, SyncFlags
<1>5. /\ new.game.clock.flagged # room.game.clock.flagged => Unshown(new.game.clock)
      /\ Unshown(room.game.clock) => Unshown(new.game.clock)
  BY <1>2, <1>3, SyncKeepsTime
<1>6. /\ Same(room, new)
      /\ new.game.clock.flagged = room.game.clock.flagged => RoomStatus(new) = RoomStatus(room)
  BY <1>1, <1>2, <1>4, ClockIsStill DEF Joined
<1>7. Still(room, new)
  BY <1>5, <1>6 DEF Still
<1> QED
  BY <1>7 DEF new

LEMMA TickedClockIsSame ==
    ASSUME NEW room \in Room, NEW t \in Nat
    PROVE  LET ticked == [room EXCEPT !.game.clock = Tick(@, t)]
           IN  /\ Same(room, ticked)
               /\ ticked.game.clock.flagged = room.game.clock.flagged =>
                     RoomStatus(ticked) = RoomStatus(room)
<1> DEFINE ticked == [room EXCEPT !.game.clock = Tick(@, t)]
<1>1. ticked \in Room /\ ticked.seats = room.seats
  BY TickedKeepsSeats DEF SameSeats
<1>2. /\ ticked.game = [room.game EXCEPT !.clock = ticked.game.clock]
      /\ ticked.game.clock = Tick(room.game.clock, t)
  BY DEF Room, GameState
<1>3. room.game.clock \in Clock
  BY DEF Room, GameState
<1> HIDE DEF ticked
<1>4. \/ ticked.game.clock.flagged = room.game.clock.flagged
      \/ ticked.game.clock.flagged # None
  BY <1>2, <1>3, SyncFlags
<1>5. /\ Same(room, ticked)
      /\ ticked.game.clock.flagged = room.game.clock.flagged =>
            RoomStatus(ticked) = RoomStatus(room)
  BY <1>1, <1>2, <1>4, ClockIsStill DEF Joined
<1> QED
  BY <1>5 DEF ticked

\* A tick that no absent player pays for and that finds nothing to show.
LEMMA TickedRoomIsStill ==
    ASSUME NEW room \in Room, NEW t \in Nat, InTime(room.game.clock), ~RoomTickChanged(room, t)
    PROVE  Still(room, TickedRoom(room, t))
<1> DEFINE ticked == [room EXCEPT !.game.clock = Tick(@, t)]
<1>1. Forfeiters(room, t) = {} /\ ~TickChanged(room.game.clock, t)
  BY DEF RoomTickChanged
<1>2. /\ ticked \in Room /\ ticked.seats = room.seats /\ Same(room, ticked)
      /\ ticked.game.clock = Tick(room.game.clock, t)
      /\ ticked.game.clock.flagged = room.game.clock.flagged =>
            RoomStatus(ticked) = RoomStatus(room)
  BY TickedClockStays, TickedClockIsSame
<1>3. Enforced(room, t) = ticked
  BY <1>1 DEF Enforced
<1> HIDE DEF ticked
<1>4. /\ TickedRoom(room, t).seats = room.seats
      /\ TickedRoom(room, t).game = ticked.game
  BY <1>2, <1>3 DEF TickedRoom, Room
<1>5. ticked.game.clock.flagged = room.game.clock.flagged /\ ~Unshown(room.game.clock)
  BY <1>1, <1>2, SoundClock, TickKeepsTime DEF TickChanged
<1>6. Still(room, ticked)
  BY <1>2, <1>5 DEF Still
<1> QED
  BY <1>4, <1>6, <1>2 DEF Still, Same, RoomStatus, Joined

\* Who is in a game after a step sits in its room, and nobody else does.
LEMMA SeatedAfterwards ==
    ASSUME IInv', NEW c \in Connections
    PROVE  /\ memberships'[c] # None =>
                  LET g == memberships'[c].game_id
                  IN  /\ g \in GameIds /\ rooms'[g] # None /\ rooms'[g] \in Room
                      /\ c \in Targets(rooms'[g])
           /\ \A g \in GameIds : rooms'[g] # None /\ c \in Targets(rooms'[g]) =>
                  memberships'[c] # None /\ memberships'[c].game_id = g
<1>1. ASSUME memberships'[c] # None
      PROVE  LET g == memberships'[c].game_id
             IN  /\ g \in GameIds /\ rooms'[g] # None /\ rooms'[g] \in Room
                 /\ c \in Targets(rooms'[g])
  <2>1. memberships'[c] \in Membership
    BY <1>1 DEF IInv, TypeOK
  <2>2. PICK g \in GameIds, side \in Sides : memberships'[c] = [game_id |-> g, side |-> side]
    BY <2>1 DEF Membership
  <2> QED
    BY <2>2, MemberHearsOfItsRoom
<1>2. ASSUME NEW g \in GameIds, rooms'[g] # None, c \in Targets(rooms'[g])
      PROVE  memberships'[c] # None /\ memberships'[c].game_id = g
  <2>1. rooms'[g] \in Room
    BY <1>2 DEF IInv, TypeOK
  <2>2. PICK side \in Sides : /\ rooms'[g].seats[side] # None
                              /\ rooms'[g].seats[side].connection = c
    BY <1>2, <2>1, TargetsAreSeated
  <2>3. memberships'[c] = [game_id |-> g, side |-> side]
    BY <1>2, <2>2 DEF IInv, MapsAgree, SeatsMatchMemberships, SitsAt
  <2> QED
    BY <2>3, OptionAssumption DEF Membership
<1> QED
  BY <1>1, <1>2

\* A step that sends no news.
LEMMA SilenceTells ==
    ASSUME IInv, IInv',
           \A d \in deliveries' : d.event \notin NewsEvents,
           \A c \in Connections : memberships'[c] \in {memberships[c], None},
           \A g \in GameIds : rooms[g] # None /\ rooms'[g] # None => Still(rooms[g], rooms'[g])
    PROVE  Tells /\ NewsIsTrue
<1> SUFFICES ASSUME NEW c \in Connections, memberships'[c] # None
             PROVE  LET g == memberships'[c].game_id
                    IN  memberships[c] = memberships'[c] /\ Kept(g, rooms'[g], memberships[c].side)
  BY DEF Tells, NewsFor, NewsIsTrue
<1> DEFINE g == memberships'[c].game_id
<1>1. memberships[c] = memberships'[c] /\ IsMember(c, g)
  BY DEF IsMember
<1>2. rooms[g] # None /\ rooms'[g] # None /\ g \in GameIds
  BY <1>1, MembersHaveRooms, SeatedAfterwards
<1>3. Unhushed
  BY DEF Unhushed, NewsEvents
<1> QED
  BY <1>1, <1>2, <1>3, StillIsKept

Reports(d, g, room) ==
    d.game_id = g /\ d.snapshot = Snapshot(room) /\ d.target \in Targets(room)

\* A step that sends news of the one room it changes, all of it as the room is
\* after the step.
LEMMA NewsOfOneRoomTells ==
    ASSUME IInv, IInv', NEW g \in GameIds, NEW room \in Room, rooms' = [rooms EXCEPT ![g] = room],
           \A d \in deliveries' : d.event \in NewsEvents => Reports(d, g, room),
           \A c \in Connections :
               memberships'[c] # None /\ NewsFor(c, deliveries') = {} =>
                   /\ memberships[c] = memberships'[c]
                   /\ memberships'[c].game_id = g => Kept(g, room, memberships[c].side)
    PROVE  Tells /\ NewsIsTrue
<1>0. NewsIsTrue
  BY OptionAssumption DEF NewsIsTrue, Reports, IInv, TypeOK
<1> SUFFICES ASSUME NEW c \in Connections, memberships'[c] # None
             PROVE  LET h == memberships'[c].game_id
                    IN  /\ \A d \in NewsFor(c, deliveries') : d.snapshot = Snapshot(rooms'[h])
                        /\ NewsFor(c, deliveries') = {} =>
                              /\ memberships[c] = memberships'[c]
                              /\ Kept(h, rooms'[h], memberships[c].side)
  BY <1>0 DEF Tells
<1> DEFINE h == memberships'[c].game_id
<1>1. /\ rooms'[g] = room /\ \A k \in GameIds : k # g => rooms'[k] = rooms[k]
      /\ h \in GameIds /\ rooms'[h] # None
  BY SeatedAfterwards DEF IInv, TypeOK
<1>2. ASSUME NEW d \in NewsFor(c, deliveries')
      PROVE  d.snapshot = Snapshot(rooms'[h])
  <2>1. d \in deliveries' /\ d.event \in NewsEvents /\ d.target = c
    BY <1>2 DEF NewsFor
  <2>2. d.snapshot = Snapshot(room) /\ c \in Targets(rooms'[g])
    BY <1>1, <2>1 DEF Reports
  <2>3. rooms'[g] # None
    BY <1>1, OptionAssumption
  <2>4. h = g
    BY <2>2, <2>3, SeatedAfterwards
  <2> QED
    BY <1>1, <2>2, <2>4
<1>3. ASSUME NewsFor(c, deliveries') = {}
      PROVE  memberships[c] = memberships'[c] /\ Kept(h, rooms'[h], memberships[c].side)
  <2>1. CASE h = g
    BY <1>1, <1>3, <2>1
  <2>2. CASE h # g
    <3>1. HushedBy(h, deliveries') = {}
      BY <2>2 DEF HushedBy, Reports, NewsEvents
    <3>2. Still(rooms[h], rooms'[h])
      BY <1>1, <2>2 DEF Still, Same
    <3> QED
      BY <1>3, <3>1, <3>2 DEF Kept
  <2> QED
    BY <2>1, <2>2
<1> QED
  BY <1>2, <1>3

LEMMA RefusalTells ==
    ASSUME IInv, IInv', NEW c, NEW code, Refuse(c, code)
    PROVE  Tells /\ NewsIsTrue
<1>1. /\ \A d \in deliveries' : d.event \notin NewsEvents
      /\ \A e \in Connections : memberships'[e] = memberships[e]
      /\ \A g \in GameIds : rooms'[g] = rooms[g]
  BY DEF Refuse, Refusal, NewsEvents
<1>2. \A g \in GameIds : Still(rooms[g], rooms'[g])
  BY <1>1 DEF Still, Same
<1> QED
  BY <1>1, <1>2, SilenceTells

LEMMA NewsIsNews ==
    ASSUME NEW c, NEW event \in NewsEvents, NEW g, NEW room
    PROVE  LET d == News(c, event, g, room)
           IN  /\ d.event = event /\ d.event \in NewsEvents /\ d.target = c
               /\ d.game_id = g /\ d.snapshot = Snapshot(room)
BY DEF News

LEMMA PublishTells ==
    ASSUME IInv, IInv', NEW g \in GameIds, NEW room \in Room, NEW t \in Nat,
           Publish(g, room, t), memberships' = memberships
    PROVE  Tells /\ NewsIsTrue
<1> DEFINE settled == Settled(room, t)
<1>1. settled \in Room
  BY SettledKeepsSeats DEF SameSeats
<1>2. rooms' = [rooms EXCEPT ![g] = settled] /\ deliveries' = Broadcast(g, settled)
  BY DEF Publish
<1>3. rooms'[g] = settled
  BY <1>2 DEF IInv, TypeOK
<1> HIDE DEF settled
<1>4. \A d \in deliveries' : d.event \in NewsEvents => Reports(d, g, settled)
  <2>1. "GameUpdated" \in NewsEvents
    BY DEF NewsEvents
  <2>2. ASSUME NEW d \in deliveries'
        PROVE  Reports(d, g, settled)
    <3>1. PICK e \in Targets(settled) : d = News(e, "GameUpdated", g, settled)
      BY <1>2, <2>2 DEF Broadcast
    <3> QED
      BY <2>1, <3>1, NewsIsNews DEF Reports
  <2> QED
    BY <2>2
<1>5. ASSUME NEW c \in Connections, memberships'[c] # None, memberships'[c].game_id = g
      PROVE  NewsFor(c, deliveries') # {}
  <2>1. c \in Targets(settled)
    BY <1>3, <1>5, SeatedAfterwards
  <2>2. News(c, "GameUpdated", g, settled) \in deliveries'
    BY <1>2, <2>1 DEF Broadcast
  <2> QED
    BY <2>2, NewsIsNews DEF NewsFor, NewsEvents
<1> QED
  BY <1>1, <1>2, <1>4, <1>5, NewsOfOneRoomTells

LEMMA CreateGameTells ==
    ASSUME IInv, IInv', NEW c \in Connections, NEW name_ok \in BOOLEAN,
           NEW tc \in TimeControls, CreateGame(c, name_ok, tc)
    PROVE  Tells /\ NewsIsTrue
<1>1. CASE Refuse(c, "InvalidRequest")
  BY <1>1, RefusalTells
<1>2. CASE ~Refuse(c, "InvalidRequest")
  <2>1. PICK g \in GameIds : \E room :
            /\ memberships' = [memberships EXCEPT ![c] = [game_id |-> g, side |-> "white"]]
            /\ rooms' = [rooms EXCEPT ![g] = room]
            /\ deliveries' = {News(c, "GameCreated", g, room)}
            /\ g \notin issued
    BY <1>2 DEF CreateGame
  <2>2. PICK room :
            /\ memberships' = [memberships EXCEPT ![c] = [game_id |-> g, side |-> "white"]]
            /\ rooms' = [rooms EXCEPT ![g] = room]
            /\ deliveries' = {News(c, "GameCreated", g, room)}
            /\ g \notin issued
    BY <2>1
  <2>3. /\ memberships'[c] = [game_id |-> g, side |-> "white"]
        /\ \A d \in Connections : d # c => memberships'[d] = memberships[d]
        /\ rooms'[g] = room
    BY <2>2 DEF IInv, TypeOK
  <2>4. room \in Room /\ c \in Targets(room)
    BY <2>3, MemberHearsOfItsRoom DEF Sides
  <2>5. /\ \A d \in deliveries' : Reports(d, g, room)
        /\ NewsFor(c, deliveries') # {}
    BY <2>2, <2>4, NewsIsNews DEF NewsFor, NewsEvents, Reports
  <2>6. rooms[g] = None
    BY <2>2 DEF IInv, MapsAgree, RoomsWereIssued, OpenGames
  <2>7. ASSUME NEW d \in Connections, d # c, memberships'[d] # None
        PROVE  memberships'[d].game_id # g
    <3>1. IsMember(d, memberships[d].game_id)
      BY <2>3, <2>7 DEF IsMember
    <3> QED
      BY <2>3, <2>6, <2>7, <3>1, MembersHaveRooms
  <2> QED
    BY <2>2, <2>3, <2>4, <2>5, <2>7, NewsOfOneRoomTells
<1> QED
  BY <1>1, <1>2

LEMMA JoinGameTells ==
    ASSUME IInv, IInv', NEW c \in Connections, NEW name_ok \in BOOLEAN, NEW k \in Codes,
           JoinGame(c, name_ok, k)
    PROVE  Tells /\ NewsIsTrue
<1>1. CASE \E code : Refuse(c, code)
  BY <1>1, RefusalTells
<1>2. CASE ~\E code : Refuse(c, code)
  <2> DEFINE new == Settled([rooms[invites[k]] EXCEPT
                               !.seats["black"] = NewSlot(identities[c], c),
                               !.started_at = now,
                               !.game = Begun(@, now)], now)
  <2>1. PICK h \in GameIds : h = invites[k]
    <3>1. invites[k] # None
      BY <1>2 DEF JoinGame
    <3> QED
      BY <3>1 DEF IInv, TypeOK
  <2>2. /\ memberships[c] = None
        /\ memberships' = [memberships EXCEPT ![c] = [game_id |-> h, side |-> "black"]]
    BY <1>2, <2>1 DEF JoinGame, MayTakeSeat
  <2>3. /\ rooms' = [rooms EXCEPT ![h] = new]
        /\ deliveries' = {News(c, "GameJoined", h, new)}
               \cup {News(d, "GameUpdated", h, new) : d \in Targets(rooms[h])}
    BY <1>2, <2>1 DEF JoinGame
  <2> HIDE DEF new
  <2>4. PICK room :
             /\ rooms' = [rooms EXCEPT ![h] = room]
             /\ News(c, "GameJoined", h, room) \in deliveries'
             /\ \A d \in Targets(rooms[h]) : News(d, "GameUpdated", h, room) \in deliveries'
             /\ \A d \in deliveries' :
                   \/ d = News(c, "GameJoined", h, room)
                   \/ \E e \in Targets(rooms[h]) : d = News(e, "GameUpdated", h, room)
    BY <2>3
  <2>5. /\ memberships'[c] = [game_id |-> h, side |-> "black"]
        /\ \A d \in Connections : d # c => memberships'[d] = memberships[d]
        /\ rooms'[h] = room
    BY <2>2, <2>4 DEF IInv, TypeOK
  <2>6. room \in Room /\ c \in Targets(room)
    BY <2>5, MemberHearsOfItsRoom DEF Sides
  <2>7. rooms[h] # None
    BY <1>2, <2>1 DEF JoinGame, IInv, TypeOK, MapsAgree, InvitesMatchRooms
  <2>8. ASSUME NEW d \in Targets(rooms[h])
        PROVE  d \in Connections /\ d # c /\ memberships'[d] # None /\ memberships'[d].game_id = h
    <3>1. PICK side \in Sides : memberships[d] = [game_id |-> h, side |-> side]
      BY <2>7, TargetsAreMembers
    <3>2. d \in Connections
      BY <2>7, TargetsAreMembers DEF IInv, TypeOK
    <3>3. memberships[d] # None
      BY <3>1, OptionAssumption DEF Membership
    <3> QED
      BY <2>2, <2>5, <3>1, <3>2, <3>3
  <2>9. \A d \in Targets(rooms[h]) : d \in Targets(room)
    BY <2>5, <2>8, SeatedAfterwards
  <2>10. ASSUME NEW d \in deliveries'
         PROVE  Reports(d, h, room)
    <3>1. "GameJoined" \in NewsEvents /\ "GameUpdated" \in NewsEvents
      BY DEF NewsEvents
    <3>2. CASE d = News(c, "GameJoined", h, room)
      BY <2>6, <3>1, <3>2, NewsIsNews DEF Reports
    <3>3. CASE \E e \in Targets(rooms[h]) : d = News(e, "GameUpdated", h, room)
      BY <2>9, <3>1, <3>3, NewsIsNews DEF Reports
    <3> QED
      BY <2>4, <3>2, <3>3
  <2>11. NewsFor(c, deliveries') # {}
    <3>1. News(c, "GameJoined", h, room) \in deliveries'
      BY <2>4
    <3> QED
      BY <3>1, NewsIsNews DEF NewsFor, NewsEvents
  <2>12. ASSUME NEW d \in Connections, d # c, memberships'[d] # None, memberships'[d].game_id = h
        PROVE  NewsFor(d, deliveries') # {}
    <3>1. IsMember(d, h)
      BY <2>5, <2>12 DEF IsMember
    <3>2. d \in Targets(rooms[h])
      BY <3>1, MemberIsTarget
    <3>3. News(d, "GameUpdated", h, room) \in deliveries'
      BY <2>4, <3>2
    <3> QED
      BY <3>3, NewsIsNews DEF NewsFor, NewsEvents
  <2>13. ASSUME NEW d \in Connections, memberships'[d] # None, NewsFor(d, deliveries') = {}
         PROVE  /\ memberships[d] = memberships'[d]
                /\ memberships'[d].game_id = h => Kept(h, room, memberships[d].side)
    BY <2>5, <2>11, <2>12, <2>13
  <2> QED
    BY <2>6, <2>10, <2>4, <2>13, NewsOfOneRoomTells
<1> QED
  BY <1>1, <1>2

LEMMA DecisionTells ==
    ASSUME IInv, IInv', NEW c \in Connections, NEW g \in GameIds, NEW accept \in BOOLEAN,
           OfferDraw(c, g) \/ RespondDraw(c, g, accept) \/ Resign(c, g)
    PROVE  Tells /\ NewsIsTrue
<1> DEFINE offered == Changed([rooms[g].game EXCEPT !.draw_offer = memberships[c].side])
           answered == Answered(rooms[g].game, accept, now)
           resigned == Resigned(rooms[g].game, memberships[c].side, now)
<1>1. CASE \E code : Refuse(c, code)
  BY <1>1, RefusalTells
<1>2. CASE ~\E code : Refuse(c, code)
  <2>1. /\ IsMember(c, g) /\ memberships' = memberships
        /\ \E game \in {offered, answered, resigned} :
              Publish(g, [rooms[g] EXCEPT !.game = game], now)
    BY <1>2 DEF OfferDraw, RespondDraw, Resign, RefuseStranger
  <2>2. rooms[g] \in Room /\ memberships[c].side \in Sides /\ now \in Nat
    BY <2>1, MembersHaveRooms DEF IInv, TypeOK
  <2>3. rooms[g].game \in GameState
    BY <2>2 DEF Room
  <2>4. offered \in GameState
    <3>1. [rooms[g].game EXCEPT !.draw_offer = memberships[c].side] \in GameState
      BY <2>2, <2>3 DEF GameState
    <3> QED
      BY <3>1, ChangedType
  <2>5. answered \in GameState /\ resigned \in GameState
    BY <2>2, <2>3, AnsweredType, ResignedType
  <2> HIDE DEF offered, answered, resigned
  <2>6. PICK game \in GameState : Publish(g, [rooms[g] EXCEPT !.game = game], now)
    BY <2>1, <2>4, <2>5
  <2>7. [rooms[g] EXCEPT !.game = game] \in Room
    BY <2>2, WithGameKeepsSeats DEF SameSeats
  <2> QED
    BY <2>1, <2>2, <2>6, <2>7, PublishTells
<1> QED
  BY <1>1, <1>2

\* Two members of one game play different sides.
LEMMA MembersOnOtherSides ==
    ASSUME IInv, NEW g \in GameIds, NEW c \in Connections, NEW d \in Connections, c # d,
           IsMember(c, g), IsMember(d, g)
    PROVE  memberships[d].side = Flip(memberships[c].side) /\ memberships[d].side \in Sides
<1>1. PICK s \in Sides : memberships[c] = [game_id |-> g, side |-> s]
  BY DEF IInv, TypeOK, Membership, IsMember
<1>2. PICK r \in Sides : memberships[d] = [game_id |-> g, side |-> r]
  BY DEF IInv, TypeOK, Membership, IsMember
<1>3. SitsAt(c, g, s) /\ SitsAt(d, g, r)
  BY <1>1, <1>2 DEF IInv, MapsAgree, SeatsMatchMemberships
<1>4. s # r
  BY <1>3 DEF SitsAt
<1> QED
  BY <1>1, <1>2, <1>4 DEF Flip, Sides

\* The opponent of a rejected move hears nothing: of a flag that fell as the move was
\* judged it never will, of one that falls after that the next tick tells it.
LEMMA RejectedIsKept ==
    ASSUME IInv, NEW g \in GameIds, rooms[g] # None, InTime(rooms[g].game.clock),
           NEW c \in Connections, IsMember(c, g), NEW side \in Sides,
           side = Flip(memberships[c].side), NEW later \in Nat,
           hushed[g] # {} => Reported(rooms[g].game.clock),
           LET room == Settled([rooms[g] EXCEPT !.game.clock = Tick(@, now)], later)
           IN  deliveries' = {News(c, "MoveRejected", g, room)}
    PROVE  LET room == Settled([rooms[g] EXCEPT !.game.clock = Tick(@, now)], later)
           IN  Kept(g, room, side)
<1> DEFINE old == rooms[g]
           ticked == [old EXCEPT !.game.clock = Tick(@, now)]
           room == Settled(ticked, later)
<1>1. old \in Room /\ now \in Nat /\ memberships[c].side \in Sides
  BY MembersHaveRooms DEF IInv, TypeOK
<1>2. /\ ticked \in Room /\ ticked.game.clock = Tick(old.game.clock, now)
      /\ Same(old, ticked)
      /\ ticked.game.clock.flagged = old.game.clock.flagged =>
            RoomStatus(ticked) = RoomStatus(old)
  BY <1>1, TickedClockStays, TickedClockIsSame
<1>3. HushedBy(g, deliveries') =
          IF ticked.game.clock.flagged # None /\ TickChanged(old.game.clock, now)
          THEN {memberships[c].side} ELSE {}
  <2>1. \A d \in deliveries' : d.event = "MoveRejected" /\ d.game_id = g /\ d.target = c
    BY DEF News
  <2>2. \E d \in deliveries' : TRUE
    OBVIOUS
  <2> QED
    BY <1>2, <2>1, <2>2 DEF HushedBy
<1> HIDE DEF ticked, old
<1>4. old.game.clock \in Clock /\ ticked.game.clock \in Clock
  BY <1>1, <1>2, SoundClock
<1>5. /\ InTime(ticked.game.clock)
      /\ ticked.game.clock.flagged # None => Reported(ticked.game.clock)
      /\ Reported(old.game.clock) \/ Unshown(old.game.clock) =>
            (TickChanged(old.game.clock, now) <=> Unshown(old.game.clock))
      /\ old.game.clock.running = None =>
            ticked.game.clock.flagged = old.game.clock.flagged
  BY <1>1, <1>2, <1>4, TickKeepsTime DEF old
<1>6. Still(ticked, room)
  BY <1>2, <1>5, SettledIsStill
<1> HIDE DEF room
<1>7. Same(old, room)
  BY <1>2, <1>6 DEF Still, Same
<1>8. CASE ticked.game.clock.flagged # None /\ TickChanged(old.game.clock, now)
  <2>1. hushed[g] = {}
    BY <1>5, <1>8 DEF Reported, Unshown, old
  <2>2. Flip(side) = memberships[c].side
    BY <1>1 DEF Flip, Sides
  <2> QED
    BY <1>3, <1>7, <1>8, <2>1, <2>2 DEF Kept, room, ticked, old
<1>9. CASE ~(ticked.game.clock.flagged # None /\ TickChanged(old.game.clock, now))
  <2>1. HushedBy(g, deliveries') = {}
    BY <1>3, <1>9
  <2>2. ticked.game.clock.flagged = old.game.clock.flagged
    <3>1. CASE old.game.clock.flagged # None
      BY <1>5, <3>1 DEF InTime, old
    <3>2. CASE old.game.clock.flagged = None
      BY <1>2, <1>9, <3>2 DEF TickChanged
    <3> QED
      BY <3>1, <3>2
  <2>3. ~Unshown(old.game.clock)
    BY <1>5, <1>9, <2>2 DEF Unshown
  <2>4. Still(old, room)
    BY <1>2, <1>6, <1>7, <2>2, <2>3 DEF Still
  <2> QED
    BY <2>1, <2>4 DEF Kept, room, ticked, old
<1> QED
  BY <1>8, <1>9

LEMMA PlayMoveTells ==
    ASSUME IInv, IInv', RoomsSound, HushedIsReported, NEW c \in Connections, NEW g \in GameIds,
           NEW ply \in Nat, NEW move, NEW later \in Nat, PlayMove(c, g, ply, move, later)
    PROVE  Tells /\ NewsIsTrue
<1>1. CASE RefuseStranger(c, g)
  BY <1>1, RefusalTells DEF RefuseStranger
<1>2. CASE IsMember(c, g) /\ ~RefuseStranger(c, g)
  <2> DEFINE room == [rooms[g] EXCEPT !.game.clock = Tick(@, now)]
             reason == Rejection(room, memberships[c].side, ply, move)
             played == [room EXCEPT !.game = Played(@, move, later)]
  <2>1. /\ rooms[g] \in Room /\ rooms[g] # None
        /\ now \in Nat /\ memberships[c].side \in Sides
    BY <1>2, MembersHaveRooms DEF IInv, TypeOK
  <2>2. SameSeats(room, rooms[g])
    BY <2>1, TickedKeepsSeats
  <2>3. ASSUME reason = None  PROVE played \in Room
    <3>1. move \in MoveKinds
      BY <2>3, OptionAssumption DEF Rejection, Reasons
    <3> HIDE DEF room
    <3>2. Played(room.game, move, later) \in GameState
      BY <2>2, <3>1, PlayedType DEF SameSeats, Room
    <3> QED
      BY <2>2, <3>2 DEF SameSeats, Room
  <2>4. /\ memberships' = memberships
        /\ \/ /\ rooms' = [rooms EXCEPT ![g] = Settled(room, later)]
              /\ deliveries' = {News(c, "MoveRejected", g, Settled(room, later))}
           \/ reason = None /\ Publish(g, played, later)
    BY <1>2 DEF PlayMove
  <2>5. CASE reason = None /\ Publish(g, played, later)
    <3> HIDE DEF room, reason, played
    <3> QED
      BY <2>3, <2>4, <2>5, PublishTells
  <2>6. CASE /\ rooms' = [rooms EXCEPT ![g] = Settled(room, later)]
             /\ deliveries' = {News(c, "MoveRejected", g, Settled(room, later))}
    <3> DEFINE settled == Settled(room, later)
    <3>1. settled \in Room
      BY <2>2, SettledKeepsSeats DEF SameSeats
    <3>2. c \in Targets(rooms[g])
      BY <1>2, MemberIsTarget
    <3>3. Targets(rooms[g]) = Targets(room)
      BY <2>2, SameSeatsSameTargets
    <3>4. Targets(settled) = Targets(room)
      BY <2>2, SettledKeepsSeats, SameSeatsSameTargets DEF SameSeats
    <3>5. "MoveRejected" \in NewsEvents
      BY DEF NewsEvents
    <3>6. \A d \in deliveries' : Reports(d, g, settled)
      BY <2>6, <3>2, <3>3, <3>4, <3>5, NewsIsNews DEF Reports
    <3>7. NewsFor(c, deliveries') # {}
      BY <2>6, <3>5, NewsIsNews DEF NewsFor
    <3>8. ASSUME NEW d \in Connections, memberships'[d] # None, NewsFor(d, deliveries') = {},
                 memberships'[d].game_id = g
          PROVE  Kept(g, settled, memberships[d].side)
      <4>1. d # c /\ IsMember(d, g)
        BY <2>4, <3>7, <3>8 DEF IsMember
      <4>2. memberships[d].side = Flip(memberships[c].side) /\ memberships[d].side \in Sides
        BY <1>2, <4>1, MembersOnOtherSides
      <4>3. /\ InTime(rooms[g].game.clock)
            /\ hushed[g] # {} => Reported(rooms[g].game.clock)
        BY <2>1 DEF RoomsSound, OpenGames, Sound, HushedIsReported
      <4> QED
        BY <1>2, <2>1, <2>6, <4>2, <4>3, RejectedIsKept
    <3>9. rooms' = [rooms EXCEPT ![g] = settled]
      BY <2>6
    <3> HIDE DEF settled
    <3> QED
      BY <2>4, <3>1, <3>6, <3>8, <3>9, NewsOfOneRoomTells
  <2> QED
    BY <2>4, <2>5, <2>6
<1> QED
  BY <1>1, <1>2 DEF PlayMove

\* The same game between the same players.
LEMMA SameGameIsStill ==
    ASSUME NEW old, NEW room, room.game = old.game, Joined(room) <=> Joined(old)
    PROVE  Still(old, room)
BY DEF Still, Same, RoomStatus

LEMMA ReconnectTells ==
    ASSUME IInv, IInv', RoomsSound, NEW c \in Connections, NEW g \in GameIds, NEW token,
           Reconnect(c, g, token)
    PROVE  Tells /\ NewsIsTrue
<1>1. CASE \E code : Refuse(c, code)
  BY <1>1, RefusalTells
<1>2. CASE ~\E code : Refuse(c, code)
  <2> DEFINE seated(side) == Reseated(rooms[g], side, c)
             notice(side) ==
                 LET opponent == Settled(seated(side), now).seats[Flip(side)]
                 IN  IF IsConnected(opponent)
                     THEN {Notice(opponent.connection, "OpponentReconnected", g)}
                     ELSE {}
  <2>1. PICK side \in Sides :
            /\ rooms[g] # None /\ rooms[g].seats[side] # None
            /\ rooms' = [rooms EXCEPT ![g] = Settled(seated(side), now)]
            /\ memberships' = Transferred(rooms[g].seats[side].connection, c, g, side)
            /\ deliveries' = {News(c, "GameJoined", g, Settled(seated(side), now))}
                                 \cup notice(side)
    BY <1>2 DEF Reconnect
  <2>2. rooms[g] \in Room /\ rooms[g].seats[side] \in Slot /\ now \in Nat
    BY <2>1 DEF IInv, TypeOK, Room
  <2>3. /\ memberships'[c] = [game_id |-> g, side |-> side]
        /\ \A d \in Connections : d # c => memberships'[d] \in {memberships[d], None}
        /\ rooms'[g] = Settled(seated(side), now)
    BY <2>1 DEF Transferred, IInv, TypeOK
  <2>4. rooms'[g] \in Room /\ c \in Targets(rooms'[g])
    BY <2>3, MemberHearsOfItsRoom
  <2>5. seated(side) \in Room /\ Still(rooms[g], seated(side))
    <3>1. seated(side).game = rooms[g].game
      BY <2>2 DEF Reseated, Room
    <3>2. seated(side).seats["black"] # None <=> rooms[g].seats["black"] # None
      BY <2>1, <2>2, OptionAssumption, NewSlotType DEF Reseated, Room, Slot, Sides
    <3>3. seated(side) \in Room
      BY <2>1, <2>2, NewSlotType DEF Reseated, Room, Slot, Sides
    <3> QED
      BY <3>1, <3>2, <3>3, SameGameIsStill DEF Joined
  <2>6. \A d \in notice(side) : d.event \notin NewsEvents
    BY DEF Notice, NewsEvents
  <2> DEFINE room == Settled(seated(side), now)
  <2>7. Still(rooms[g], room)
    <3>1. InTime(seated(side).game.clock)
      <4>1. seated(side).game = rooms[g].game
        BY <2>2 DEF Reseated, Room
      <4> QED
        BY <2>1, <4>1 DEF RoomsSound, OpenGames, Sound
    <3> HIDE DEF seated
    <3> QED
      BY <2>2, <2>5, <3>1, SettledIsStill, StillIsTransitive
  <2>8. /\ rooms' = [rooms EXCEPT ![g] = room]
        /\ room \in Room /\ c \in Targets(room)
    BY <2>1, <2>3, <2>4
  <2>9. deliveries' = {News(c, "GameJoined", g, room)} \cup notice(side)
    BY <2>1
  <2> HIDE DEF seated, notice, room
  <2>10. "GameJoined" \in NewsEvents
    BY DEF NewsEvents
  <2>11. \A d \in deliveries' : d.event \in NewsEvents => Reports(d, g, room)
    BY <2>6, <2>8, <2>9, <2>10, NewsIsNews DEF Reports
  <2>12. NewsFor(c, deliveries') # {}
    BY <2>9, <2>10, NewsIsNews DEF NewsFor
  <2>13. ASSUME NEW d \in Connections, memberships'[d] # None, NewsFor(d, deliveries') = {}
         PROVE  memberships[d] = memberships'[d]
    BY <2>3, <2>12, <2>13
  <2>14. Unhushed
    BY <2>9, <2>6, NewsIsNews, <2>10 DEF Unhushed, NewsEvents
  <2>15. \A other : Kept(g, room, other)
    BY <2>7, <2>14, StillIsKept
  <2> QED
    BY <2>8, <2>11, <2>13, <2>15, NewsOfOneRoomTells
<1> QED
  BY <1>1, <1>2

LEMMA DisconnectTells ==
    ASSUME IInv, IInv', NEW c \in Connections, Disconnect(c)
    PROVE  Tells /\ NewsIsTrue
<1>1. \A d \in Connections : memberships'[d] \in {memberships[d], None}
  BY DEF Disconnect, IInv, TypeOK
<1>2. CASE rooms' = rooms /\ deliveries' = {}
  BY <1>1, <1>2, SilenceTells DEF Still, Same
<1>3. CASE ~(rooms' = rooms /\ deliveries' = {})
  <2> DEFINE g == memberships[c].game_id
             side == memberships[c].side
             room == Vacated(rooms[g], side, c, now)
  <2>1. memberships[c] # None
    BY <1>3 DEF Disconnect
  <2>2. g \in GameIds /\ rooms[g] # None /\ rooms[g] \in Room /\ side \in Sides
    BY <2>1, MembersHaveRooms DEF IsMember
  <2>3. /\ rooms' = [rooms EXCEPT ![g] = room]
        /\ deliveries' = {Notice(d, "OpponentDisconnected", g) : d \in Targets(room)}
    BY <2>1, <2>2 DEF Disconnect
  <2>4. room.game = rooms[g].game
    BY <2>2 DEF Vacated, Room
  <2>5. Joined(room) <=> Joined(rooms[g])
    BY <2>2, VacatedJoined DEF IInv, TypeOK
  <2>6. Still(rooms[g], room)
    BY <2>4, <2>5, SameGameIsStill
  <2>7. \A d \in deliveries' : d.event \notin NewsEvents
    BY <2>3 DEF Notice, NewsEvents
  <2> HIDE DEF g, side, room
  <2>8. \A h \in GameIds : Still(rooms[h], rooms'[h])
    BY <2>2, <2>3, <2>6 DEF Still, Same, IInv, TypeOK
  <2> QED
    BY <1>1, <2>7, <2>8, SilenceTells
<1> QED
  BY <1>2, <1>3

LEMMA TickAtTells ==
    ASSUME IInv, IInv', RoomsSound, TickAt
    PROVE  Tells
<1> SUFFICES ASSUME NEW c \in Connections, memberships'[c] # None
             PROVE  LET g == memberships'[c].game_id
                    IN  /\ \A d \in NewsFor(c, deliveries') : d.snapshot = Snapshot(rooms'[g])
                        /\ NewsFor(c, deliveries') = {} =>
                              /\ memberships[c] = memberships'[c]
                              /\ Kept(g, rooms'[g], memberships[c].side)
  BY DEF Tells
<1> DEFINE g == memberships'[c].game_id
<1>1. memberships[c] = memberships'[c]
  BY DEF TickAt, MembershipsWithout
<1>2. /\ g \in GameIds /\ IsMember(c, g) /\ rooms'[g] # None
  BY <1>1, SeatedAfterwards DEF IsMember
<1>3. g \in OpenGames /\ rooms'[g] = TickedRoom(rooms[g], now)
  BY <1>2, OptionAssumption DEF TickAt
<1>4. rooms[g] \in Room /\ now \in Nat /\ c \in Targets(rooms[g])
  BY <1>2, MembersHaveRooms, MemberIsTarget DEF IInv, TypeOK
<1>5. deliveries' = UNION {Broadcast(h, TickedRoom(rooms[h], now)) :
                       h \in {x \in OpenGames : RoomTickChanged(rooms[x], now)}}
  BY DEF TickAt
<1>6. "GameUpdated" \in NewsEvents
  BY DEF NewsEvents
<1> HIDE DEF g
<1>7. ASSUME NEW d \in NewsFor(c, deliveries')  PROVE d.snapshot = Snapshot(rooms'[g])
  <2>1. PICK h \in OpenGames : d \in Broadcast(h, TickedRoom(rooms[h], now))
    BY <1>5, <1>7 DEF NewsFor
  <2>2. PICK e \in Targets(TickedRoom(rooms[h], now)) :
            d = News(e, "GameUpdated", h, TickedRoom(rooms[h], now))
    BY <2>1 DEF Broadcast
  <2>3. d.snapshot = Snapshot(TickedRoom(rooms[h], now)) /\ e = c
    BY <1>6, <1>7, <2>2, NewsIsNews DEF NewsFor
  <2>4. h \in GameIds /\ rooms[h] # None /\ rooms[h] \in Room
    BY <2>1 DEF OpenGames, IInv, TypeOK
  <2>5. c \in Targets(rooms[h])
    BY <1>4, <2>2, <2>3, <2>4, TickedRoomKeepsSeats, SameSeatsSameTargets
  <2>6. PICK side \in Sides : memberships[c] = [game_id |-> h, side |-> side]
    BY <2>4, <2>5, TargetsAreMembers
  <2>7. h = g
    BY <1>2, <2>6 DEF IsMember
  <2> QED
    BY <1>3, <2>3, <2>7
<1>8. ASSUME NewsFor(c, deliveries') = {}  PROVE Still(rooms[g], rooms'[g])
  <2>1. c \in Targets(TickedRoom(rooms[g], now))
    BY <1>4, TickedRoomKeepsSeats, SameSeatsSameTargets
  <2>2. CASE RoomTickChanged(rooms[g], now)
    <3> DEFINE d == News(c, "GameUpdated", g, TickedRoom(rooms[g], now))
    <3>1. d \in Broadcast(g, TickedRoom(rooms[g], now))
      BY <2>1 DEF Broadcast
    <3>2. d.target = c /\ d.event \in NewsEvents
      BY <1>6, NewsIsNews
    <3> HIDE DEF d
    <3>3. d \in NewsFor(c, deliveries')
      BY <1>3, <1>5, <2>2, <3>1, <3>2 DEF NewsFor
    <3> QED
      BY <1>8, <3>3
  <2>3. CASE ~RoomTickChanged(rooms[g], now)
    <3>1. InTime(rooms[g].game.clock)
      BY <1>3 DEF RoomsSound, Sound
    <3> QED
      BY <1>3, <1>4, <2>3, <3>1, TickedRoomIsStill
  <2> QED
    BY <2>2, <2>3
<1>9. Unhushed
  <2> SUFFICES ASSUME NEW d \in deliveries'  PROVE d.event # "MoveRejected"
    BY DEF Unhushed
  <2>1. PICK h \in OpenGames : d \in Broadcast(h, TickedRoom(rooms[h], now))
    BY <1>5
  <2> QED
    BY <1>6, <2>1, NewsIsNews DEF Broadcast
<1> QED
  BY <1>1, <1>7, <1>8, <1>9, StillIsKept DEF g

LEMMA EncodeTells ==
    ASSUME IInv, IInv', RoomsSound, EncodeIfDirty
    PROVE  Tells
<1>1. ASSUME NEW g \in GameIds, rooms[g] # None, rooms'[g] # None
      PROVE  Still(rooms[g], rooms'[g])
  <2>1. rooms[g] \in Room /\ now \in Nat
    BY <1>1 DEF IInv, TypeOK
  <2>2. rooms'[g] = Settled(rooms[g], now)
    BY <1>1 DEF EncodeIfDirty
  <2>3. InTime(rooms[g].game.clock)
    BY <1>1 DEF RoomsSound, OpenGames, Sound
  <2> QED
    BY <2>1, <2>2, <2>3, SettledIsStill
<1> QED
  BY <1>1, SilenceTells DEF EncodeIfDirty

LEMMA NextTells ==
    ASSUME IInv, IInv', RoomsSound, HushedIsReported, Next
    PROVE  Tells
<1>1. ASSUME NEW c \in Connections, Disconnect(c)  PROVE Tells
  BY <1>1, DisconnectTells
<1>2. ASSUME NEW c \in Connections, GameRequest(c)  PROVE Tells
  <2>1. ASSUME NEW name_ok \in BOOLEAN, NEW tc \in TimeControls, CreateGame(c, name_ok, tc)
        PROVE  Tells
    BY <2>1, CreateGameTells
  <2>2. ASSUME NEW name_ok \in BOOLEAN, NEW k \in Codes, JoinGame(c, name_ok, k)
        PROVE  Tells
    BY <2>2, JoinGameTells
  <2>3. ASSUME NEW g \in GameIds, NEW token \in Tokens, Reconnect(c, g, token)
        PROVE  Tells
    BY <2>3, ReconnectTells
  <2>4. ASSUME NEW g \in GameIds, NEW ply \in 0..MaxPly,
               NEW move \in MoveKinds \cup {"illegal"}, NEW later \in now..MaxTime,
               PlayMove(c, g, ply, move, later)
        PROVE  Tells
    <3>1. ply \in Nat /\ later \in Nat
      BY HubAssumption DEF IInv, TypeOK
    <3> QED
      BY <2>4, <3>1, PlayMoveTells
  <2>5. ASSUME NEW g \in GameIds, NEW accept \in BOOLEAN,
               OfferDraw(c, g) \/ RespondDraw(c, g, accept) \/ Resign(c, g)
        PROVE  Tells
    BY <2>5, DecisionTells
  <2> QED
    BY <1>2, <2>1, <2>2, <2>3, <2>4, <2>5 DEF GameRequest
<1>3. CASE TickAt
  BY <1>3, TickAtTells
<1>4. CASE EncodeIfDirty
  BY <1>4, EncodeTells
<1>5. CASE \/ Connect \/ TakeFinishedGames \/ AdvanceTime
           \/ \E c \in Connections, user \in Users : SignIn(c, user)
           \/ \E c \in Connections : SignOut(c)
  <2>1. rooms' = rooms /\ memberships' = memberships /\ deliveries' = {}
    BY <1>5 DEF Connect, TakeFinishedGames, AdvanceTime, SignIn, SignOut
  <2> QED
    BY <2>1, SilenceTells DEF Still, Same
<1> QED
  BY <1>1, <1>2, <1>3, <1>4, <1>5 DEF Next

-----------------------------------------------------------------------------
(* Who is told what it sees                                                *)

LEMMA OnlyMovesAreRejected ==
    ASSUME Next, NEW d \in deliveries', d.event = "MoveRejected"
    PROVE  \E c \in Connections, h \in GameIds, ply \in 0..MaxPly,
              move \in MoveKinds \cup {"illegal"}, later \in now..MaxTime :
              PlayMove(c, h, ply, move, later)
<1>1. \A c, code : ~Refuse(c, code)
  BY DEF Refuse, Refusal
<1>2. \A g, room, t : ~Publish(g, room, t)
  BY DEF Publish, Broadcast, News
<1>3. ASSUME NEW c \in Connections, Disconnect(c)  PROVE FALSE
  BY <1>3 DEF Disconnect, Notice
<1>4. ASSUME NEW c \in Connections, GameRequest(c)
      PROVE  \E h \in GameIds, ply \in 0..MaxPly, move \in MoveKinds \cup {"illegal"},
                later \in now..MaxTime : PlayMove(c, h, ply, move, later)
  <2>1. \A name_ok, tc : ~CreateGame(c, name_ok, tc)
    <3> SUFFICES ASSUME NEW name_ok, NEW tc, CreateGame(c, name_ok, tc)  PROVE FALSE
      OBVIOUS
    <3>1. PICK g, room : deliveries' = {News(c, "GameCreated", g, room)}
      BY <1>1 DEF CreateGame
    <3> QED
      BY <3>1 DEF News
  <2>2. \A name_ok, k : ~JoinGame(c, name_ok, k)
    BY <1>1 DEF JoinGame, News
  <2>3. \A g, token : ~Reconnect(c, g, token)
    BY <1>1 DEF Reconnect, News, Notice
  <2>4. \A g, accept : ~(OfferDraw(c, g) \/ RespondDraw(c, g, accept) \/ Resign(c, g))
    BY <1>1, <1>2 DEF OfferDraw, RespondDraw, Resign, RefuseStranger
  <2> QED
    BY <1>4, <2>1, <2>2, <2>3, <2>4 DEF GameRequest
<1>5. ~TickAt
  BY DEF TickAt, Broadcast, News
<1>6. ~(\/ Connect \/ TakeFinishedGames \/ AdvanceTime \/ EncodeIfDirty
        \/ \E c \in Connections, user \in Users : SignIn(c, user)
        \/ \E c \in Connections : SignOut(c))
  BY DEF Connect, TakeFinishedGames, AdvanceTime, EncodeIfDirty, SignIn, SignOut
<1> QED
  BY <1>3, <1>4, <1>5, <1>6 DEF Next

\* Whom a rejected move hushes has seen a flag down that no tick finds any more.
LEMMA NextKeepsHushed ==
    ASSUME IInv, RoomsSound, HushedIsReported, ClocksStay, issued \subseteq issued', Next, Listen
    PROVE  HushedIsReported'
<1> SUFFICES ASSUME NEW g \in GameIds, hushed'[g] # {}
             PROVE  g \in issued' /\ (rooms'[g] # None => Reported(rooms'[g].game.clock))
  BY DEF HushedIsReported
<1>1. hushed'[g] = hushed[g] \cup HushedBy(g, deliveries')
  BY DEF Listen
<1>2. CASE hushed[g] # {}
  <2>1. g \in issued /\ (rooms[g] # None => Reported(rooms[g].game.clock))
    BY <1>2 DEF HushedIsReported
  <2>2. rooms'[g] # None => rooms[g] # None /\ ClockStays(rooms'[g], rooms[g])
    BY <2>1 DEF ClocksStay
  <2> QED
    BY <2>1, <2>2 DEF ClockStays, RoomsSound, OpenGames
<1>3. CASE hushed[g] = {}
  <2>1. HushedBy(g, deliveries') # {}
    BY <1>1, <1>3
  <2>2. PICK d \in deliveries' : /\ d.event = "MoveRejected" /\ d.game_id = g
                                 /\ Tick(rooms[g].game.clock, now).flagged # None
    BY <2>1 DEF HushedBy
  <2>3. PICK c \in Connections, h \in GameIds, ply \in 0..MaxPly,
             move \in MoveKinds \cup {"illegal"}, later \in now..MaxTime :
             PlayMove(c, h, ply, move, later)
    BY <2>2, OnlyMovesAreRejected
  <2> DEFINE ticked == [rooms[h] EXCEPT !.game.clock = Tick(@, now)]
             room == Settled(ticked, later)
  <2>4. /\ IsMember(c, h) /\ rooms' = [rooms EXCEPT ![h] = room]
        /\ deliveries' = {News(c, "MoveRejected", h, room)}
    <3>1. ~RefuseStranger(c, h)
      BY <2>2 DEF RefuseStranger, Refuse, Refusal
    <3>2. \A t, r : ~Publish(h, r, t)
      BY <2>2 DEF Publish, Broadcast, News
    <3> QED
      BY <2>3, <3>1, <3>2 DEF PlayMove
  <2>5. h = g
    BY <2>2, <2>4 DEF News
  <2>6. rooms[g] \in Room /\ rooms[g] # None /\ now \in Nat /\ later \in Nat
    BY <2>4, <2>5, MembersHaveRooms, HubAssumption DEF IInv, TypeOK
  <2>7. InTime(rooms[g].game.clock)
    BY <2>6 DEF RoomsSound, OpenGames, Sound
  <2>8. /\ ticked \in Room /\ ticked.game.clock = Tick(rooms[g].game.clock, now)
        /\ Reported(ticked.game.clock)
    <3>1. ticked \in Room /\ ticked.game.clock = Tick(rooms[g].game.clock, now)
      BY <2>5, <2>6, TickedClockStays
    <3> HIDE DEF ticked
    <3>2. rooms[g].game.clock \in Clock
      BY <2>6, SoundClock
    <3>3. Reported(Tick(rooms[g].game.clock, now))
      BY <2>2, <2>6, <2>7, <3>2, TickKeepsTime
    <3> QED
      BY <3>1, <3>3
  <2> HIDE DEF ticked
  <2>9. room.game.clock = ticked.game.clock
    <3>1. room.game.clock = Sync(ticked.game.clock, later)
      BY <2>8 DEF Settled, Room, GameState
    <3> HIDE DEF room
    <3> QED
      BY <2>8, <3>1 DEF Reported, Sync
  <2>10. rooms'[g] = room
    BY <2>4, <2>5 DEF IInv, TypeOK
  <2>11. g \in issued'
    BY <2>6 DEF IInv, MapsAgree, RoomsWereIssued, OpenGames
  <2> HIDE DEF room
  <2> QED
    BY <2>8, <2>9, <2>10, <2>11
<1> QED
  BY <1>2, <1>3

LEMMA IssuedGrows ==
    ASSUME Next
    PROVE  issued \subseteq issued'
<1>1. ASSUME NEW c, NEW code, Refuse(c, code)  PROVE issued' = issued
  BY <1>1 DEF Refuse
<1>2. ASSUME NEW c \in Connections, GameRequest(c)  PROVE issued \subseteq issued'
  <2>1. ASSUME NEW name_ok, NEW tc, CreateGame(c, name_ok, tc)  PROVE issued \subseteq issued'
    BY <1>1, <2>1 DEF CreateGame
  <2>2. ASSUME NEW name_ok, NEW k, JoinGame(c, name_ok, k)  PROVE issued \subseteq issued'
    BY <1>1, <2>2 DEF JoinGame
  <2>3. ASSUME NEW g, NEW token, Reconnect(c, g, token)  PROVE issued \subseteq issued'
    BY <1>1, <2>3 DEF Reconnect
  <2>4. ASSUME NEW g, NEW ply, NEW move, NEW later, PlayMove(c, g, ply, move, later)
        PROVE  issued \subseteq issued'
    BY <1>1, <2>4 DEF PlayMove, RefuseStranger
  <2>5. ASSUME NEW g, NEW accept, OfferDraw(c, g) \/ RespondDraw(c, g, accept) \/ Resign(c, g)
        PROVE  issued \subseteq issued'
    BY <1>1, <2>5 DEF OfferDraw, RespondDraw, Resign, RefuseStranger
  <2> QED
    BY <1>2, <2>1, <2>2, <2>3, <2>4, <2>5 DEF GameRequest
<1>3. ASSUME ~\E c \in Connections : GameRequest(c)  PROVE issued' = issued
  BY <1>3 DEF Next, Connect, Disconnect, SignIn, SignOut, TickAt, TakeFinishedGames,
              EncodeIfDirty, AdvanceTime
<1> QED
  BY <1>2, <1>3

ViewInv == RoomsSound /\ HushedIsReported /\ MembersUpToDate
-----------------------------------------------------------------------------
(* What travels to the players' screens                                    *)

\* What the hub sends, and what a program hears from its worker.
Sent == NewsEvents \cup {"Error", "OpponentDisconnected", "OpponentReconnected"}

Events == Sent \cup Markers

IsNews(message) == message.event \in NewsEvents

GoodMessage(message) ==
    /\ message.event \in Events
    /\ message.event \in Sent => message.late \in BOOLEAN
    /\ IsNews(message) => message.view \in Views /\ message.view.game_id # None
    /\ message.event \in {"GameCreated", "GameJoined"} => message.token \in Membership
    /\ message.event = "GameCreated" => message.invite_code \in Codes

\* What is put in an outbox.
IsLetter(m) ==
    /\ m.event \in Sent
    /\ {"target", "event", "late"} \subseteq DOMAIN m
    /\ IsNews(m) => {"token", "invite_code", "view"} \subseteq DOMAIN m

\* What a request must have for the hub to look at it; a game id that is none is
\* refused like one of somebody else's game.
GoodCommand(command) ==
    /\ command.kind = "JoinGame" => command.code \in Codes
    /\ command.kind = "Reconnect" => command.seat \in Membership
    /\ command.kind = "PlayMove" => command.ply \in Nat
    /\ command.kind = "RespondDraw" => command.accept \in BOOLEAN

\* All the hub answers is true when it answers, and news is for connections that
\* are up.
Answers ==
    \A d \in deliveries' :
        /\ d.event \in Sent
        /\ IsNews(d) =>
              /\ d.game_id \in GameIds
              /\ \E room \in Room :
                    /\ d.snapshot = Snapshot(room)
                    /\ rooms'[d.game_id] \in {room, None}
                    /\ IF rooms[d.game_id] = None THEN d.game_id \notin issued
                       ELSE rooms[d.game_id].game.revision <= room.game.revision
              /\ d.game_id \in issued'
              /\ d.target \in sockets \cup sockets'
        /\ d.event \in {"GameCreated", "GameJoined"} =>
              memberships'[d.target] \in Membership /\ rooms'[d.game_id] \in Room

\* A call of the hub, as its callers see it.
HubCall == IInv' /\ RoomsStep /\ issued \subseteq issued' /\ Answers

-----------------------------------------------------------------------------
(* Calls of the hub                                                        *)

\* Who moves or comes back hears, as do those it plays with, what its room is now.
LEMMA OneRoomReports ==
    ASSUME IInv, NEW g \in GameIds, NEW room \in Room, rooms' = [rooms EXCEPT ![g] = room],
           \A d \in deliveries' : d.event \in NewsEvents => Reports(d, g, room)
    PROVE  NewsIsTrue
BY OptionAssumption DEF NewsIsTrue, Reports, IInv, TypeOK

LEMMA PlayMoveReports ==
    ASSUME IInv, NEW c \in Connections, NEW g \in GameIds,
           NEW ply \in Nat, NEW move, NEW later \in Nat, PlayMove(c, g, ply, move, later)
    PROVE  NewsIsTrue
<1>1. CASE RefuseStranger(c, g)
  BY <1>1 DEF RefuseStranger, Refuse, Refusal, NewsIsTrue, NewsEvents
<1>2. CASE IsMember(c, g) /\ ~RefuseStranger(c, g)
  <2> DEFINE room == [rooms[g] EXCEPT !.game.clock = Tick(@, now)]
             reason == Rejection(room, memberships[c].side, ply, move)
             played == [room EXCEPT !.game = Played(@, move, later)]
  <2>1. rooms[g] \in Room /\ rooms[g] # None /\ now \in Nat
    BY <1>2, MembersHaveRooms DEF IInv, TypeOK
  <2>2. SameSeats(room, rooms[g])
    BY <2>1, TickedKeepsSeats
  <2>3. ASSUME reason = None  PROVE SameSeats(played, room)
    <3>1. move \in MoveKinds
      BY <2>3, OptionAssumption DEF Rejection, Reasons
    <3> HIDE DEF room
    <3>2. Played(room.game, move, later) \in GameState
      BY <2>2, <3>1, PlayedType DEF SameSeats, Room
    <3> QED
      BY <2>2, <3>2 DEF SameSeats, Room
  <2>4. \/ /\ rooms' = [rooms EXCEPT ![g] = Settled(room, later)]
           /\ deliveries' = {News(c, "MoveRejected", g, Settled(room, later))}
        \/ reason = None /\ Publish(g, played, later)
    BY <1>2 DEF PlayMove
  <2>5. c \in Targets(room)
    BY <1>2, <2>2, MemberIsTarget, SameSeatsSameTargets
  <2> HIDE DEF room, reason, played
  <2>6. CASE reason = None /\ Publish(g, played, later)
    <3> DEFINE settled == Settled(played, later)
    <3>1. /\ rooms' = [rooms EXCEPT ![g] = settled] /\ deliveries' = Broadcast(g, settled)
          /\ settled \in Room
      BY <2>3, <2>6, SettledKeepsSeats DEF Publish, SameSeats
    <3> HIDE DEF settled
    <3>2. \A d \in deliveries' : Reports(d, g, settled)
      BY <3>1 DEF Broadcast, News, Reports
    <3> QED
      BY <3>1, <3>2, OneRoomReports
  <2>7. CASE /\ rooms' = [rooms EXCEPT ![g] = Settled(room, later)]
             /\ deliveries' = {News(c, "MoveRejected", g, Settled(room, later))}
    <3> DEFINE settled == Settled(room, later)
    <3>1. SameSeats(settled, room)
      BY <2>2, SettledKeepsSeats DEF SameSeats
    <3>2. rooms' = [rooms EXCEPT ![g] = settled] /\ deliveries' = {News(c, "MoveRejected", g, settled)}
      BY <2>7
    <3> HIDE DEF settled
    <3>3. \A d \in deliveries' : Reports(d, g, settled)
      BY <2>5, <3>1, <3>2, SameSeatsSameTargets DEF News, Reports
    <3> QED
      BY <3>1, <3>2, <3>3, OneRoomReports DEF SameSeats
  <2> QED
    BY <2>4, <2>6, <2>7
<1> QED
  BY <1>1, <1>2 DEF PlayMove

LEMMA ReconnectReports ==
    ASSUME IInv, IInv', NEW c \in Connections, NEW g \in GameIds, NEW token, Reconnect(c, g, token)
    PROVE  NewsIsTrue
<1>1. CASE \E code : Refuse(c, code)
  BY <1>1 DEF Refuse, Refusal, NewsIsTrue, NewsEvents
<1>2. CASE ~\E code : Refuse(c, code)
  <2>0. PICK side \in Sides : \E room, opponent :
            /\ rooms[g] # None
            /\ rooms' = [rooms EXCEPT ![g] = room]
            /\ room = Settled(Reseated(rooms[g], side, c), now)
            /\ memberships' = Transferred(rooms[g].seats[side].connection, c, g, side)
            /\ deliveries' = {News(c, "GameJoined", g, room)}
                   \cup IF IsConnected(opponent)
                        THEN {Notice(opponent.connection, "OpponentReconnected", g)}
                        ELSE {}
    BY <1>2 DEF Reconnect
  <2>1. PICK room, opponent :
            /\ rooms[g] # None
            /\ rooms' = [rooms EXCEPT ![g] = room]
            /\ room = Settled(Reseated(rooms[g], side, c), now)
            /\ memberships' = Transferred(rooms[g].seats[side].connection, c, g, side)
            /\ deliveries' = {News(c, "GameJoined", g, room)}
                   \cup IF IsConnected(opponent)
                        THEN {Notice(opponent.connection, "OpponentReconnected", g)}
                        ELSE {}
    BY <2>0
  <2>2. memberships'[c] = [game_id |-> g, side |-> side] /\ rooms'[g] = room
    BY <2>1 DEF Transferred, IInv, TypeOK
  <2>3. room \in Room /\ c \in Targets(room)
    BY <2>2, MemberHearsOfItsRoom
  <2>4. \A d \in deliveries' : d.event \in NewsEvents => d = News(c, "GameJoined", g, room)
    BY <2>1 DEF Notice, NewsEvents
  <2>5. \A d \in deliveries' : d.event \in NewsEvents => Reports(d, g, room)
    BY <2>3, <2>4 DEF Reports, News
  <2> QED
    BY <2>1, <2>3, <2>5, OneRoomReports
<1> QED
  BY <1>1, <1>2

LEMMA TrueNewsAnswers ==
    ASSUME IInv, IInv', NewsIsTrue, RoomsStep, \A d \in deliveries' : d.event \in Sent
    PROVE  Answers
<1> SUFFICES ASSUME NEW d \in deliveries'
             PROVE  /\ IsNews(d) =>
                          /\ d.game_id \in GameIds
                          /\ \E room \in Room :
                                /\ d.snapshot = Snapshot(room)
                                /\ rooms'[d.game_id] \in {room, None}
                                /\ IF rooms[d.game_id] = None THEN d.game_id \notin issued
                                   ELSE rooms[d.game_id].game.revision <= room.game.revision
                          /\ d.game_id \in issued'
                          /\ d.target \in sockets'
                    /\ d.event \in {"GameCreated", "GameJoined"} =>
                          memberships'[d.target] \in Membership /\ rooms'[d.game_id] \in Room
  BY DEF Answers
<1>1. CASE ~IsNews(d)
  BY <1>1 DEF IsNews, NewsEvents
<1>2. CASE IsNews(d)
  <2> DEFINE g == d.game_id
             room == rooms'[g]
  <2>1. /\ g \in GameIds /\ room # None /\ d.snapshot = Snapshot(room)
        /\ d.target \in Targets(room)
    BY <1>2 DEF IsNews, NewsIsTrue
  <2>2. room \in Room
    BY <2>1 DEF IInv, TypeOK
  <2>3. g \in issued'
    BY <2>1 DEF IInv, MapsAgree, RoomsWereIssued, OpenGames
  <2>4. IF rooms[g] = None THEN g \notin issued
        ELSE rooms[g].game.revision <= room.game.revision
    BY <2>1 DEF RoomsStep, RoomStep
  <2>5. d.target \in Connections
    BY <2>1, <2>2, TargetsAreSeated DEF Room, Slot
  <2>6. memberships'[d.target] \in Membership /\ d.target \in sockets'
    BY <2>1, <2>5, SeatedAfterwards DEF IInv, TypeOK, MapsAgree, SeatsMatchMemberships
  <2> HIDE DEF g, room
  <2> QED
    BY <2>1, <2>2, <2>3, <2>4, <2>6 DEF g, room
<1> QED
  BY <1>1, <1>2

LEMMA RefusalIsCall ==
    ASSUME IInv, NEW c, NEW code, Refuse(c, code)
    PROVE  HubCall
<1>1. IInv' /\ RoomsStep
  BY RefusalKeepsInvariant, RefusalStays DEF Stays
<1>2. issued' = issued /\ deliveries' = {Refusal(c, code)}
  BY DEF Refuse
<1>3. Answers
  BY <1>2 DEF Answers, Refusal, Sent, IsNews, NewsEvents
<1> QED
  BY <1>1, <1>2, <1>3 DEF HubCall

LEMMA CreateGameIsCall ==
    ASSUME IInv, NEW c \in Connections, NEW tc \in TimeControls, CreateGame(c, TRUE, tc)
    PROVE  HubCall
<1>1. IInv' /\ RoomsStep
  BY CreateGameKeepsInvariant, CreateGameStays DEF Stays
<1>2. NewsIsTrue
  BY <1>1, CreateGameTells
<1>3. issued \subseteq issued' /\ \A d \in deliveries' : d.event \in {"Error", "GameCreated"}
  <2>1. CASE Refuse(c, "InvalidRequest")
    BY <2>1 DEF Refuse, Refusal
  <2>2. CASE ~Refuse(c, "InvalidRequest")
    <3>1. PICK g \in GameIds :
              issued' = issued \cup {g} /\ \E room : deliveries' = {News(c, "GameCreated", g, room)}
      BY <2>2 DEF CreateGame
    <3>2. PICK room : deliveries' = {News(c, "GameCreated", g, room)}
      BY <3>1
    <3> QED
      BY <3>1, <3>2 DEF News
  <2> QED
    BY <2>1, <2>2
<1> QED
  BY <1>1, <1>2, <1>3, TrueNewsAnswers DEF HubCall, Sent, NewsEvents

LEMMA JoinGameIsCall ==
    ASSUME IInv, NEW c \in Connections, NEW k \in Codes, JoinGame(c, TRUE, k)
    PROVE  HubCall
<1>1. IInv' /\ RoomsStep
  BY JoinGameKeepsInvariant, JoinGameStays DEF Stays
<1>2. NewsIsTrue
  BY <1>1, JoinGameTells
<1>3. issued \subseteq issued' /\ \A d \in deliveries' : d.event \in {"Error"} \cup NewsEvents
  <2>1. CASE \E code : Refuse(c, code)
    BY <2>1 DEF Refuse, Refusal
  <2>2. CASE ~\E code : Refuse(c, code)
    <3> DEFINE g == invites[k]
               new == Settled([rooms[g] EXCEPT !.seats["black"] = NewSlot(identities[c], c),
                                               !.started_at = now,
                                               !.game = Begun(@, now)], now)
    <3>1. /\ issued' = issued
          /\ deliveries' = {News(c, "GameJoined", g, new)}
                 \cup {News(d, "GameUpdated", g, new) : d \in Targets(rooms[g])}
      BY <2>2 DEF JoinGame
    <3> HIDE DEF new, g
    <3>2. \A d \in deliveries' : \/ d = News(c, "GameJoined", g, new)
                                 \/ \E e \in Targets(rooms[g]) : d = News(e, "GameUpdated", g, new)
      BY <3>1
    <3> QED
      BY <3>1, <3>2 DEF News, NewsEvents
  <2> QED
    BY <2>1, <2>2
<1> QED
  BY <1>1, <1>2, <1>3, TrueNewsAnswers DEF HubCall, Sent

LEMMA ReconnectIsCall ==
    ASSUME IInv, NEW c \in Connections, NEW g \in GameIds, NEW token, Reconnect(c, g, token)
    PROVE  HubCall
<1>1. IInv' /\ RoomsStep
  BY ReconnectKeepsInvariant, ReconnectStays DEF Stays
<1>2. NewsIsTrue
  BY <1>1, ReconnectReports
<1>3. issued \subseteq issued' /\ \A d \in deliveries' : d.event \in Sent
  <2>1. CASE \E code : Refuse(c, code)
    BY <2>1 DEF Refuse, Refusal, Sent
  <2>2. CASE ~\E code : Refuse(c, code)
    <3>1. PICK room, opponent :
              /\ issued' = issued
              /\ deliveries' = {News(c, "GameJoined", g, room)}
                    \cup IF IsConnected(opponent)
                         THEN {Notice(opponent.connection, "OpponentReconnected", g)}
                         ELSE {}
      BY <2>2 DEF Reconnect
    <3> QED
      BY <3>1 DEF News, Notice, NewsEvents, Sent
  <2> QED
    BY <2>1, <2>2
<1> QED
  BY <1>1, <1>2, <1>3, TrueNewsAnswers DEF HubCall

LEMMA BroadcastEvents ==
    ASSUME NEW g, NEW room, NEW d \in Broadcast(g, room)
    PROVE  d.event = "GameUpdated"
BY DEF Broadcast, News

LEMMA PlayMoveIsCall ==
    ASSUME IInv, NEW c \in Connections, NEW g \in GameIds, NEW ply \in Nat, NEW move,
           PlayMove(c, g, ply, move, now)
    PROVE  HubCall
<1>0. now \in Nat
  BY DEF IInv, TypeOK
<1>1. IInv' /\ RoomsStep
  BY <1>0, PlayMoveKeepsInvariant, PlayMoveStays DEF Stays
<1>2. NewsIsTrue
  BY <1>0, <1>1, PlayMoveReports
<1>3. issued \subseteq issued' /\ \A d \in deliveries' : d.event \in {"Error"} \cup NewsEvents
  <2>1. CASE \E code : Refuse(c, code)
    BY <2>1 DEF Refuse, Refusal
  <2>2. CASE ~\E code : Refuse(c, code)
    <3>1. /\ issued' = issued
          /\ \/ \E room : deliveries' = {News(c, "MoveRejected", g, room)}
             \/ \E room : deliveries' = Broadcast(g, room)
      BY <2>2 DEF PlayMove, RefuseStranger, Publish
    <3> QED
      BY <3>1, BroadcastEvents DEF News, NewsEvents
  <2> QED
    BY <2>1, <2>2
<1> QED
  BY <1>1, <1>2, <1>3, TrueNewsAnswers DEF HubCall, Sent

LEMMA DecisionIsCall ==
    ASSUME IInv, NEW c \in Connections, NEW g \in GameIds, NEW accept \in BOOLEAN,
           OfferDraw(c, g) \/ RespondDraw(c, g, accept) \/ Resign(c, g)
    PROVE  HubCall
<1>1. IInv' /\ RoomsStep
  BY OfferDrawKeepsInvariant, RespondDrawKeepsInvariant, ResignKeepsInvariant,
     OfferDrawStays, RespondDrawStays, ResignStays DEF Stays
<1>2. NewsIsTrue
  BY <1>1, DecisionTells
<1>3. issued \subseteq issued' /\ \A d \in deliveries' : d.event \in {"Error"} \cup NewsEvents
  <2>1. CASE \E code : Refuse(c, code)
    BY <2>1 DEF Refuse, Refusal
  <2>2. CASE ~\E code : Refuse(c, code)
    <3>1. issued' = issued /\ \E room : deliveries' = Broadcast(g, room)
      BY <2>2 DEF OfferDraw, RespondDraw, Resign, RefuseStranger, Publish
    <3> QED
      BY <3>1, BroadcastEvents DEF NewsEvents
  <2> QED
    BY <2>1, <2>2
<1> QED
  BY <1>1, <1>2, <1>3, TrueNewsAnswers DEF HubCall, Sent

\* A command that names no game is refused, since nobody is a member of none.
LEMMA HandleIsCall ==
    ASSUME IInv, NEW c \in Connections, NEW command, GoodCommand(command), Handle(c, command)
    PROVE  HubCall
<1>1. CASE command.kind = "CreateGame" /\ \E tc \in TimeControls : CreateGame(c, TRUE, tc)
  BY <1>1, CreateGameIsCall
<1>2. CASE command.kind = "JoinGame" /\ JoinGame(c, TRUE, command.code)
  BY <1>2, JoinGameIsCall DEF GoodCommand
<1>3. CASE command.kind = "Reconnect" /\ Reconnect(c, command.seat.game_id, command.seat)
  <2>1. command.seat.game_id \in GameIds
    BY <1>3 DEF GoodCommand, Membership
  <2> QED
    BY <1>3, <2>1, ReconnectIsCall
<1> DEFINE g == command.game_id
<1>4. ASSUME g \notin GameIds  PROVE ~IsMember(c, g)
  BY <1>4, OptionAssumption DEF IsMember, IInv, TypeOK, Membership
<1>5. CASE /\ command.kind = "PlayMove"
           /\ PlayMove(c, g, command.ply, command.move, now)
  <2>1. CASE g \in GameIds
    BY <1>5, <2>1, PlayMoveIsCall DEF GoodCommand
  <2>2. CASE g \notin GameIds
    BY <1>4, <1>5, <2>2, RefusalIsCall DEF PlayMove, RefuseStranger
  <2> QED
    BY <2>1, <2>2
<1>6. CASE \/ command.kind = "OfferDraw" /\ OfferDraw(c, g)
           \/ command.kind = "RespondDraw" /\ RespondDraw(c, g, command.accept)
           \/ command.kind = "Resign" /\ Resign(c, g)
  <2>1. CASE g \in GameIds
    <3>1. \/ \E accept \in BOOLEAN : RespondDraw(c, g, accept)
          \/ OfferDraw(c, g) \/ Resign(c, g)
      BY <1>6 DEF GoodCommand
    <3> QED
      BY <2>1, <3>1, DecisionIsCall
  <2>2. CASE g \notin GameIds
    BY <1>4, <1>6, <2>2, RefusalIsCall DEF OfferDraw, RespondDraw, Resign, RefuseStranger
  <2> QED
    BY <2>1, <2>2
<1> QED
  BY <1>1, <1>2, <1>3, <1>5, <1>6 DEF Handle

LEMMA DisconnectIsCall ==
    ASSUME IInv, NEW c \in Connections, Disconnect(c)
    PROVE  HubCall
<1>1. IInv' /\ RoomsStep
  BY DisconnectKeepsInvariant, DisconnectStays DEF Stays
<1>2. NewsIsTrue
  BY <1>1, DisconnectTells
<1>3. issued \subseteq issued' /\ \A d \in deliveries' : d.event = "OpponentDisconnected"
  BY DEF Disconnect, Notice
<1> QED
  BY <1>1, <1>2, <1>3, TrueNewsAnswers DEF HubCall, Sent

\* The ticker also tells of a game that it discards.
LEMMA TickAtIsCall ==
    ASSUME IInv, TickAt
    PROVE  HubCall
<1>1. IInv' /\ RoomsStep
  BY TickAtKeepsInvariant, TickAtStays DEF Stays
<1>2. issued' = issued /\ now \in Nat
  BY DEF TickAt, IInv, TypeOK
<1>3. ASSUME NEW d \in deliveries'
      PROVE  /\ d.event = "GameUpdated" /\ d.game_id \in GameIds
             /\ \E room \in Room :
                   /\ d.snapshot = Snapshot(room)
                   /\ rooms'[d.game_id] \in {room, None}
                   /\ rooms[d.game_id] # None
                   /\ rooms[d.game_id].game.revision <= room.game.revision
             /\ d.game_id \in issued
             /\ d.target \in sockets
  <2>1. PICK g \in OpenGames : d \in Broadcast(g, TickedRoom(rooms[g], now))
    BY <1>3 DEF TickAt
  <2> DEFINE room == TickedRoom(rooms[g], now)
  <2>2. g \in GameIds /\ rooms[g] # None /\ rooms[g] \in Room /\ g \in issued
    BY <2>1 DEF OpenGames, IInv, TypeOK, MapsAgree, RoomsWereIssued
  <2>3. room \in Room
    BY <1>2, <2>2, TickedRoomKeepsSeats DEF SameSeats
  <2>4. rooms[g].game.revision <= room.game.revision
    BY <1>2, <2>2, TickedRoomStep DEF RoomStep
  <2>5. rooms'[g] \in {room, None}
    BY <2>2 DEF TickAt
  <2>6. /\ d.event = "GameUpdated" /\ d.game_id = g /\ d.snapshot = Snapshot(room)
        /\ d.target \in Targets(room)
    BY <2>1 DEF Broadcast, News
  <2>7. SameSeats(room, rooms[g])
    BY <1>2, <2>2, TickedRoomKeepsSeats
  <2> HIDE DEF room
  <2>8. d.target \in sockets
    BY <2>2, <2>6, <2>7, SameSeatsSameTargets, TargetsAreMembers
  <2> QED
    BY <2>2, <2>3, <2>4, <2>5, <2>6, <2>8
<1>4. Answers
  BY <1>2, <1>3 DEF Answers, Sent, NewsEvents
<1> QED
  BY <1>1, <1>2, <1>4 DEF HubCall

-----------------------------------------------------------------------------
(* News on its way                                                         *)

\* Game g has been at revision n.
Past(g, n) ==
    /\ g \in issued
    /\ rooms[g] # None => n <= rooms[g].game.revision

\* Unless the message is late it shows no state of game g before revision n.
NotBefore(message, g, n) ==
    IsNews(message) /\ message.view.game_id = g /\ ~message.late
    => n <= message.view.revision

LEMMA PastStays ==
    ASSUME IInv, IInv', RoomsStep, issued \subseteq issued',
           NEW g \in GameIds, NEW n \in Nat, Past(g, n)
    PROVE  Past(g, n)'
<1>1. g \in issued'
  BY DEF Past
<1>2. ASSUME rooms'[g] # None
      PROVE  n <= rooms'[g].game.revision
  <2>1. rooms[g] # None /\ rooms[g].game.revision <= rooms'[g].game.revision
    BY <1>2 DEF RoomsStep, RoomStep, Past
  <2>2. rooms[g].game.revision \in Nat /\ rooms'[g].game.revision \in Nat
    BY <1>2, <2>1 DEF IInv, TypeOK, Room, GameState
  <2> QED
    BY <2>1, <2>2 DEF Past
<1> QED
  BY <1>1, <1>2 DEF Past

LEMMA RoomStatusType ==
    ASSUME NEW room \in Room
    PROVE  RoomStatus(room) \in Statuses
<1>1. Outcome(room.game) \in Outcomes \cup {None}
  BY OutcomeType DEF Room
<1> QED
  BY <1>1 DEF RoomStatus, Statuses, IsOver

\* What is put in a client's outbox is well formed, true, and no older than
\* anything that has been.
LEMMA EnvelopeIsGood ==
    ASSUME IInv, HubCall, NEW d \in deliveries', NEW m, m = Envelope(d)
    PROVE  /\ IsLetter(m) /\ GoodMessage(m)
           /\ m.target = d.target
           /\ IsNews(m) => /\ Past(m.view.game_id, m.view.revision)'
                           /\ m.target \in sockets \cup sockets'
           /\ \A g \in GameIds, n \in Nat : Past(g, n) => NotBefore(m, g, n)
<1>1. CASE ~IsNews(d)
  <2>1. d.event \in Sent /\ d.event \notin NewsEvents
    BY <1>1 DEF IsNews, HubCall, Answers
  <2>2. /\ m.event = d.event /\ m.target = d.target /\ m.late = FALSE
        /\ {"target", "event", "late"} \subseteq DOMAIN m
    <3>1. CASE d.event = "Error"
      BY <2>1, <3>1 DEF Envelope
    <3>2. CASE d.event # "Error"
      BY <2>1, <3>2 DEF Envelope
    <3> QED
      BY <3>1, <3>2
  <2> QED
    BY <1>1, <2>1, <2>2 DEF GoodMessage, NotBefore, IsNews, NewsEvents, Events, IsLetter
<1>2. CASE IsNews(d)
  <2>0. d.event \in Sent
    BY DEF HubCall, Answers
  <2> DEFINE g == d.game_id
             status == d.snapshot.status
             there == {s \in Sides : IsConnected(rooms'[g].seats[s])}
             token == Token(g, memberships'[d.target].side)
             code == rooms'[g].invite_code
  <2>1. /\ d.event \in Events
        /\ g \in GameIds /\ g \in issued'
        /\ d.event \in {"GameCreated", "GameJoined"} =>
              memberships'[d.target] \in Membership /\ rooms'[g] \in Room
    BY <1>2 DEF HubCall, Answers, Events
  <2>2. PICK room \in Room :
            /\ d.snapshot = Snapshot(room)
            /\ rooms'[g] \in {room, None}
            /\ IF rooms[g] = None THEN g \notin issued
               ELSE rooms[g].game.revision <= room.game.revision
    BY <1>2 DEF HubCall, Answers
  <2>3. /\ room.game.revision \in Nat /\ Len(room.game.moves) \in Nat
        /\ room.game.draw_offer \in Sides \cup {None}
    BY <2>2 DEF Room, GameState
  <2>4. /\ d.snapshot.revision = room.game.revision
        /\ d.snapshot.moves = Len(room.game.moves)
        /\ d.snapshot.draw_offer = room.game.draw_offer
        /\ status \in Statuses
    BY <2>2, RoomStatusType DEF Snapshot
  <2>5. there \subseteq Sides
    OBVIOUS
  <2>6. /\ m.event = d.event /\ m.target = d.target /\ m.late = FALSE
        /\ {"target", "event", "token", "invite_code", "view", "late"} \subseteq DOMAIN m
        /\ m.token = token /\ m.invite_code = code
        /\ m.view = [game_id |-> g, revision |-> d.snapshot.revision,
                     moves |-> d.snapshot.moves, draw_offer |-> d.snapshot.draw_offer,
                     status |-> status, connected |-> there]
    BY <1>2 DEF Envelope, Carried, IsNews
  <2>7. d.event \in {"GameCreated", "GameJoined"} => token \in Membership /\ code \in Codes
    BY <2>1 DEF Token, Membership, Room
  <2> HIDE DEF g, status, there, token, code
  <2>8. m.view \in Views /\ m.view.game_id = g /\ m.view.revision = room.game.revision
    BY <2>1, <2>3, <2>4, <2>5, <2>6 DEF Views
  <2>9. g # None
    BY <2>1, HubAssumption
  <2>10. IsLetter(m) /\ GoodMessage(m)
    BY <2>0, <2>1, <2>6, <2>7, <2>8, <2>9 DEF GoodMessage, IsNews, IsLetter
  <2>11. Past(g, room.game.revision)'
    <3> DEFINE n == room.game.revision
    <3>1. n \in Nat
      BY <2>3
    <3>2. rooms'[g] # None => rooms'[g].game.revision = n
      BY <2>2
    <3> QED
      BY <2>1, <3>1, <3>2 DEF Past
  <2>12. ASSUME NEW n \in Nat, Past(g, n)
         PROVE  n <= room.game.revision
    <3>1. rooms[g] # None /\ n <= rooms[g].game.revision
      BY <2>2, <2>12 DEF Past
    <3>2. rooms[g].game.revision \in Nat
      BY <2>1, <3>1 DEF IInv, TypeOK, Room, GameState
    <3> QED
      BY <2>2, <2>3, <3>1, <3>2
  <2>13. m.target \in sockets \cup sockets'
    BY <1>2, <2>6 DEF HubCall, Answers
  <2> QED
    BY <2>6, <2>8, <2>10, <2>11, <2>12, <2>13 DEF NotBefore
<1> QED
  BY <1>1, <1>2

\* A message that is dispatched says what it said, and whether it is late.
LEMMA StampedLetter ==
    ASSUME NEW m, IsLetter(m), GoodMessage(m), NEW late \in BOOLEAN,
           NEW stamped, stamped = [m EXCEPT !.late = late]
    PROVE  /\ GoodMessage(stamped)
           /\ stamped.event = m.event /\ stamped.target = m.target /\ stamped.late = late
           /\ IsNews(m) => stamped.view = m.view /\ stamped.token = m.token
           /\ late = m.late => \A g, n : NotBefore(m, g, n) => NotBefore(stamped, g, n)
           /\ late => \A g, n : NotBefore(stamped, g, n)
<1>1. /\ stamped.event = m.event /\ stamped.target = m.target /\ stamped.late = late
      /\ IsNews(m) => /\ stamped.view = m.view /\ stamped.token = m.token
                      /\ stamped.invite_code = m.invite_code
  BY DEF IsLetter
<1> QED
  BY <1>1 DEF IsLetter, GoodMessage, IsNews, NotBefore, NewsEvents, Sent

-----------------------------------------------------------------------------
(* Queues                                                                  *)

IsQueue(queue) == \E S : queue \in Seq(S)

\* What a client has yet to handle, in the order it happened.
GoodQueue(queue) ==
    /\ IsQueue(queue)
    /\ \A i \in 1..Len(queue) : GoodMessage(queue[i])
    /\ \A i, j \in 1..Len(queue) :
          i < j /\ IsNews(queue[i])
          => NotBefore(queue[j], queue[i].view.game_id, queue[i].view.revision)

GoodRequests(queue) ==
    IsQueue(queue) /\ \A i \in 1..Len(queue) : GoodCommand(queue[i])

\* part is what is left of queue when elements are taken from its ends.
IsPart(part, queue) ==
    /\ IsQueue(part)
    /\ \E k \in Nat : /\ k + Len(part) <= Len(queue)
                      /\ \A i \in 1..Len(part) : part[i] = queue[k + i]

LEMMA TailIsPart ==
    ASSUME NEW queue, IsQueue(queue), queue # <<>>
    PROVE  /\ IsPart(Tail(queue), queue)
           /\ Len(queue) \in Nat /\ 1 \in 1..Len(queue) /\ Head(queue) = queue[1]
           /\ Len(Tail(queue)) = Len(queue) - 1
           /\ \A i \in 1..Len(Tail(queue)) : Tail(queue)[i] = queue[1 + i]
<1>1. PICK S : queue \in Seq(S)
  BY DEF IsQueue
<1>2. Tail(queue) \in Seq(S)
  BY <1>1
<1>3. /\ Len(queue) \in Nat /\ Len(queue) > 0
      /\ Len(Tail(queue)) = Len(queue) - 1
      /\ \A i \in 1..Len(Tail(queue)) : Tail(queue)[i] = queue[i + 1]
  BY <1>1
<1>4. Head(queue) = queue[1]
  BY <1>1
<1>5. \A i \in 1..Len(Tail(queue)) : Tail(queue)[i] = queue[1 + i]
  BY <1>3
<1> QED
  BY <1>2, <1>3, <1>4, <1>5 DEF IsPart, IsQueue

LEMMA SubSeqIsPart ==
    ASSUME NEW queue, IsQueue(queue), NEW k \in Nat, NEW n \in Nat,
           k <= n, n <= Len(queue)
    PROVE  IsPart(SubSeq(queue, k + 1, n), queue)
<1>1. PICK S : queue \in Seq(S)
  BY DEF IsQueue
<1> DEFINE part == SubSeq(queue, k + 1, n)
<1>2. Len(queue) \in Nat
  BY <1>1
<1>3. \A i \in (k + 1)..n : queue[i] \in S
  BY <1>1, <1>2, ElementOfSeq
<1>4. part \in Seq(S) /\ Len(part) = n - k
  BY <1>1, <1>2, <1>3, SubSeqProperties
<1>5. \A i \in 1..(n - k) : part[i] = queue[k + i]
  BY <1>1, <1>2, <1>3, SubSeqProperties
<1> HIDE DEF part
<1>6. IsQueue(part)
  BY <1>4 DEF IsQueue
<1>7. k + Len(part) <= Len(queue) /\ \A i \in 1..Len(part) : part[i] = queue[k + i]
  BY <1>2, <1>4, <1>5
<1> QED
  BY <1>6, <1>7 DEF IsPart, part

LEMMA PartIsGood ==
    ASSUME NEW queue, NEW part, IsPart(part, queue), IsQueue(queue)
    PROVE  /\ GoodQueue(queue) => GoodQueue(part)
           /\ GoodRequests(queue) => GoodRequests(part)
           /\ \A i \in 1..Len(part) : \E j \in 1..Len(queue) : part[i] = queue[j]
<1>1. PICK k \in Nat : /\ k + Len(part) <= Len(queue)
                       /\ \A i \in 1..Len(part) : part[i] = queue[k + i]
  BY DEF IsPart
<1>2. Len(part) \in Nat /\ Len(queue) \in Nat
  BY DEF IsPart, IsQueue
<1>3. \A i \in 1..Len(part) : k + i \in 1..Len(queue)
  BY <1>1, <1>2
<1>4. GoodRequests(queue) => GoodRequests(part)
  BY <1>1, <1>3 DEF IsPart, GoodRequests
<1>5. ASSUME GoodQueue(queue)
      PROVE  GoodQueue(part)
  <2>1. \A i \in 1..Len(part) : GoodMessage(part[i])
    BY <1>1, <1>3, <1>5 DEF GoodQueue
  <2>2. ASSUME NEW i \in 1..Len(part), NEW j \in 1..Len(part), i < j, IsNews(part[i])
        PROVE  NotBefore(part[j], part[i].view.game_id, part[i].view.revision)
    <3>1. /\ k + i \in 1..Len(queue) /\ k + j \in 1..Len(queue)
          /\ k + i < k + j
      BY <1>2, <1>3, <2>2
    <3>2. part[i] = queue[k + i] /\ part[j] = queue[k + j]
      BY <1>1
    <3> QED
      BY <1>5, <2>2, <3>1, <3>2 DEF GoodQueue
  <2> QED
    BY <2>1, <2>2 DEF GoodQueue, IsPart
<1> QED
  BY <1>1, <1>3, <1>4, <1>5

LEMMA AppendFacts ==
    ASSUME NEW queue, IsQueue(queue), NEW m
    PROVE  /\ IsQueue(Append(queue, m))
           /\ Len(queue) \in Nat
           /\ Len(Append(queue, m)) = Len(queue) + 1
           /\ \A i \in 1..Len(queue) : Append(queue, m)[i] = queue[i]
           /\ Append(queue, m)[Len(queue) + 1] = m
<1>1. PICK S : queue \in Seq(S)
  BY DEF IsQueue
<1>2. queue \in Seq(S \cup {m}) /\ m \in S \cup {m}
  BY <1>1, SeqMonotonic
<1>3. Append(queue, m) \in Seq(S \cup {m})
  BY <1>2
<1> QED
  BY <1>2, <1>3 DEF IsQueue

LEMMA AppendIsGood ==
    ASSUME NEW queue, NEW m
    PROVE  /\ GoodRequests(queue) /\ GoodCommand(m) => GoodRequests(Append(queue, m))
           /\ /\ GoodQueue(queue) /\ GoodMessage(m)
              /\ \A i \in 1..Len(queue) : IsNews(queue[i]) =>
                    NotBefore(m, queue[i].view.game_id, queue[i].view.revision)
              => GoodQueue(Append(queue, m))
<1> DEFINE new == Append(queue, m)
<1>1. ASSUME GoodRequests(queue), GoodCommand(m)
      PROVE  GoodRequests(new)
  <2>1. IsQueue(queue) /\ \A i \in 1..Len(queue) : GoodCommand(queue[i])
    BY <1>1 DEF GoodRequests
  <2>2. /\ IsQueue(new) /\ Len(queue) \in Nat /\ Len(new) = Len(queue) + 1
        /\ \A i \in 1..Len(queue) : new[i] = queue[i]
        /\ new[Len(queue) + 1] = m
    BY <2>1, AppendFacts
  <2> HIDE DEF new
  <2>3. \A i \in 1..Len(new) : i \in 1..Len(queue) \/ i = Len(queue) + 1
    BY <2>2
  <2> QED
    BY <1>1, <2>1, <2>2, <2>3 DEF GoodRequests
<1>2. ASSUME GoodQueue(queue), GoodMessage(m),
             \A i \in 1..Len(queue) : IsNews(queue[i]) =>
                NotBefore(m, queue[i].view.game_id, queue[i].view.revision)
      PROVE  GoodQueue(new)
  <2>1. IsQueue(queue) /\ \A i \in 1..Len(queue) : GoodMessage(queue[i])
    BY <1>2 DEF GoodQueue
  <2>2. /\ IsQueue(new) /\ Len(queue) \in Nat /\ Len(new) = Len(queue) + 1
        /\ \A i \in 1..Len(queue) : new[i] = queue[i]
        /\ new[Len(queue) + 1] = m
    BY <2>1, AppendFacts
  <2> HIDE DEF new
  <2>3. \A i \in 1..Len(new) : i \in 1..Len(queue) \/ i = Len(queue) + 1
    BY <2>2
  <2>4. \A i \in 1..Len(new) : GoodMessage(new[i])
    BY <1>2, <2>1, <2>2, <2>3
  <2>5. ASSUME NEW i \in 1..Len(new), NEW j \in 1..Len(new), i < j, IsNews(new[i])
        PROVE  NotBefore(new[j], new[i].view.game_id, new[i].view.revision)
    <3>1. i \in 1..Len(queue) /\ new[i] = queue[i]
      BY <2>2, <2>3, <2>5
    <3>2. CASE j \in 1..Len(queue)
      <4>1. new[j] = queue[j]
        BY <2>2, <3>2
      <4> QED
        BY <1>2, <2>5, <3>1, <3>2, <4>1 DEF GoodQueue
    <3>3. CASE j = Len(queue) + 1
      BY <1>2, <2>2, <2>5, <3>1, <3>3
    <3> QED
      BY <2>3, <3>2, <3>3
  <2> QED
    BY <2>2, <2>4, <2>5 DEF GoodQueue
<1> QED
  BY <1>1, <1>2

LEMMA EmptyQueueIsGood == GoodQueue(<<>>) /\ GoodRequests(<<>>)
BY DEF GoodQueue, GoodRequests, IsQueue

-----------------------------------------------------------------------------
(* Programs, queues and outboxes together                                  *)

IsMap(f, S) == f = [x \in S |-> f[x]]

LEMMA ExceptIsMap ==
    ASSUME NEW S, NEW f, IsMap(f, S), NEW x \in S, NEW e
    PROVE  /\ IsMap([f EXCEPT ![x] = e], S)
           /\ [f EXCEPT ![x] = e][x] = e
           /\ \A y \in S : y # x => [f EXCEPT ![x] = e][y] = f[y]
BY DEF IsMap

\* A program with this session and these events shows, or has yet to handle,
\* game g at revision n.
Holds(session, queue, g, n) ==
    \/ session # None /\ session.view.game_id = g /\ session.view.revision = n
    \/ \E i \in 1..Len(queue) :
          IsNews(queue[i]) /\ queue[i].view.game_id = g /\ queue[i].view.revision = n

\* What a client shows is no newer than what it has yet to handle, and that
\* comes in the order it happened.
GoodClient(session, seat, requested, queue) ==
    /\ session \in OnlineSessions \cup {None}
    /\ seat \in Membership \cup {None}
    /\ GoodRequests(requested)
    /\ GoodQueue(queue)
    /\ session # None =>
          \A i \in 1..Len(queue) :
              NotBefore(queue[i], session.view.game_id, session.view.revision)

Shapes ==
    /\ IsMap(sessions, Clients) /\ IsMap(seat_files, Clients)
    /\ IsMap(commands, Clients) /\ IsMap(events, Clients)
    /\ IsMap(wires, Connections) /\ IsMap(outgoing, Tasks) /\ IsMap(ahead, Tasks)

HeldIsPast ==
    \A p \in Clients, g \in GameIds, n \in Nat :
        Holds(sessions[p], events[p], g, n) => Past(g, n)

\* What a task has yet to dispatch is true and, where it has not been overtaken,
\* older than nothing its receiver holds.
NewBatches ==
    \A t \in Tasks : \A m \in outgoing[t] :
        /\ IsLetter(m) /\ GoodMessage(m)
        /\ IsNews(m) => Past(m.view.game_id, m.view.revision)
        /\ \A p \in Clients, g \in GameIds, n \in Nat :
              /\ links[p] = m.target /\ m.target \notin overtaken[t]
              /\ Holds(sessions[p], events[p], g, n)
              => NotBefore(m, g, n)

\* Of two answers to one connection the earlier is known to be ahead.
InOrder ==
    \A t, u \in Tasks : t # u =>
        \A m \in outgoing[t], k \in outgoing[u] :
            m.target = k.target /\ IsNews(k) /\ t \notin ahead[u]
            => NotBefore(m, k.view.game_id, k.view.revision)

NothingStale ==
    /\ Shapes
    /\ \A p \in Clients : GoodClient(sessions[p], seat_files[p], commands[p], events[p])
    /\ \A c \in Connections : GoodRequests(wires[c])
    /\ HeldIsPast
    /\ NewBatches
    /\ InOrder

-----------------------------------------------------------------------------
(* Whose side                                                              *)

\* The news that gives its receiver a seat.
Seatings == {"GameCreated", "GameJoined"}

OwnSeat(p, seat) == seat # None => seat.side = SideOf(p)

OwnCommand(p, command) ==
    /\ command.kind = "CreateGame" => p = "host"
    /\ command.kind = "JoinGame" => p = "guest"
    /\ command.kind = "Reconnect" => command.seat.side = SideOf(p)

OwnCommands(p, queue) == \A i \in 1..Len(queue) : OwnCommand(p, queue[i])

OwnMessage(p, message) == message.event \in Seatings => message.token.side = SideOf(p)

OwnMessages(p, queue) == \A i \in 1..Len(queue) : OwnMessage(p, queue[i])

\* What a client keeps and what it has queued or yet to handle is for its own side.
OwnProgram(p, session, seat, requested, queue) ==
    /\ session # None => /\ OwnSeat(p, session.seat)
                         /\ session.code # None => p = "guest"
                         /\ session.seat = None /\ session.code = None => p = "host"
    /\ OwnSeat(p, seat)
    /\ OwnCommands(p, requested)
    /\ OwnMessages(p, queue)

Dialled == {c \in Connections : c < next_connection_id}

\* A connection serves the client that dialled it and no other.
OwnConnections ==
    /\ IsMap(links, Clients) /\ IsMap(owners, Connections) /\ peers \subseteq Dialled
    /\ \A p \in Clients : links[p] # None => links[p] \in Dialled /\ owners[links[p]] = p
    /\ \A p \in Clients : sessions[p] = None => links[p] = None /\ events[p] = <<>>
    /\ \A c \in Dialled : /\ owners[c] \in Clients
                          /\ OwnSeat(owners[c], memberships[c])
                          /\ OwnCommands(owners[c], wires[c])
    /\ \A c \in Connections \ Dialled : c \notin sockets /\ wires[c] = <<>>

OwnSides ==
    /\ OwnConnections
    /\ \A p \in Clients :
          OwnProgram(p, sessions[p], seat_files[p], commands[p], events[p])
    /\ \A t \in Tasks : \A m \in outgoing[t] : IsNews(m) =>
          m.target \in Dialled /\ OwnMessage(owners[m.target], m)

-----------------------------------------------------------------------------
(* What each step does to what is under way                                *)

\* new is f with another value at x.
IsReplaced(new, f, S, x, e) ==
    /\ IsMap(new, S)
    /\ new[x] = e
    /\ \A y \in S \ {x} : new[y] = f[y]

LEMMA Replaced ==
    ASSUME NEW S, NEW f, IsMap(f, S), NEW x \in S, NEW e
    PROVE  IsReplaced([f EXCEPT ![x] = e], f, S, x, e)
BY ExceptIsMap DEF IsReplaced

LEMMA SameHub ==
    ASSUME IInv, UNCHANGED vars
    PROVE  IInv' /\ RoomsStep /\ issued \subseteq issued'
<1>1. IInv'
  BY NextKeepsInvariant
<1> QED
  BY <1>1, UnchangedRoomsStay DEF vars, Stays

\* A step that leaves all but the hub and client p alone, and gives p no news: p
\* keeps its connection, or loses it, or has a new one.
LEMMA ClientStep ==
    ASSUME IInv, IInv', RoomsStep, issued \subseteq issued', NothingStale, OwnSides,
           UNCHANGED <<outgoing, ahead, overtaken>>, Shapes',
           \A c \in Connections : GoodRequests(wires'[c]),
           NEW p \in Clients,
           \A q \in Clients \ {p} :
               /\ sessions'[q] = sessions[q] /\ seat_files'[q] = seat_files[q]
               /\ commands'[q] = commands[q] /\ events'[q] = events[q]
               /\ links'[q] = links[q],
           links'[p] \in {links[p], None} \/ links'[p] \notin Dialled,
           GoodClient(sessions'[p], seat_files'[p], commands'[p], events'[p]),
           \A g \in GameIds, n \in Nat :
               Holds(sessions'[p], events'[p], g, n) => Holds(sessions[p], events[p], g, n)
    PROVE  NothingStale'
<1>1. \A q \in Clients : GoodClient(sessions'[q], seat_files'[q], commands'[q], events'[q])
  BY DEF NothingStale
<1>2. \A q \in Clients, g \in GameIds, n \in Nat :
          Holds(sessions'[q], events'[q], g, n) => Holds(sessions[q], events[q], g, n)
  OBVIOUS
<1>3. \A g \in GameIds, n \in Nat : Past(g, n) => Past(g, n)'
  BY PastStays
<1>4. HeldIsPast'
  BY <1>2, <1>3 DEF NothingStale, HeldIsPast
<1>5. NewBatches'
  <2> SUFFICES ASSUME NEW t \in Tasks, NEW m \in outgoing[t]
               PROVE  /\ IsLetter(m) /\ GoodMessage(m)
                      /\ IsNews(m) => Past(m.view.game_id, m.view.revision)'
                      /\ \A q \in Clients, g \in GameIds, n \in Nat :
                            /\ links'[q] = m.target /\ m.target \notin overtaken[t]
                            /\ Holds(sessions'[q], events'[q], g, n)
                            => NotBefore(m, g, n)
    BY DEF NewBatches
  <2>1. /\ IsLetter(m) /\ GoodMessage(m)
        /\ IsNews(m) => Past(m.view.game_id, m.view.revision)
        /\ \A q \in Clients, g \in GameIds, n \in Nat :
              /\ links[q] = m.target /\ m.target \notin overtaken[t]
              /\ Holds(sessions[q], events[q], g, n)
              => NotBefore(m, g, n)
    BY DEF NothingStale, NewBatches
  <2>2. IsNews(m) => m.view.game_id \in GameIds /\ m.view.revision \in Nat
    BY <2>1 DEF GoodMessage, Views
  <2>3. IsNews(m) => m.target \in Dialled /\ m.target # None
    BY NoneAssumption DEF OwnSides, Dialled, Connections
  <2>4. ASSUME NEW q \in Clients, NEW g \in GameIds, NEW n \in Nat,
               links'[q] = m.target, m.target \notin overtaken[t],
               Holds(sessions'[q], events'[q], g, n)
        PROVE  NotBefore(m, g, n)
    <3>1. CASE ~IsNews(m)
      BY <3>1 DEF NotBefore
    <3>2. CASE IsNews(m)
      <4>1. links'[q] = links[q]
        BY <2>3, <2>4, <3>2
      <4> QED
        BY <1>2, <2>1, <2>4, <4>1
    <3> QED
      BY <3>1, <3>2
  <2> QED
    BY <1>3, <2>1, <2>2, <2>4
<1>6. InOrder'
  BY DEF NothingStale, InOrder
<1> QED
  BY <1>1, <1>4, <1>5, <1>6 DEF NothingStale

\* A call of the hub: what it answers is newer than all that is under way.
LEMMA CallStep ==
    ASSUME IInv, NothingStale, HubCall, NEW t \in Tasks, Answer(t),
           UNCHANGED <<sessions, seat_files, events, links>>,
           IsMap(commands, Clients)', IsMap(wires, Connections)',
           \A p \in Clients : GoodRequests(commands'[p]),
           \A c \in Connections : GoodRequests(wires'[c])
    PROVE  NothingStale'
<1> DEFINE batch == {Envelope(d) : d \in deliveries'}
           earlier == {u \in Tasks : Receivers(outgoing[u]) \cap Receivers(batch) # {}}
<1>1. /\ outgoing' = [outgoing EXCEPT ![t] = batch]
      /\ ahead' = [ahead EXCEPT ![t] = earlier]
      /\ overtaken' = overtaken
  BY DEF Answer
<1>2. \A m \in batch : \E d \in deliveries' : m = Envelope(d)
  OBVIOUS
<1>3. \A u \in Tasks : \A m \in outgoing[u] : \A k \in batch :
          m.target = k.target => u \in earlier
  BY DEF Receivers
<1> HIDE DEF batch, earlier
<1>4. IsReplaced(outgoing', outgoing, Tasks, t, batch)
  BY <1>1, Replaced DEF NothingStale, Shapes
<1>5. IsReplaced(ahead', ahead, Tasks, t, earlier)
  BY <1>1, Replaced DEF NothingStale, Shapes
<1>6. Shapes'
  BY <1>4, <1>5 DEF NothingStale, Shapes, IsReplaced
<1>7. \A p \in Clients : GoodClient(sessions'[p], seat_files'[p], commands'[p], events'[p])
  BY DEF NothingStale, GoodClient
<1>8. \A g \in GameIds, n \in Nat : Past(g, n) => Past(g, n)'
  BY PastStays DEF HubCall
<1>9. HeldIsPast'
  BY <1>8 DEF NothingStale, HeldIsPast
<1>10. ASSUME NEW m \in batch
       PROVE  /\ IsLetter(m) /\ GoodMessage(m)
              /\ IsNews(m) => Past(m.view.game_id, m.view.revision)'
              /\ \A g \in GameIds, n \in Nat : Past(g, n) => NotBefore(m, g, n)
  BY <1>2, EnvelopeIsGood
<1>11. ASSUME NEW u \in Tasks, NEW m \in outgoing[u]
       PROVE  /\ IsLetter(m) /\ GoodMessage(m)
              /\ IsNews(m) => /\ m.view.game_id \in GameIds /\ m.view.revision \in Nat
                              /\ Past(m.view.game_id, m.view.revision)
                              /\ Past(m.view.game_id, m.view.revision)'
  BY <1>8 DEF NothingStale, NewBatches, GoodMessage, Views
<1>12. NewBatches'
  <2> SUFFICES ASSUME NEW u \in Tasks, NEW m \in outgoing'[u]
               PROVE  /\ IsLetter(m) /\ GoodMessage(m)
                      /\ IsNews(m) => Past(m.view.game_id, m.view.revision)'
                      /\ \A p \in Clients, g \in GameIds, n \in Nat :
                            /\ links[p] = m.target /\ m.target \notin overtaken[u]
                            /\ Holds(sessions[p], events[p], g, n)
                            => NotBefore(m, g, n)
    BY <1>1 DEF NewBatches
  <2>1. CASE u = t
    BY <1>4, <1>10, <2>1 DEF IsReplaced, NothingStale, HeldIsPast
  <2>2. CASE u # t
    <3>1. m \in outgoing[u]
      BY <1>4, <2>2 DEF IsReplaced
    <3> QED
      BY <1>11, <3>1 DEF NothingStale, NewBatches
  <2> QED
    BY <2>1, <2>2
<1>13. InOrder'
  <2> SUFFICES ASSUME NEW u \in Tasks, NEW v \in Tasks, u # v,
                      NEW m \in outgoing'[u], NEW k \in outgoing'[v],
                      m.target = k.target, IsNews(k), u \notin ahead'[v]
               PROVE  NotBefore(m, k.view.game_id, k.view.revision)
    BY DEF InOrder
  <2>1. CASE v = t
    <3>1. k \in batch /\ m \in outgoing[u] /\ ahead'[v] = earlier
      BY <1>4, <1>5, <2>1 DEF IsReplaced
    <3> QED
      BY <1>3, <3>1
  <2>2. CASE u = t
    <3>1. m \in batch /\ k \in outgoing[v]
      BY <1>4, <2>2 DEF IsReplaced
    <3> QED
      BY <1>10, <1>11, <3>1
  <2>3. CASE u # t /\ v # t
    <3>1. m \in outgoing[u] /\ k \in outgoing[v] /\ ahead'[v] = ahead[v]
      BY <1>4, <1>5, <2>3 DEF IsReplaced
    <3> QED
      BY <3>1 DEF NothingStale, InOrder
  <2> QED
    BY <2>1, <2>2, <2>3
<1> QED
  BY <1>6, <1>7, <1>9, <1>12, <1>13 DEF NothingStale

LEMMA PrefixIsPart ==
    ASSUME NEW queue, IsQueue(queue), NEW n \in Nat, n <= Len(queue)
    PROVE  IsPart(SubSeq(queue, 1, n), queue)
<1> DEFINE k == 0
<1>1. k \in Nat /\ k <= n /\ k + 1 = 1
  OBVIOUS
<1> HIDE DEF k
<1>2. IsPart(SubSeq(queue, k + 1, n), queue)
  BY <1>1, SubSeqIsPart
<1> QED
  BY <1>1, <1>2

LEMMA LaunchKeepsUp ==
    ASSUME IInv, NothingStale, OwnSides, NEW p \in Clients, Launch(p)
    PROVE  NothingStale'
<1>1. GoodClient(sessions[p], seat_files[p], commands[p], events[p]) /\ Shapes
  BY DEF NothingStale
<1>2. sessions["host"] # None => sessions["host"].invite_code \in Codes \cup {None}
  BY DEF NothingStale, GoodClient, Clients, OnlineSessions
<1>3. PICK code \in Codes \cup {None}, seat \in Membership \cup {None} :
          sessions' = [sessions EXCEPT ![p] = Launched(code, seat)]
  BY <1>1, <1>2 DEF Launch, GoodClient
<1> DEFINE session == Launched(code, seat)
<1>4. session \in OnlineSessions /\ session.view.game_id = None
  BY DEF Launched, Blank, OnlineSessions, Views, Statuses
<1>5. sessions' = [sessions EXCEPT ![p] = session]
  BY <1>3
<1> HIDE DEF session
<1>6. IsReplaced(sessions', sessions, Clients, p, session)
  BY <1>1, <1>5, Replaced DEF Shapes
<1>7. UNCHANGED <<vars, seat_files, commands, events, links, wires, outgoing, ahead, overtaken>>
  BY DEF Launch, serverVars, historyVars
<1>8. GoodClient(sessions'[p], seat_files'[p], commands'[p], events'[p])
  <2>1. \A i \in 1..Len(events[p]) : GoodMessage(events[p][i])
    BY <1>1 DEF GoodClient, GoodQueue
  <2>2. \A i \in 1..Len(events[p]) :
            NotBefore(events[p][i], session.view.game_id, session.view.revision)
    BY <1>4, <2>1 DEF GoodMessage, NotBefore
  <2> QED
    BY <1>1, <1>4, <1>6, <1>7, <2>2 DEF GoodClient, IsReplaced
<1>9. \A g \in GameIds, n \in Nat :
          Holds(sessions'[p], events'[p], g, n) => Holds(sessions[p], events[p], g, n)
  BY <1>4, <1>6, <1>7, HubAssumption DEF Holds, IsReplaced
<1>10. Shapes'
  BY <1>1, <1>6, <1>7 DEF Shapes, IsReplaced
<1> QED
  BY <1>6, <1>7, <1>8, <1>9, <1>10, SameHub, ClientStep DEF NothingStale, IsReplaced

LEMMA QuitKeepsUp ==
    ASSUME IInv, NothingStale, OwnSides, NEW p \in Clients, Quit(p)
    PROVE  NothingStale'
<1>1. GoodClient(sessions[p], seat_files[p], commands[p], events[p]) /\ Shapes
  BY DEF NothingStale
<1>2. IsReplaced(sessions', sessions, Clients, p, None)
  BY <1>1, Replaced DEF Shapes, Quit
<1>3. IsReplaced(commands', commands, Clients, p, <<>>)
  BY <1>1, Replaced DEF Shapes, Quit
<1>4. IsReplaced(events', events, Clients, p, <<>>)
  BY <1>1, Replaced DEF Shapes, Quit
<1>5. UNCHANGED <<vars, seat_files, outgoing, ahead, overtaken>>
  BY DEF Quit
<1>6. GoodClient(sessions'[p], seat_files'[p], commands'[p], events'[p])
  BY <1>1, <1>2, <1>3, <1>4, <1>5, EmptyQueueIsGood DEF GoodClient, IsReplaced
<1>7. \A g, n : ~Holds(sessions'[p], events'[p], g, n)
  BY <1>2, <1>4 DEF Holds, IsReplaced
<1>8. IsMap(wires', Connections) /\ \A c \in Connections : GoodRequests(wires'[c])
  <2>1. CASE wires' = wires
    BY <1>1, <2>1 DEF NothingStale, Shapes
  <2>2. CASE wires' # wires
    <3>1. PICK read \in 0..Len(commands[p]) :
              wires' = [wires EXCEPT ![links[p]] = SubSeq(commands[p], 1, read)]
      BY <2>2 DEF Quit
    <3>2. links[p] \in Connections
      BY <2>2 DEF Quit, IInv, TypeOK
    <3>3. GoodRequests(SubSeq(commands[p], 1, read))
      BY <1>1, PrefixIsPart, PartIsGood DEF GoodClient, GoodRequests
    <3> DEFINE part == SubSeq(commands[p], 1, read)
    <3>4. wires' = [wires EXCEPT ![links[p]] = part] /\ GoodRequests(part)
      BY <3>1, <3>3
    <3> HIDE DEF part
    <3>5. IsReplaced(wires', wires, Connections, links[p], part)
      BY <1>1, <3>2, <3>4, Replaced DEF Shapes
    <3> QED
      BY <3>4, <3>5 DEF NothingStale, IsReplaced
  <2> QED
    BY <2>1, <2>2
<1>9. Shapes'
  BY <1>1, <1>2, <1>3, <1>4, <1>5, <1>8 DEF Shapes, IsReplaced
<1>10. IsReplaced(links', links, Clients, p, None)
  BY Replaced DEF OwnSides, OwnConnections, Quit
<1> QED
  BY <1>2, <1>3, <1>4, <1>5, <1>6, <1>7, <1>8, <1>9, <1>10, SameHub, ClientStep
     DEF vars, IsReplaced

\* What the worker itself reports is no news of a game.
LEMMA MarkedQueueIsGood ==
    ASSUME NEW queue, GoodQueue(queue), NEW m, m.event \in Markers
    PROVE  /\ GoodQueue(Append(queue, m))
           /\ \A g, n : NotBefore(m, g, n)
           /\ Len(queue) \in Nat /\ Len(Append(queue, m)) = Len(queue) + 1
           /\ \A i \in 1..Len(Append(queue, m)) :
                 \/ i \in 1..Len(queue) /\ Append(queue, m)[i] = queue[i]
                 \/ ~IsNews(Append(queue, m)[i])
<1>1. GoodMessage(m) /\ ~IsNews(m) /\ \A g, n : NotBefore(m, g, n)
  BY DEF GoodMessage, IsNews, NewsEvents, NotBefore, Markers, Events, Sent
<1>2. /\ Len(queue) \in Nat /\ Len(Append(queue, m)) = Len(queue) + 1
      /\ \A i \in 1..Len(queue) : Append(queue, m)[i] = queue[i]
      /\ Append(queue, m)[Len(queue) + 1] = m
  BY AppendFacts DEF GoodQueue
<1>3. GoodQueue(Append(queue, m))
  BY <1>1, AppendIsGood
<1>4. \A i \in 1..Len(Append(queue, m)) : i \in 1..Len(queue) \/ i = Len(queue) + 1
  BY <1>2
<1> QED
  BY <1>1, <1>2, <1>3, <1>4

LEMMA DialKeepsUp ==
    ASSUME IInv, NothingStale, OwnSides, NEW p \in Clients, Dial(p)
    PROVE  NothingStale'
<1>1. GoodClient(sessions[p], seat_files[p], commands[p], events[p]) /\ Shapes
  BY DEF NothingStale
<1> DEFINE m == [event |-> "Connected"]
           queue == events[p]
           new == Append(queue, m)
<1>3. events' = [events EXCEPT ![p] = new]
  BY DEF Dial
<1>a. GoodQueue(queue) /\ m.event \in Markers
  BY <1>1 DEF GoodClient, Markers
<1> HIDE DEF m
<1>2. /\ GoodQueue(new) /\ \A g, n : NotBefore(m, g, n)
      /\ Len(queue) \in Nat /\ Len(new) = Len(queue) + 1
      /\ \A i \in 1..Len(new) : (i \in 1..Len(queue) /\ new[i] = queue[i]) \/ ~IsNews(new[i])
  BY <1>a, MarkedQueueIsGood
<1> HIDE DEF new
<1>4. IsReplaced(events', events, Clients, p, new)
  BY <1>1, <1>3, Replaced DEF Shapes
<1>5. UNCHANGED <<sessions, seat_files, commands, wires, outgoing, ahead, overtaken>>
  BY DEF Dial, historyVars
<1>6. IInv' /\ RoomsStep /\ issued \subseteq issued'
  <2>1. Connect
    BY DEF Dial
  <2>2. IInv'
    BY <2>1, NextKeepsInvariant DEF Next
  <2> QED
    BY <2>1, <2>2, UnchangedRoomsStay DEF Connect, Stays
<1>7. GoodClient(sessions'[p], seat_files'[p], commands'[p], events'[p])
  BY <1>1, <1>2, <1>4, <1>5 DEF GoodClient, NotBefore, IsReplaced
<1>8. \A g \in GameIds, n \in Nat :
          Holds(sessions'[p], events'[p], g, n) => Holds(sessions[p], events[p], g, n)
  BY <1>2, <1>4, <1>5 DEF Holds, IsReplaced
<1>9. Shapes'
  BY <1>1, <1>4, <1>5 DEF Shapes, IsReplaced
<1>10. IsReplaced(links', links, Clients, p, next_connection_id)
  BY Replaced DEF OwnSides, OwnConnections, Dial
<1>11. next_connection_id \notin Dialled
  BY DEF Dialled, IInv, TypeOK
<1> QED
  BY <1>4, <1>5, <1>6, <1>7, <1>8, <1>9, <1>10, <1>11, ClientStep DEF NothingStale, IsReplaced

LEMMA LoseKeepsUp ==
    ASSUME IInv, NothingStale, OwnSides, NEW p \in Clients, Lose(p)
    PROVE  NothingStale'
<1> DEFINE c == links[p]
           m == [event |-> "Disconnected"]
<1>1. GoodClient(sessions[p], seat_files[p], commands[p], events[p]) /\ Shapes
  BY DEF NothingStale
<1>2. PICK n \in 0..Len(events[p]) :
          events' = [events EXCEPT ![p] = Append(SubSeq(events[p], 1, n), m)]
  BY DEF Lose, ArrivedPrefixes
<1>3. PICK read \in 0..Len(commands[p]), gone \in 0..Len(commands[p]) :
          /\ commands' = [commands EXCEPT ![p] =
                             SubSeq(commands[p], gone + 1, Len(commands[p]))]
          /\ wires' = [wires EXCEPT ![c] = IF c \in sockets THEN SubSeq(commands[p], 1, read)
                                           ELSE <<>>]
  BY DEF Lose
<1> DEFINE part == SubSeq(events[p], 1, n)
           new == Append(part, m)
           rest == SubSeq(commands[p], gone + 1, Len(commands[p]))
           wire == IF c \in sockets THEN SubSeq(commands[p], 1, read) ELSE <<>>
<1>4. /\ GoodQueue(part) /\ IsPart(part, events[p])
      /\ \A i \in 1..Len(part) : \E j \in 1..Len(events[p]) : part[i] = events[p][j]
  <2>1. GoodQueue(events[p]) /\ IsQueue(events[p])
    BY <1>1 DEF GoodClient, GoodQueue
  <2>2. n \in Nat /\ n <= Len(events[p])
    BY <2>1 DEF IsQueue
  <2>3. IsPart(part, events[p])
    BY <2>1, <2>2, PrefixIsPart
  <2> HIDE DEF part
  <2> QED
    BY <2>1, <2>3, PartIsGood
<1>5. GoodRequests(rest) /\ GoodRequests(wire)
  <2>1. IsQueue(commands[p]) /\ GoodRequests(commands[p])
    BY <1>1 DEF GoodClient, GoodRequests
  <2>2. Len(commands[p]) \in Nat
    BY <2>1 DEF IsQueue
  <2>3. GoodRequests(rest)
    BY <2>1, <2>2, SubSeqIsPart, PartIsGood
  <2>4. GoodRequests(SubSeq(commands[p], 1, read))
    BY <2>1, <2>2, PrefixIsPart, PartIsGood
  <2> QED
    BY <2>3, <2>4, EmptyQueueIsGood
<1>6. /\ events' = [events EXCEPT ![p] = new]
      /\ commands' = [commands EXCEPT ![p] = rest]
      /\ wires' = [wires EXCEPT ![c] = wire]
  BY <1>2, <1>3
<1>a. m.event \in Markers
  BY DEF Markers
<1> HIDE DEF part, rest, wire, m
<1>7. /\ GoodQueue(new) /\ \A g, k : NotBefore(m, g, k)
      /\ Len(part) \in Nat /\ Len(new) = Len(part) + 1
      /\ \A i \in 1..Len(new) : (i \in 1..Len(part) /\ new[i] = part[i]) \/ ~IsNews(new[i])
  BY <1>4, <1>a, MarkedQueueIsGood
<1> HIDE DEF new
<1>8. IsReplaced(events', events, Clients, p, new)
  BY <1>1, <1>6, Replaced DEF Shapes
<1>9. IsReplaced(commands', commands, Clients, p, rest)
  BY <1>1, <1>6, Replaced DEF Shapes
<1>10. IsMap(wires', Connections) /\ \A d \in Connections : GoodRequests(wires'[d])
  BY <1>1, <1>5, <1>6, ExceptIsMap DEF Shapes, NothingStale, IsMap
<1>11. UNCHANGED <<vars, sessions, seat_files, outgoing, ahead, overtaken>>
  BY DEF Lose, historyVars
<1>12. \A i \in 1..Len(new) : IsNews(new[i]) =>
           \E j \in 1..Len(events[p]) : new[i] = events[p][j]
  BY <1>4, <1>7
<1>13. GoodClient(sessions'[p], seat_files'[p], commands'[p], events'[p])
  <2>1. ASSUME NEW i \in 1..Len(new), NEW g, NEW k,
               \A j \in 1..Len(events[p]) : NotBefore(events[p][j], g, k)
        PROVE  NotBefore(new[i], g, k)
    BY <1>12, <2>1 DEF NotBefore
  <2> QED
    BY <1>1, <1>5, <1>7, <1>8, <1>9, <1>11, <2>1 DEF GoodClient, IsReplaced
<1>14. \A g \in GameIds, k \in Nat :
           Holds(sessions'[p], events'[p], g, k) => Holds(sessions[p], events[p], g, k)
  BY <1>8, <1>11, <1>12 DEF Holds, IsReplaced
<1>15. Shapes'
  BY <1>1, <1>8, <1>9, <1>10, <1>11 DEF Shapes, IsReplaced
<1>16. IsReplaced(links', links, Clients, p, None)
  BY Replaced DEF OwnSides, OwnConnections, Lose
<1> QED
  BY <1>8, <1>9, <1>10, <1>11, <1>13, <1>14, <1>15, <1>16, SameHub, ClientStep DEF IsReplaced

\* What an event does to a program: news replaces what it shows.
LEMMA AfterIsGood ==
    ASSUME NEW session \in OnlineSessions, NEW m, GoodMessage(m)
    PROVE  LET after == After(session, m)
           IN  /\ after \in OnlineSessions
               /\ IsNews(m) => after.view = m.view
               /\ ~IsNews(m) => /\ after.view.game_id = session.view.game_id
                                /\ after.view.revision = session.view.revision
<1> DEFINE after == After(session, m)
           kept == /\ after.view.game_id = session.view.game_id
                   /\ after.view.revision = session.view.revision
<1>1. m.event \in Events /\ session.view \in Views
  BY DEF GoodMessage, OnlineSessions
<1>2. CASE m.event \in {"GameCreated", "GameJoined"}
  <2> DEFINE seated == [session EXCEPT
                          !.seat = m.token,
                          !.invite_code = IF m.event = "GameCreated" THEN m.invite_code ELSE @]
  <2>1. /\ IsNews(m) /\ m.view \in Views /\ m.token \in Membership
        /\ m.event = "GameCreated" => m.invite_code \in Codes
    BY <1>2 DEF GoodMessage, IsNews, NewsEvents
  <2>2. seated \in OnlineSessions
    BY <2>1 DEF OnlineSessions
  <2>3. after = Applied(seated, m.view, TRUE)
    BY <1>2 DEF After, Seated
  <2> HIDE DEF seated
  <2>4. after \in OnlineSessions /\ after.view = m.view
    BY <2>1, <2>2, <2>3 DEF Applied, OnlineSessions
  <2> QED
    BY <2>1, <2>4
<1>3. CASE m.event \in {"GameUpdated", "MoveRejected"}
  <2>1. IsNews(m) /\ m.view \in Views
    BY <1>3 DEF GoodMessage, IsNews, NewsEvents
  <2>2. \E acknowledge \in BOOLEAN : after = Applied(session, m.view, acknowledge)
    BY <1>3 DEF After
  <2>3. after \in OnlineSessions /\ after.view = m.view
    BY <2>1, <2>2 DEF Applied, OnlineSessions
  <2> QED
    BY <2>1, <2>3
<1>4. CASE m.event \in {"OpponentDisconnected", "OpponentReconnected"}
  <2>1. ~IsNews(m)
    BY <1>4 DEF IsNews, NewsEvents
  <2>2. PICK connected \in BOOLEAN : after = WithOpponent(session, connected)
    BY <1>4 DEF After
  <2> DEFINE opponent == IF session.seat = None THEN "white" ELSE Flip(session.seat.side)
  <2>3. opponent \in Sides
    BY FlipIsOther DEF Sides, OnlineSessions, Membership
  <2>4. PICK there \in SUBSET Sides :
            after = session \/ after = [session EXCEPT !.view = [@ EXCEPT !.connected = there]]
    <3>1. session.view.connected \subseteq Sides
      BY <1>1 DEF Views
    <3>2. \/ after = session
          \/ after = [session EXCEPT !.view.connected = session.view.connected \cup {opponent}]
          \/ after = [session EXCEPT !.view.connected = session.view.connected \ {opponent}]
      BY <2>2 DEF WithOpponent
    <3> HIDE DEF opponent, after
    <3> QED
      BY <2>3, <3>1, <3>2
  <2>5. [session.view EXCEPT !.connected = there] \in Views
    BY <1>1, <2>4 DEF Views
  <2>6. after \in OnlineSessions /\ kept
    BY <1>1, <2>4, <2>5 DEF OnlineSessions, Views
  <2> QED
    BY <2>1, <2>6
<1>5. CASE m.event \in {"Error", "Connected", "Disconnected"}
  <2>1. ~IsNews(m)
    BY <1>5 DEF IsNews, NewsEvents
  <2>2. \/ after = [session EXCEPT !.display = "Connected", !.move_pending = TRUE]
        \/ after = [session EXCEPT !.display = "Offline", !.move_pending = TRUE]
        \/ after = [session EXCEPT !.display = "Stopped", !.move_pending = FALSE]
        \/ after = session
    <3>1. CASE m.event = "Connected"
      BY <3>1 DEF After
    <3>2. CASE m.event = "Disconnected"
      BY <3>2 DEF After
    <3>3. CASE m.event = "Error"
      <4>1. after = AfterError(session, m.code)
        BY <3>3 DEF After
      <4> QED
        BY <4>1 DEF AfterError
    <3> QED
      BY <1>5, <3>1, <3>2, <3>3
  <2>3. after \in OnlineSessions /\ after.view = session.view
    BY <2>2 DEF OnlineSessions
  <2> QED
    BY <2>1, <2>3
<1> QED
  BY <1>1, <1>2, <1>3, <1>4, <1>5 DEF Events, Sent, NewsEvents, Markers

LEMMA EntryCommandIsGood ==
    ASSUME NEW session \in OnlineSessions
    PROVE  GoodCommand(EntryCommand(session))
BY DEF EntryCommand, GoodCommand, OnlineSessions

LEMMA HandleEventKeepsUp ==
    ASSUME IInv, NothingStale, OwnSides, NEW p \in Clients, HandleEvent(p)
    PROVE  NothingStale'
<1> DEFINE queue == events[p]
           m == Head(queue)
           rest == Tail(queue)
           session == sessions[p]
           after == After(session, m)
<1>1. GoodClient(session, seat_files[p], commands[p], queue) /\ Shapes
  BY DEF NothingStale
<1>2. session \in OnlineSessions /\ queue # <<>> /\ IsQueue(queue) /\ GoodQueue(queue)
  BY <1>1 DEF HandleEvent, GoodClient, GoodQueue
<1>3. /\ IsPart(rest, queue) /\ Len(queue) \in Nat /\ 1 \in 1..Len(queue) /\ m = queue[1]
      /\ Len(rest) = Len(queue) - 1
      /\ \A i \in 1..Len(rest) : rest[i] = queue[1 + i]
  BY <1>2, TailIsPart
<1>4. GoodMessage(m) /\ GoodQueue(rest)
  BY <1>2, <1>3, PartIsGood DEF GoodQueue
<1>5. /\ after \in OnlineSessions
      /\ IsNews(m) => after.view = m.view
      /\ ~IsNews(m) => /\ after.view.game_id = session.view.game_id
                       /\ after.view.revision = session.view.revision
  BY <1>2, <1>4, AfterIsGood
<1>6. /\ sessions' = [sessions EXCEPT ![p] = after]
      /\ events' = [events EXCEPT ![p] = rest]
      /\ UNCHANGED <<vars, links, wires, outgoing, ahead, overtaken>>
  BY DEF HandleEvent, serverVars
<1>7. \E seat \in Membership \cup {None} :
         \/ seat_files' = [seat_files EXCEPT ![p] = seat]
         \/ seat = seat_files[p] /\ seat_files' = seat_files
  <2>1. m.event \in {"GameCreated", "GameJoined"} => m.token \in Membership
    BY <1>4 DEF GoodMessage
  <2> QED
    BY <1>1, <2>1 DEF HandleEvent, GoodClient
<1>8. \/ commands' = commands
      \/ commands' = [commands EXCEPT ![p] = Append(commands[p], EntryCommand(session))]
  BY DEF HandleEvent, Queue
<1>9. GoodRequests(Append(commands[p], EntryCommand(session)))
  BY <1>1, <1>2, EntryCommandIsGood, AppendIsGood DEF GoodClient
<1> DEFINE asked == Append(commands[p], EntryCommand(session))
<1>10. commands' = commands \/ commands' = [commands EXCEPT ![p] = asked]
  BY <1>8
<1>11. GoodRequests(asked)
  BY <1>9
<1>12. \A i \in 1..Len(rest) :
           /\ IsNews(m) => NotBefore(rest[i], m.view.game_id, m.view.revision)
           /\ NotBefore(rest[i], session.view.game_id, session.view.revision)
  <2> SUFFICES ASSUME NEW i \in 1..Len(rest)
               PROVE  /\ IsNews(m) => NotBefore(rest[i], m.view.game_id, m.view.revision)
                      /\ NotBefore(rest[i], session.view.game_id, session.view.revision)
    OBVIOUS
  <2>1. 1 + i \in 1..Len(queue) /\ 1 < 1 + i /\ rest[i] = queue[1 + i]
    BY <1>3
  <2>2. session # None
    BY DEF HandleEvent
  <2> HIDE DEF queue, rest, session, m
  <2> QED
    BY <1>1, <1>2, <1>3, <2>1, <2>2 DEF GoodQueue, GoodClient
<1> HIDE DEF rest, after, asked, m
<1>13. IsReplaced(sessions', sessions, Clients, p, after)
  BY <1>1, <1>6, Replaced DEF Shapes
<1>14. IsReplaced(events', events, Clients, p, rest)
  BY <1>1, <1>6, Replaced DEF Shapes
<1>15. /\ IsMap(seat_files', Clients) /\ seat_files'[p] \in Membership \cup {None}
       /\ \A q \in Clients \ {p} : seat_files'[q] = seat_files[q]
  BY <1>1, <1>7 DEF Shapes, IsMap
<1>16. /\ IsMap(commands', Clients) /\ GoodRequests(commands'[p])
       /\ \A q \in Clients \ {p} : commands'[q] = commands[q]
  <2>1. CASE commands' = commands
    BY <1>1, <2>1 DEF Shapes, GoodClient
  <2>2. CASE commands' = [commands EXCEPT ![p] = asked]
    <3>1. IsReplaced(commands', commands, Clients, p, asked)
      BY <1>1, <2>2, Replaced DEF Shapes
    <3> QED
      BY <1>11, <3>1 DEF IsReplaced
  <2> QED
    BY <1>10, <2>1, <2>2
<1>17. GoodClient(sessions'[p], seat_files'[p], commands'[p], events'[p])
  <2>1. \A i \in 1..Len(rest) : NotBefore(rest[i], after.view.game_id, after.view.revision)
    BY <1>5, <1>12
  <2> QED
    BY <1>4, <1>5, <1>13, <1>14, <1>15, <1>16, <2>1 DEF GoodClient, IsReplaced
<1>18. \A g \in GameIds, n \in Nat :
           Holds(sessions'[p], events'[p], g, n) => Holds(sessions[p], events[p], g, n)
  <2> SUFFICES ASSUME NEW g, NEW n, Holds(after, rest, g, n)
               PROVE  Holds(session, queue, g, n)
    BY <1>13, <1>14 DEF IsReplaced
  <2>1. session # None
    BY DEF HandleEvent
  <2>2. CASE after.view.game_id = g /\ after.view.revision = n
    BY <1>3, <1>5, <2>1, <2>2 DEF Holds
  <2>3. CASE \E i \in 1..Len(rest) :
                IsNews(rest[i]) /\ rest[i].view.game_id = g /\ rest[i].view.revision = n
    <3>1. PICK i \in 1..Len(rest) :
              IsNews(rest[i]) /\ rest[i].view.game_id = g /\ rest[i].view.revision = n
      BY <2>3
    <3>2. 1 + i \in 1..Len(queue) /\ rest[i] = queue[1 + i]
      BY <1>3
    <3> QED
      BY <3>1, <3>2 DEF Holds, IsReplaced
  <2> QED
    BY <2>2, <2>3 DEF Holds
<1>19. Shapes'
  BY <1>1, <1>6, <1>13, <1>14, <1>15, <1>16 DEF Shapes, IsReplaced
<1> QED
  BY <1>6, <1>13, <1>14, <1>15, <1>16, <1>17, <1>18, <1>19, SameHub, ClientStep
     DEF NothingStale, IsReplaced

LEMMA SendKeepsUp ==
    ASSUME IInv, NothingStale, OwnSides, NEW p \in Clients, SendMove(p) \/ SendDraw(p) \/ SendResignation(p)
    PROVE  NothingStale'
<1>1. GoodClient(sessions[p], seat_files[p], commands[p], events[p]) /\ Shapes
  BY DEF NothingStale
<1>2. sessions[p] \in OnlineSessions
  BY <1>1 DEF GoodClient, SendMove, SendDraw, SendResignation
<1>3. PICK command : Request(p, command) /\ GoodCommand(command)
  <2>1. sessions[p].view.moves \in Nat
    BY <1>2 DEF OnlineSessions, Views
  <2>2. CASE SendMove(p)
    <3>1. PICK move \in MoveKinds :
              Request(p, [kind |-> "PlayMove", game_id |-> sessions[p].seat.game_id,
                          ply |-> sessions[p].view.moves, move |-> move])
      BY <2>2 DEF SendMove
    <3> DEFINE asked == [kind |-> "PlayMove", game_id |-> sessions[p].seat.game_id,
                         ply |-> sessions[p].view.moves, move |-> move]
    <3>2. GoodCommand(asked) /\ Request(p, asked)
      BY <2>1, <3>1 DEF GoodCommand
    <3> QED
      BY <3>2
  <2>3. CASE SendDraw(p)
    <3> DEFINE offer == [kind |-> "OfferDraw", game_id |-> sessions[p].seat.game_id]
               reply(accept) == [kind |-> "RespondDraw", accept |-> accept,
                                 game_id |-> sessions[p].seat.game_id]
    <3>1. Request(p, offer) \/ \E accept \in BOOLEAN : Request(p, reply(accept))
      BY <2>3 DEF SendDraw
    <3>2. GoodCommand(offer) /\ \A accept \in BOOLEAN : GoodCommand(reply(accept))
      BY DEF GoodCommand
    <3> HIDE DEF offer, reply
    <3> QED
      BY <3>1, <3>2
  <2>4. CASE SendResignation(p)
    BY <2>4 DEF SendResignation, GoodCommand
  <2> QED
    BY <2>2, <2>3, <2>4
<1> DEFINE asked == Append(commands[p], command)
<1>4. /\ commands' = [commands EXCEPT ![p] = asked]
      /\ UNCHANGED <<vars, seat_files, events, links, wires, outgoing, ahead, overtaken>>
  BY <1>3 DEF Request, Queue, serverVars, historyVars
<1>5. GoodRequests(asked)
  BY <1>1, <1>3, AppendIsGood DEF GoodClient
<1> HIDE DEF asked
<1>6. IsReplaced(commands', commands, Clients, p, asked)
  BY <1>1, <1>4, Replaced DEF Shapes
<1>7. \/ sessions' = sessions
      \/ sessions' = [sessions EXCEPT ![p] = [sessions[p] EXCEPT !.move_pending = TRUE]]
  BY DEF SendMove, SendDraw, SendResignation
<1>8. /\ IsMap(sessions', Clients)
      /\ sessions'[p] \in OnlineSessions /\ sessions'[p].view = sessions[p].view
      /\ \A q \in Clients \ {p} : sessions'[q] = sessions[q]
  <2> DEFINE session == [sessions[p] EXCEPT !.move_pending = TRUE]
  <2>1. session \in OnlineSessions /\ session.view = sessions[p].view
    BY <1>2 DEF OnlineSessions
  <2>2. CASE sessions' = sessions
    BY <1>1, <1>2, <2>2 DEF Shapes
  <2>3. CASE sessions' = [sessions EXCEPT ![p] = session]
    <3> HIDE DEF session
    <3>1. IsReplaced(sessions', sessions, Clients, p, session)
      BY <1>1, <2>3, Replaced DEF Shapes
    <3> QED
      BY <2>1, <3>1 DEF IsReplaced
  <2> QED
    BY <1>7, <2>2, <2>3
<1>9. sessions[p] # None
  BY DEF SendMove, SendDraw, SendResignation
<1>10. GoodClient(sessions'[p], seat_files'[p], commands'[p], events'[p])
  BY <1>1, <1>4, <1>5, <1>6, <1>8, <1>9 DEF GoodClient, IsReplaced
<1>11. \A g \in GameIds, n \in Nat :
           Holds(sessions'[p], events'[p], g, n) => Holds(sessions[p], events[p], g, n)
  BY <1>4, <1>8, <1>9 DEF Holds
<1>12. Shapes'
  BY <1>1, <1>4, <1>6, <1>8 DEF Shapes, IsReplaced
<1> QED
  BY <1>4, <1>6, <1>8, <1>10, <1>11, <1>12, SameHub, ClientStep DEF NothingStale, IsReplaced

\* What a client is sent comes from the outbox of its own connection.
LEMMA DispatchReaches ==
    ASSUME NEW t \in Tasks, Dispatch(t)
    PROVE  /\ peers' \subseteq peers /\ IsMap(events', Clients)
           /\ \A p \in Clients :
                 \/ events'[p] = events[p]
                 \/ \E m \in outgoing[t] :
                       /\ m.target = links[p] /\ links[p] \in peers
                       /\ events'[p] = Append(events[p], [m EXCEPT
                              !.late = m.late \/ links[p] \in overtaken[t]])
<1> DEFINE Told(q) == {m \in outgoing[t] : Reaches(m, q)}
           Letter(q) == CHOOSE m \in Told(q) : TRUE
           Stamped(q) == [Letter(q) EXCEPT !.late = @ \/ links[q] \in overtaken[t]]
<1>1. PICK slow \in SUBSET Clients :
          /\ peers' = peers \ {links[q] : q \in slow}
          /\ events' = [q \in Clients |-> IF Told(q) = {} \/ q \in slow THEN events[q]
                                          ELSE Append(events[q], Stamped(q))]
  BY DEF Dispatch
<1>2. peers' \subseteq peers
  BY <1>1
<1>3. \A q \in Clients : Told(q) # {} => Letter(q) \in Told(q)
  OBVIOUS
<1>4. ASSUME NEW q \in Clients, NEW m \in Told(q)
      PROVE  m \in outgoing[t] /\ m.target = links[q] /\ links[q] \in peers
  BY DEF Reaches
<1>5. \A q \in Clients : Stamped(q) = [Letter(q) EXCEPT
                             !.late = Letter(q).late \/ links[q] \in overtaken[t]]
  OBVIOUS
<1> HIDE DEF Told, Letter, Stamped
<1>6. IsMap(events', Clients)
  BY <1>1 DEF IsMap
<1>7. \A q \in Clients : events'[q] = IF Told(q) = {} \/ q \in slow THEN events[q]
                                      ELSE Append(events[q], Stamped(q))
  BY <1>1
<1>8. ASSUME NEW q \in Clients, events'[q] # events[q]
      PROVE  \E m \in outgoing[t] :
                /\ m.target = links[q] /\ links[q] \in peers
                /\ events'[q] = Append(events[q], [m EXCEPT
                       !.late = m.late \/ links[q] \in overtaken[t]])
  <2>1. Told(q) # {} /\ events'[q] = Append(events[q], Stamped(q))
    BY <1>7, <1>8
  <2>2. Letter(q) \in outgoing[t] /\ Letter(q).target = links[q] /\ links[q] \in peers
    BY <1>3, <1>4, <2>1
  <2> QED
    BY <1>5, <2>1, <2>2
<1> QED
  BY <1>2, <1>6, <1>8

LEMMA DispatchKeepsUp ==
    ASSUME IInv, NothingStale, NEW t \in Tasks, Dispatch(t)
    PROVE  NothingStale'
<1>1. /\ outgoing' = [outgoing EXCEPT ![t] = {}]
      /\ UNCHANGED <<vars, sessions, seat_files, links, commands, wires>>
  BY DEF Dispatch
<1>2. IsReplaced(outgoing', outgoing, Tasks, t, {})
  BY <1>1, Replaced DEF NothingStale, Shapes
<1>3. /\ IsMap(ahead', Tasks)
      /\ \A u \in Tasks \ {t} :
            /\ ahead'[u] = ahead[u] \ {t}
            /\ overtaken'[u] = IF u \in ahead[t]
                               THEN overtaken[u] \cup
                                      (Receivers(outgoing[u]) \cap Receivers(outgoing[t]))
                               ELSE overtaken[u]
  BY DEF Dispatch, IsMap
<1>4. /\ IsMap(events', Clients)
      /\ \A p \in Clients :
            \/ events'[p] = events[p]
            \/ \E m \in outgoing[t] :
                  /\ m.target = links[p]
                  /\ events'[p] = Append(events[p], [m EXCEPT
                         !.late = m.late \/ links[p] \in overtaken[t]])
  BY DispatchReaches
<1>5. Shapes'
  BY <1>1, <1>2, <1>3, <1>4 DEF NothingStale, Shapes, IsReplaced
<1>6. ASSUME NEW q \in Clients
      PROVE  /\ GoodClient(sessions'[q], seat_files'[q], commands'[q], events'[q])
             /\ \A g \in GameIds, n \in Nat :
                   Holds(sessions'[q], events'[q], g, n) =>
                      \/ Holds(sessions[q], events[q], g, n)
                      \/ \E m \in outgoing[t] :
                            /\ m.target = links[q] /\ IsNews(m)
                            /\ m.view.game_id = g /\ m.view.revision = n
  <2> DEFINE queue == events[q]
             session == sessions[q]
  <2>1. GoodClient(session, seat_files[q], commands[q], queue)
    BY DEF NothingStale
  <2>2. CASE events'[q] = queue
    BY <1>1, <2>1, <2>2
  <2>3. CASE events'[q] # queue
    <3>1. PICK m \in outgoing[t] :
              /\ m.target = links[q]
              /\ events'[q] = Append(queue, [m EXCEPT
                     !.late = m.late \/ links[q] \in overtaken[t]])
      BY <1>4, <2>3
    <3> DEFINE late == m.late \/ links[q] \in overtaken[t]
               stamped == [m EXCEPT !.late = late]
               new == Append(queue, stamped)
    <3>2. /\ IsLetter(m) /\ GoodMessage(m)
          /\ \A g \in GameIds, n \in Nat :
                links[q] = m.target /\ m.target \notin overtaken[t] /\ Holds(session, queue, g, n)
                => NotBefore(m, g, n)
      BY DEF NothingStale, NewBatches
    <3>3. late \in BOOLEAN /\ (links[q] \notin overtaken[t] => late = m.late)
                           /\ (links[q] \in overtaken[t] => late)
      BY <3>2 DEF IsLetter, GoodMessage
    <3>4. /\ events'[q] = new /\ stamped = [m EXCEPT !.late = late]
      BY <3>1
    <3> HIDE DEF late
    <3>5. /\ GoodMessage(stamped) /\ IsNews(stamped) = IsNews(m)
          /\ IsNews(m) => stamped.view = m.view
          /\ late = m.late => \A g, n : NotBefore(m, g, n) => NotBefore(stamped, g, n)
          /\ late => \A g, n : NotBefore(stamped, g, n)
      BY <3>2, <3>3, StampedLetter DEF IsNews
    <3>6. \A g \in GameIds, n \in Nat : Holds(session, queue, g, n) => NotBefore(stamped, g, n)
      BY <3>1, <3>2, <3>3, <3>5
    <3> HIDE DEF stamped
    <3>7. /\ IsQueue(queue) /\ GoodQueue(queue)
          /\ \A i \in 1..Len(queue) : GoodMessage(queue[i])
      BY <2>1 DEF GoodClient, GoodQueue
    <3>8. /\ Len(queue) \in Nat /\ Len(new) = Len(queue) + 1
          /\ \A i \in 1..Len(queue) : new[i] = queue[i]
          /\ new[Len(queue) + 1] = stamped
      BY <3>7, AppendFacts
    <3>9. ASSUME NEW i \in 1..Len(queue), IsNews(queue[i])
          PROVE  NotBefore(stamped, queue[i].view.game_id, queue[i].view.revision)
      <4>1. queue[i].view.game_id \in GameIds /\ queue[i].view.revision \in Nat
        BY <3>7, <3>9 DEF GoodMessage, Views
      <4>2. Holds(session, queue, queue[i].view.game_id, queue[i].view.revision)
        BY <3>9 DEF Holds
      <4> QED
        BY <3>6, <4>1, <4>2
    <3>10. GoodQueue(new)
      BY <3>5, <3>7, <3>9, AppendIsGood
    <3>11. ASSUME session # None
           PROVE  NotBefore(stamped, session.view.game_id, session.view.revision)
      <4>1. /\ session.view.game_id \in GameIds \cup {None}
            /\ session.view.revision \in Nat
        BY <2>1, <3>11 DEF GoodClient, OnlineSessions, Views
      <4>2. CASE session.view.game_id = None
        <5>1. IsNews(stamped) => stamped.view.game_id # None
          BY <3>5 DEF GoodMessage
        <5> QED
          BY <4>2, <5>1 DEF NotBefore
      <4>3. CASE session.view.game_id \in GameIds
        <5>1. Holds(session, queue, session.view.game_id, session.view.revision)
          BY <3>11 DEF Holds
        <5> QED
          BY <3>6, <4>1, <4>3, <5>1
      <4> QED
        BY <4>1, <4>2, <4>3
    <3> HIDE DEF new
    <3>12. \A i \in 1..Len(new) : i \in 1..Len(queue) \/ i = Len(queue) + 1
      BY <3>8
    <3>13. session # None =>
              \A i \in 1..Len(new) : NotBefore(new[i], session.view.game_id, session.view.revision)
      BY <2>1, <3>8, <3>11, <3>12 DEF GoodClient
    <3>14. GoodClient(session, seat_files[q], commands[q], new)
      BY <2>1, <3>10, <3>13 DEF GoodClient
    <3>15. \A g \in GameIds, n \in Nat :
               Holds(session, new, g, n) =>
                  \/ Holds(session, queue, g, n)
                  \/ IsNews(m) /\ m.view.game_id = g /\ m.view.revision = n
      BY <3>5, <3>8, <3>12 DEF Holds
    <3> QED
      BY <1>1, <3>1, <3>4, <3>14, <3>15
  <2> QED
    BY <2>2, <2>3
<1>7. \A g, n : Past(g, n) => Past(g, n)'
  BY <1>1 DEF vars, Past
<1>8. HeldIsPast'
  <2> SUFFICES ASSUME NEW q \in Clients, NEW g \in GameIds, NEW n \in Nat,
                      Holds(sessions'[q], events'[q], g, n)
               PROVE  Past(g, n)
    BY <1>7 DEF HeldIsPast
  <2>1. CASE Holds(sessions[q], events[q], g, n)
    BY <2>1 DEF NothingStale, HeldIsPast
  <2>2. CASE \E m \in outgoing[t] : IsNews(m) /\ m.view.game_id = g /\ m.view.revision = n
    BY <2>2 DEF NothingStale, NewBatches
  <2> QED
    BY <1>6, <2>1, <2>2
<1>9. NewBatches'
  <2> SUFFICES ASSUME NEW u \in Tasks, NEW m \in outgoing'[u]
               PROVE  /\ IsLetter(m) /\ GoodMessage(m)
                      /\ IsNews(m) => Past(m.view.game_id, m.view.revision)'
                      /\ \A p \in Clients, g \in GameIds, n \in Nat :
                            /\ links[p] = m.target /\ m.target \notin overtaken'[u]
                            /\ Holds(sessions'[p], events'[p], g, n)
                            => NotBefore(m, g, n)
    BY <1>1 DEF NewBatches
  <2>1. u # t /\ m \in outgoing[u]
    BY <1>2 DEF IsReplaced
  <2>2. /\ IsLetter(m) /\ GoodMessage(m)
        /\ IsNews(m) => Past(m.view.game_id, m.view.revision)
        /\ \A p \in Clients, g \in GameIds, n \in Nat :
              /\ links[p] = m.target /\ m.target \notin overtaken[u]
              /\ Holds(sessions[p], events[p], g, n)
              => NotBefore(m, g, n)
    BY <2>1 DEF NothingStale, NewBatches
  <2>3. ASSUME NEW p \in Clients, NEW g \in GameIds, NEW n \in Nat,
               links[p] = m.target, m.target \notin overtaken'[u],
               Holds(sessions'[p], events'[p], g, n)
        PROVE  NotBefore(m, g, n)
    <3>1. m.target \notin overtaken[u]
      BY <1>3, <2>1, <2>3
    <3>2. CASE Holds(sessions[p], events[p], g, n)
      BY <2>2, <2>3, <3>1, <3>2
    <3>3. CASE \E k \in outgoing[t] : /\ k.target = links[p] /\ IsNews(k)
                                      /\ k.view.game_id = g /\ k.view.revision = n
      <4>1. PICK k \in outgoing[t] : /\ k.target = links[p] /\ IsNews(k)
                                     /\ k.view.game_id = g /\ k.view.revision = n
        BY <3>3
      <4>2. m.target \in Receivers(outgoing[u]) \cap Receivers(outgoing[t])
        BY <2>1, <2>3, <4>1 DEF Receivers
      <4>3. u \notin ahead[t]
        BY <1>3, <2>1, <2>3, <4>2
      <4> QED
        BY <2>1, <2>3, <4>1, <4>3 DEF NothingStale, InOrder
    <3> QED
      BY <1>6, <2>3, <3>2, <3>3
  <2> QED
    BY <1>7, <2>2, <2>3
<1>10. InOrder'
  <2> SUFFICES ASSUME NEW u \in Tasks, NEW v \in Tasks, u # v,
                      NEW m \in outgoing'[u], NEW k \in outgoing'[v],
                      m.target = k.target, IsNews(k), u \notin ahead'[v]
               PROVE  NotBefore(m, k.view.game_id, k.view.revision)
    BY DEF InOrder
  <2>1. u # t /\ v # t /\ m \in outgoing[u] /\ k \in outgoing[v]
    BY <1>2 DEF IsReplaced
  <2>2. u \notin ahead[v]
    BY <1>3, <2>1
  <2> QED
    BY <2>1, <2>2 DEF NothingStale, InOrder
<1> QED
  BY <1>1, <1>5, <1>6, <1>8, <1>9, <1>10 DEF NothingStale

LEMMA FirstRequest ==
    ASSUME NEW queue, GoodRequests(queue), queue # <<>>
    PROVE  GoodCommand(Head(queue)) /\ GoodRequests(Tail(queue))
BY TailIsPart, PartIsGood DEF GoodRequests

LEMMA ServeKeepsUp ==
    ASSUME IInv, NothingStale, NEW p \in Clients, Serve(p)
    PROVE  IInv' /\ NothingStale'
<1> DEFINE c == links[p]
           rest == Tail(commands[p])
<1>1. c \in Connections
  BY DEF Serve, IInv, TypeOK
<1>2. GoodRequests(commands[p]) /\ commands[p] # <<>> /\ Shapes
  BY DEF Serve, NothingStale, GoodClient
<1>3. GoodCommand(Head(commands[p])) /\ GoodRequests(rest)
  BY <1>2, FirstRequest
<1>4. /\ Handle(c, Head(commands[p])) /\ Answer(c)
      /\ commands' = [commands EXCEPT ![p] = rest]
      /\ UNCHANGED <<sessions, seat_files, events, links, wires>>
  BY DEF Serve
<1> HIDE DEF c, rest
<1>5. HubCall
  BY <1>1, <1>3, <1>4, HandleIsCall
<1>6. IsReplaced(commands', commands, Clients, p, rest)
  BY <1>2, <1>4, Replaced DEF Shapes
<1>7. \A q \in Clients : GoodRequests(commands'[q])
  BY <1>3, <1>6 DEF IsReplaced, NothingStale, GoodClient
<1>8. /\ IsMap(wires, Connections)' /\ IsMap(commands, Clients)'
      /\ \A d \in Connections : GoodRequests(wires'[d])
  BY <1>2, <1>4, <1>6 DEF IsReplaced, NothingStale, Shapes
<1>9. c \in Tasks
  BY <1>1 DEF Tasks
<1> QED
  BY <1>4, <1>5, <1>7, <1>8, <1>9, CallStep DEF HubCall

LEMMA ServeLateKeepsUp ==
    ASSUME IInv, NothingStale, NEW c \in Connections, ServeLate(c)
    PROVE  IInv' /\ NothingStale'
<1> DEFINE rest == Tail(wires[c])
<1>1. GoodRequests(wires[c]) /\ wires[c] # <<>> /\ Shapes
  BY DEF ServeLate, NothingStale
<1>2. GoodCommand(Head(wires[c])) /\ GoodRequests(rest)
  BY <1>1, FirstRequest
<1>3. /\ Handle(c, Head(wires[c])) /\ Answer(c)
      /\ wires' = [wires EXCEPT ![c] = rest]
      /\ UNCHANGED <<sessions, seat_files, events, links, commands>>
  BY DEF ServeLate, clientVars
<1> HIDE DEF rest
<1>4. HubCall
  BY <1>2, <1>3, HandleIsCall
<1>5. IsReplaced(wires', wires, Connections, c, rest)
  BY <1>1, <1>3, Replaced DEF Shapes
<1>6. /\ IsMap(wires, Connections)' /\ IsMap(commands, Clients)'
      /\ \A d \in Connections : GoodRequests(wires'[d])
      /\ \A q \in Clients : GoodRequests(commands'[q])
  BY <1>1, <1>2, <1>3, <1>5 DEF IsReplaced, NothingStale, Shapes, GoodClient
<1>7. c \in Tasks
  BY DEF Tasks
<1> QED
  BY <1>3, <1>4, <1>6, <1>7, CallStep DEF HubCall

LEMMA EndSocketKeepsUp ==
    ASSUME IInv, NothingStale, NEW c \in Connections, EndSocket(c)
    PROVE  IInv' /\ NothingStale'
<1>1. Shapes
  BY DEF NothingStale
<1>2. /\ Disconnect(c) /\ Answer(c)
      /\ wires' = [wires EXCEPT ![c] = <<>>]
      /\ UNCHANGED <<sessions, seat_files, events, links, commands>>
  BY DEF EndSocket, clientVars
<1>3. HubCall
  BY <1>2, DisconnectIsCall
<1>4. IsReplaced(wires', wires, Connections, c, <<>>)
  BY <1>1, <1>2, Replaced DEF Shapes
<1>5. /\ IsMap(wires, Connections)' /\ IsMap(commands, Clients)'
      /\ \A d \in Connections : GoodRequests(wires'[d])
      /\ \A q \in Clients : GoodRequests(commands'[q])
  BY <1>1, <1>2, <1>4, EmptyQueueIsGood DEF IsReplaced, NothingStale, Shapes, GoodClient
<1>6. c \in Tasks
  BY DEF Tasks
<1> QED
  BY <1>2, <1>3, <1>5, <1>6, CallStep DEF HubCall

LEMMA TickerKeepsUp ==
    ASSUME IInv, NothingStale, TickerCalls
    PROVE  IInv' /\ NothingStale'
<1>1. /\ TickAt /\ Answer(Ticker)
      /\ UNCHANGED <<sessions, seat_files, events, links, commands, wires>>
  BY DEF TickerCalls, clientVars
<1>2. HubCall
  BY <1>1, TickAtIsCall
<1>3. /\ IsMap(wires, Connections)' /\ IsMap(commands, Clients)'
      /\ \A d \in Connections : GoodRequests(wires'[d])
      /\ \A q \in Clients : GoodRequests(commands'[q])
  BY <1>1 DEF NothingStale, Shapes, GoodClient
<1>4. Ticker \in Tasks
  BY DEF Tasks
<1> QED
  BY <1>1, <1>2, <1>3, <1>4, CallStep DEF HubCall

LEMMA OnlineStepKeepsUp ==
    ASSUME IInv, NothingStale, OwnSides, [OnlineNext]_onlineVars
    PROVE  IInv' /\ NothingStale'
<1>1. ASSUME NEW p \in Clients,
             \/ Launch(p) \/ Quit(p) \/ Lose(p) \/ HandleEvent(p)
             \/ SendMove(p) \/ SendDraw(p) \/ SendResignation(p)
      PROVE  IInv' /\ NothingStale'
  <2>1. UNCHANGED vars
    BY <1>1 DEF Launch, Quit, Lose, HandleEvent, SendMove, SendDraw, SendResignation, Request
  <2> QED
    BY <1>1, <2>1, SameHub, LaunchKeepsUp, QuitKeepsUp, LoseKeepsUp, HandleEventKeepsUp,
       SendKeepsUp
<1>2. ASSUME NEW p \in Clients, Dial(p)
      PROVE  IInv' /\ NothingStale'
  BY <1>2, NextKeepsInvariant, DialKeepsUp DEF Dial, Next
<1>3. ASSUME NEW p \in Clients, Serve(p)
      PROVE  IInv' /\ NothingStale'
  BY <1>3, ServeKeepsUp
<1>4. ASSUME NEW c \in Connections, ServeLate(c) \/ EndSocket(c)
      PROVE  IInv' /\ NothingStale'
  BY <1>4, ServeLateKeepsUp, EndSocketKeepsUp
<1>5. ASSUME NEW t \in Tasks, Dispatch(t)
      PROVE  IInv' /\ NothingStale'
  <2>1. UNCHANGED vars
    BY <1>5 DEF Dispatch
  <2> QED
    BY <1>5, <2>1, SameHub, DispatchKeepsUp
<1>6. CASE TickerCalls
  BY <1>6, TickerKeepsUp
<1>7. CASE UNCHANGED onlineVars
  <2>1. UNCHANGED vars /\ UNCHANGED <<clientVars, serverVars, historyVars>>
    BY <1>7 DEF onlineVars
  <2>2. NothingStale'
    BY <2>1 DEF vars, clientVars, serverVars, historyVars, NothingStale, Shapes, HeldIsPast,
                NewBatches, InOrder, Past
  <2> QED
    BY <2>1, <2>2, SameHub
<1> QED
  BY <1>1, <1>2, <1>3, <1>4, <1>5, <1>6, <1>7 DEF OnlineNext

-----------------------------------------------------------------------------
(* What each step does to the seats                                        *)

\* A request seats its connection on the side of the client that made it, or nobody.
LEMMA HandleSeatsOwner ==
    ASSUME IInv, NEW c \in Connections, NEW command, GoodCommand(command), Handle(c, command),
           NEW p \in Clients, OwnCommand(p, command), OwnSeat(p, memberships[c])
    PROVE  /\ OwnSeat(p, memberships'[c])
           /\ \A d \in Connections : d # c => memberships'[d] \in {memberships[d], None}
           /\ \A d \in deliveries' : d.event \in Seatings => d.target = c /\ memberships'[c] # None
           /\ UNCHANGED <<sockets, next_connection_id>>
<1> DEFINE Goal == /\ OwnSeat(p, memberships'[c])
                   /\ \A d \in Connections : d # c => memberships'[d] \in {memberships[d], None}
                   /\ \A d \in deliveries' : d.event \in Seatings =>
                         d.target = c /\ memberships'[c] # None
                   /\ UNCHANGED <<sockets, next_connection_id>>
<1>1. CASE \E code : Refuse(c, code)
  BY <1>1 DEF Refuse, Refusal, Seatings
<1>2. ASSUME NEW g \in GameIds, NEW side \in Sides, side = SideOf(p),
             memberships'[c] = [game_id |-> g, side |-> side],
             \A d \in Connections : d # c => memberships'[d] \in {memberships[d], None},
             \A d \in deliveries' : d.event \in Seatings => d.target = c,
             UNCHANGED <<sockets, next_connection_id>>
      PROVE  Goal
  <2>1. memberships'[c] # None
    BY <1>2, OptionAssumption DEF Membership
  <2> QED
    BY <1>2, <2>1 DEF OwnSeat
<1>3. CASE /\ command.kind = "CreateGame" /\ ~\E code : Refuse(c, code)
           /\ \E tc \in TimeControls : CreateGame(c, TRUE, tc)
  <2>1. PICK g \in GameIds : \E room :
            /\ memberships' = [memberships EXCEPT ![c] = [game_id |-> g, side |-> "white"]]
            /\ deliveries' = {News(c, "GameCreated", g, room)}
            /\ UNCHANGED <<sockets, next_connection_id>>
    BY <1>3 DEF CreateGame
  <2>2. memberships'[c] = [game_id |-> g, side |-> "white"]
    BY <2>1 DEF IInv, TypeOK
  <2>3. \A d \in Connections : d # c => memberships'[d] = memberships[d]
    BY <2>1 DEF IInv, TypeOK
  <2>4. \A d \in deliveries' : d.target = c
    BY <2>1 DEF News
  <2>5. "white" \in Sides /\ SideOf(p) = "white"
    BY <1>3 DEF OwnCommand, SideOf, Sides
  <2> QED
    BY <1>2, <2>1, <2>2, <2>3, <2>4, <2>5
<1>4. CASE /\ command.kind = "JoinGame" /\ ~\E code : Refuse(c, code)
           /\ JoinGame(c, TRUE, command.code)
  <2> DEFINE g == invites[command.code]
             new == Settled([rooms[g] EXCEPT !.seats["black"] = NewSlot(identities[c], c),
                                             !.started_at = now,
                                             !.game = Begun(@, now)], now)
  <2>1. /\ memberships' = [memberships EXCEPT ![c] = [game_id |-> g, side |-> "black"]]
        /\ deliveries' = {News(c, "GameJoined", g, new)}
               \cup {News(d, "GameUpdated", g, new) : d \in Targets(rooms[g])}
        /\ UNCHANGED <<sockets, next_connection_id>>
        /\ g # None
    BY <1>4 DEF JoinGame
  <2>2. g \in GameIds
    BY <1>4, <2>1 DEF GoodCommand, IInv, TypeOK
  <2> HIDE DEF g, new
  <2>3. memberships'[c] = [game_id |-> g, side |-> "black"]
    BY <2>1 DEF IInv, TypeOK
  <2>4. \A d \in Connections : d # c => memberships'[d] = memberships[d]
    BY <2>1 DEF IInv, TypeOK
  <2>5. \A d \in deliveries' : d.event \in Seatings => d.target = c
    BY <2>1 DEF News, Seatings
  <2>6. "black" \in Sides /\ SideOf(p) = "black"
    BY <1>4 DEF OwnCommand, SideOf, Sides
  <2> QED
    BY <1>2, <2>1, <2>2, <2>3, <2>4, <2>5, <2>6
<1>5. CASE /\ command.kind = "Reconnect" /\ ~\E code : Refuse(c, code)
           /\ Reconnect(c, command.seat.game_id, command.seat)
  <2> DEFINE g == command.seat.game_id
  <2>1. PICK side \in Sides :
            /\ Token(g, side) = command.seat
            /\ memberships' = Transferred(rooms[g].seats[side].connection, c, g, side)
            /\ UNCHANGED <<sockets, next_connection_id>>
            /\ \E room, opponent :
                  deliveries' = {News(c, "GameJoined", g, room)}
                      \cup IF IsConnected(opponent)
                           THEN {Notice(opponent.connection, "OpponentReconnected", g)}
                           ELSE {}
    BY <1>5 DEF Reconnect
  <2>2. PICK room, opponent :
            deliveries' = {News(c, "GameJoined", g, room)}
                \cup IF IsConnected(opponent)
                     THEN {Notice(opponent.connection, "OpponentReconnected", g)}
                     ELSE {}
    BY <2>1
  <2>3. \A d \in deliveries' : d.event \in Seatings => d.target = c
    BY <2>2 DEF News, Notice, Seatings
  <2>4. /\ memberships'[c] = [game_id |-> g, side |-> side]
        /\ \A d \in Connections : d # c => memberships'[d] \in {memberships[d], None}
    BY <2>1 DEF Transferred
  <2>5. side = SideOf(p) /\ g \in GameIds
    BY <1>5, <2>1 DEF OwnCommand, GoodCommand, Membership, Token
  <2>6. UNCHANGED <<sockets, next_connection_id>>
    BY <2>1
  <2> HIDE DEF g
  <2>7. Goal
    <3> HIDE DEF Goal
    <3> QED
      BY <1>2, <2>3, <2>4, <2>5, <2>6
  <2> QED
    BY <2>7
<1>6. CASE /\ ~\E code : Refuse(c, code)
           /\ \/ PlayMove(c, command.game_id, command.ply, command.move, now)
              \/ OfferDraw(c, command.game_id)
              \/ RespondDraw(c, command.game_id, command.accept)
              \/ Resign(c, command.game_id)
  <2>1. /\ UNCHANGED <<memberships, sockets, next_connection_id>>
        /\ \/ \E g, room : deliveries' = {News(c, "MoveRejected", g, room)}
           \/ \E g, room : deliveries' = Broadcast(g, room)
    BY <1>6 DEF PlayMove, OfferDraw, RespondDraw, Resign, RefuseStranger, Publish
  <2>2. \A d \in deliveries' : d.event \in {"MoveRejected", "GameUpdated"}
    BY <2>1, BroadcastEvents DEF News
  <2> QED
    BY <2>1, <2>2 DEF Seatings
<1> QED
  BY <1>1, <1>3, <1>4, <1>5, <1>6 DEF Handle

\* A step of a client that tells nobody else anything.
LEMMA OwnStep ==
    ASSUME OwnSides, NEW p \in Clients,
           UNCHANGED <<memberships, sockets, next_connection_id, owners, outgoing, peers>>,
           IsMap(links', Clients),
           \A q \in Clients \ {p} :
               /\ sessions'[q] = sessions[q] /\ seat_files'[q] = seat_files[q]
               /\ commands'[q] = commands[q] /\ events'[q] = events[q]
               /\ links'[q] = links[q],
           OwnProgram(p, sessions'[p], seat_files'[p], commands'[p], events'[p]),
           links'[p] \in {links[p], None},
           sessions'[p] = None => links'[p] = None /\ events'[p] = <<>>,
           \A c \in Connections :
               \/ wires'[c] = wires[c]
               \/ c \in Dialled /\ owners[c] = p /\ OwnCommands(p, wires'[c])
    PROVE  OwnSides'
<1>1. Dialled' = Dialled
  BY DEF Dialled
<1>2. OwnConnections'
  <2>1. IsMap(links', Clients) /\ IsMap(owners', Connections) /\ peers' \subseteq Dialled'
    BY <1>1 DEF OwnSides, OwnConnections
  <2>2. \A q \in Clients : links'[q] # None => links'[q] \in Dialled' /\ owners'[links'[q]] = q
    BY <1>1 DEF OwnSides, OwnConnections
  <2>3. \A q \in Clients : sessions'[q] = None => links'[q] = None /\ events'[q] = <<>>
    BY DEF OwnSides, OwnConnections
  <2>4. \A c \in Dialled' : /\ owners'[c] \in Clients
                            /\ OwnSeat(owners'[c], memberships'[c])
                            /\ OwnCommands(owners'[c], wires'[c])
    <3> SUFFICES ASSUME NEW c \in Dialled
                 PROVE  /\ owners[c] \in Clients
                        /\ OwnSeat(owners[c], memberships[c])
                        /\ OwnCommands(owners[c], wires'[c])
      BY <1>1
    <3>1. /\ owners[c] \in Clients /\ OwnSeat(owners[c], memberships[c])
          /\ OwnCommands(owners[c], wires[c])
      BY DEF OwnSides, OwnConnections
    <3>2. c \in Connections
      BY DEF Dialled
    <3> QED
      BY <3>1, <3>2
  <2>5. \A c \in Connections \ Dialled' : c \notin sockets' /\ wires'[c] = <<>>
    BY <1>1 DEF OwnSides, OwnConnections
  <2> QED
    BY <2>1, <2>2, <2>3, <2>4, <2>5 DEF OwnConnections
<1>3. \A q \in Clients :
          OwnProgram(q, sessions'[q], seat_files'[q], commands'[q], events'[q])
  BY DEF OwnSides
<1>4. \A t \in Tasks : \A m \in outgoing'[t] : IsNews(m) =>
          m.target \in Dialled' /\ OwnMessage(owners'[m.target], m)
  BY <1>1 DEF OwnSides
<1> QED
  BY <1>2, <1>3, <1>4 DEF OwnSides

LEMMA OwnPart ==
    ASSUME NEW p, NEW queue, IsQueue(queue), NEW part, IsPart(part, queue)
    PROVE  /\ OwnCommands(p, queue) => OwnCommands(p, part)
           /\ OwnMessages(p, queue) => OwnMessages(p, part)
BY PartIsGood DEF OwnCommands, OwnMessages

LEMMA OwnAppend ==
    ASSUME NEW p, NEW queue, IsQueue(queue), NEW m
    PROVE  /\ OwnCommands(p, queue) /\ OwnCommand(p, m) => OwnCommands(p, Append(queue, m))
           /\ OwnMessages(p, queue) /\ OwnMessage(p, m) => OwnMessages(p, Append(queue, m))
<1> DEFINE new == Append(queue, m)
<1>1. /\ Len(queue) \in Nat /\ Len(new) = Len(queue) + 1
      /\ \A i \in 1..Len(queue) : new[i] = queue[i]
      /\ new[Len(queue) + 1] = m
  BY AppendFacts
<1> HIDE DEF new
<1>2. \A i \in 1..Len(new) : i \in 1..Len(queue) \/ i = Len(queue) + 1
  BY <1>1
<1>3. /\ OwnCommands(p, queue) /\ OwnCommand(p, m) => OwnCommands(p, new)
      /\ OwnMessages(p, queue) /\ OwnMessage(p, m) => OwnMessages(p, new)
  BY <1>1, <1>2 DEF OwnCommands, OwnMessages
<1> QED
  BY <1>3 DEF new

LEMMA LaunchOwns ==
    ASSUME IInv, NothingStale, OwnSides, NEW p \in Clients, Launch(p)
    PROVE  OwnSides'
<1>1. IsMap(sessions, Clients) /\ OwnProgram(p, sessions[p], seat_files[p], commands[p], events[p])
  BY DEF NothingStale, Shapes, OwnSides
<1> DEFINE Fits(next) == /\ OwnSeat(p, next.seat)
                         /\ next.code # None => p = "guest"
                         /\ next.seat = None /\ next.code = None => p = "host"
<1>2. PICK next : sessions' = [sessions EXCEPT ![p] = next] /\ Fits(next)
  <2>1. \A code, seat : Launched(code, seat).code = code /\ Launched(code, seat).seat = seat
    BY DEF Launched
  <2>2. OwnSeat(p, None) /\ OwnSeat(p, seat_files[p])
    BY <1>1 DEF OwnSeat, OwnProgram
  <2>3. \/ p = "host" /\ sessions' = [sessions EXCEPT ![p] = Launched(None, None)]
        \/ p = "guest" /\ \E k : k # None /\ sessions' = [sessions EXCEPT ![p] = Launched(k, None)]
        \/ /\ seat_files[p] # None
           /\ sessions' = [sessions EXCEPT ![p] = Launched(None, seat_files[p])]
    BY DEF Launch
  <2>4. CASE p = "host" /\ sessions' = [sessions EXCEPT ![p] = Launched(None, None)]
    <3>1. Fits(Launched(None, None))
      BY <2>1, <2>2, <2>4
    <3> QED
      BY <2>4, <3>1
  <2>5. ASSUME p = "guest", NEW k, k # None,
               sessions' = [sessions EXCEPT ![p] = Launched(k, None)]
        PROVE  \E next : sessions' = [sessions EXCEPT ![p] = next] /\ Fits(next)
    <3>1. Fits(Launched(k, None))
      BY <2>1, <2>2, <2>5
    <3> QED
      BY <2>5, <3>1
  <2>6. CASE /\ seat_files[p] # None
             /\ sessions' = [sessions EXCEPT ![p] = Launched(None, seat_files[p])]
    <3>1. Fits(Launched(None, seat_files[p]))
      BY <2>1, <2>2, <2>6
    <3> HIDE DEF Fits
    <3> QED
      BY <2>6, <3>1
  <2> QED
    BY <2>3, <2>4, <2>5, <2>6
<1>3. IsReplaced(sessions', sessions, Clients, p, next)
  BY <1>1, <1>2, Replaced
<1>4. UNCHANGED <<seat_files, links, commands, events, wires>>
  BY DEF Launch, serverVars
<1>5. UNCHANGED <<memberships, sockets, next_connection_id, owners, outgoing, peers>>
  BY DEF Launch, serverVars, vars
<1>6. OwnProgram(p, sessions'[p], seat_files'[p], commands'[p], events'[p])
  BY <1>1, <1>2, <1>3, <1>4 DEF OwnProgram, IsReplaced
<1>7. IsMap(links', Clients) /\ links'[p] = None /\ events'[p] = <<>>
  BY <1>4 DEF Launch, OwnSides, OwnConnections
<1> QED
  BY <1>3, <1>4, <1>5, <1>6, <1>7, OwnStep DEF IsReplaced

LEMMA QuitOwns ==
    ASSUME IInv, NothingStale, OwnSides, NEW p \in Clients, Quit(p)
    PROVE  OwnSides'
<1>1. /\ Shapes /\ IsMap(links, Clients) /\ IsQueue(commands[p])
      /\ OwnProgram(p, sessions[p], seat_files[p], commands[p], events[p])
  BY DEF NothingStale, GoodClient, GoodRequests, OwnSides, OwnConnections
<1>2. /\ IsReplaced(sessions', sessions, Clients, p, None)
      /\ IsReplaced(links', links, Clients, p, None)
      /\ IsReplaced(commands', commands, Clients, p, <<>>)
      /\ IsReplaced(events', events, Clients, p, <<>>)
  BY <1>1, Replaced DEF Shapes, Quit
<1>3. UNCHANGED <<memberships, sockets, next_connection_id, owners, outgoing, peers, seat_files>>
  BY DEF Quit, vars
<1>4. OwnProgram(p, sessions'[p], seat_files'[p], commands'[p], events'[p])
  BY <1>1, <1>2, <1>3 DEF OwnProgram, IsReplaced, OwnCommands, OwnMessages
<1>5. \A c \in Connections : \/ wires'[c] = wires[c]
                             \/ c \in Dialled /\ owners[c] = p /\ OwnCommands(p, wires'[c])
  <2>1. CASE wires' = wires
    BY <2>1
  <2>2. CASE wires' # wires
    <3>1. PICK read \in 0..Len(commands[p]) :
              wires' = [wires EXCEPT ![links[p]] = SubSeq(commands[p], 1, read)]
      BY <2>2 DEF Quit
    <3>2. links[p] \in Connections
      BY <2>2 DEF Quit, IInv, TypeOK
    <3>3. links[p] \in Dialled /\ owners[links[p]] = p
      BY <3>2, NoneAssumption DEF Connections, OwnSides, OwnConnections
    <3> DEFINE part == SubSeq(commands[p], 1, read)
    <3>4. IsPart(part, commands[p])
      BY <1>1, PrefixIsPart
    <3>5. OwnCommands(p, part)
      BY <1>1, <3>4, OwnPart DEF OwnProgram
    <3>6. wires' = [wires EXCEPT ![links[p]] = part]
      BY <3>1
    <3> HIDE DEF part
    <3>7. IsReplaced(wires', wires, Connections, links[p], part)
      BY <1>1, <3>2, <3>6, Replaced DEF Shapes
    <3> QED
      BY <3>3, <3>5, <3>7 DEF IsReplaced
  <2> QED
    BY <2>1, <2>2
<1> QED
  BY <1>2, <1>3, <1>4, <1>5, OwnStep DEF IsReplaced

LEMMA LoseOwns ==
    ASSUME IInv, NothingStale, OwnSides, NEW p \in Clients, Lose(p)
    PROVE  OwnSides'
<1> DEFINE c == links[p]
           m == [event |-> "Disconnected"]
<1>1. /\ Shapes /\ IsMap(links, Clients)
      /\ IsQueue(commands[p]) /\ Len(commands[p]) \in Nat
      /\ IsQueue(events[p]) /\ Len(events[p]) \in Nat
      /\ OwnProgram(p, sessions[p], seat_files[p], commands[p], events[p])
  BY DEF NothingStale, GoodClient, GoodRequests, GoodQueue, OwnSides, OwnConnections, IsQueue
<1>2. PICK n \in 0..Len(events[p]) :
          events' = [events EXCEPT ![p] = Append(SubSeq(events[p], 1, n), m)]
  BY DEF Lose, ArrivedPrefixes
<1>3. PICK read \in 0..Len(commands[p]), gone \in 0..Len(commands[p]) :
          /\ commands' = [commands EXCEPT ![p] =
                             SubSeq(commands[p], gone + 1, Len(commands[p]))]
          /\ wires' = [wires EXCEPT ![c] = IF c \in sockets THEN SubSeq(commands[p], 1, read)
                                           ELSE <<>>]
  BY DEF Lose
<1> DEFINE part == SubSeq(events[p], 1, n)
           new == Append(part, m)
           rest == SubSeq(commands[p], gone + 1, Len(commands[p]))
           wire == IF c \in sockets THEN SubSeq(commands[p], 1, read) ELSE <<>>
<1>4. OwnCommands(p, rest)
  BY <1>1, SubSeqIsPart, OwnPart DEF OwnProgram
<1>5. OwnCommands(p, wire)
  <2>1. IsPart(SubSeq(commands[p], 1, read), commands[p])
    BY <1>1, PrefixIsPart
  <2>2. OwnCommands(p, SubSeq(commands[p], 1, read))
    BY <1>1, <2>1, OwnPart DEF OwnProgram
  <2>3. OwnCommands(p, <<>>)
    BY DEF OwnCommands
  <2> QED
    BY <2>2, <2>3
<1>6. OwnMessages(p, new)
  <2>1. IsPart(part, events[p])
    BY <1>1, PrefixIsPart
  <2> HIDE DEF part
  <2>2. OwnMessages(p, part) /\ IsQueue(part)
    BY <1>1, <2>1, OwnPart DEF OwnProgram, IsPart
  <2>3. OwnMessage(p, m)
    BY DEF OwnMessage, Seatings
  <2> HIDE DEF m
  <2> QED
    BY <2>2, <2>3, OwnAppend
<1>7. /\ events' = [events EXCEPT ![p] = new] /\ commands' = [commands EXCEPT ![p] = rest]
      /\ wires' = [wires EXCEPT ![c] = wire] /\ links' = [links EXCEPT ![p] = None]
  BY <1>2, <1>3 DEF Lose
<1>8. c \in Connections /\ c \in Dialled /\ owners[c] = p
  BY DEF Lose, OwnSides, OwnConnections, Dialled
<1> HIDE DEF new, rest, wire, c
<1>9. /\ IsReplaced(events', events, Clients, p, new)
      /\ IsReplaced(commands', commands, Clients, p, rest)
      /\ IsReplaced(links', links, Clients, p, None)
      /\ IsReplaced(wires', wires, Connections, c, wire)
  BY <1>1, <1>7, <1>8, Replaced DEF Shapes
<1>10. UNCHANGED <<memberships, sockets, next_connection_id, owners, outgoing, peers,
                   sessions, seat_files>>
  BY DEF Lose, vars
<1>11. OwnProgram(p, sessions'[p], seat_files'[p], commands'[p], events'[p])
  BY <1>1, <1>4, <1>6, <1>9, <1>10 DEF OwnProgram, IsReplaced
<1>12. sessions'[p] # None
  BY <1>8, <1>10 DEF Lose, OwnSides, OwnConnections
<1>13. \A d \in Connections : \/ wires'[d] = wires[d]
                              \/ d \in Dialled /\ owners[d] = p /\ OwnCommands(p, wires'[d])
  BY <1>5, <1>8, <1>9 DEF IsReplaced
<1> QED
  BY <1>9, <1>10, <1>11, <1>12, <1>13, OwnStep DEF IsReplaced

\* What an event leaves of a program's seat and of the code it was started with.
LEMMA AfterSeat ==
    ASSUME NEW session \in OnlineSessions, NEW m, GoodMessage(m)
    PROVE  LET after == After(session, m)
           IN  /\ after.code = session.code
               /\ after.seat = IF m.event \in Seatings THEN m.token ELSE session.seat
               /\ m.event \in Seatings => m.token # None
<1> DEFINE after == After(session, m)
<1>1. m.event \in Events
  BY DEF GoodMessage
<1>2. CASE m.event \in Seatings
  <2>1. m.token \in Membership
    BY <1>2 DEF GoodMessage, Seatings
  <2>2. after = Seated(session, m)
    BY <1>2 DEF After, Seatings
  <2>3. after.code = session.code /\ after.seat = m.token
    BY <2>2 DEF Seated, Applied, OnlineSessions
  <2> QED
    BY <1>2, <2>1, <2>3, OptionAssumption
<1>3. CASE m.event \in {"GameUpdated", "MoveRejected"}
  <2>1. \E acknowledge \in BOOLEAN : after = Applied(session, m.view, acknowledge)
    BY <1>3 DEF After
  <2> QED
    BY <1>3, <2>1 DEF Applied, OnlineSessions, Seatings
<1>4. CASE m.event \in {"OpponentDisconnected", "OpponentReconnected"}
  <2>1. \E connected \in BOOLEAN : after = WithOpponent(session, connected)
    BY <1>4 DEF After
  <2> QED
    BY <1>4, <2>1 DEF WithOpponent, OnlineSessions, Seatings
<1>5. CASE m.event \in {"Error", "Connected", "Disconnected"}
  <2>1. \/ after = [session EXCEPT !.display = "Connected", !.move_pending = TRUE]
        \/ after = [session EXCEPT !.display = "Offline", !.move_pending = TRUE]
        \/ after = [session EXCEPT !.display = "Stopped", !.move_pending = FALSE]
        \/ after = session
    <3>1. CASE m.event = "Connected"
      BY <3>1 DEF After
    <3>2. CASE m.event = "Disconnected"
      BY <3>2 DEF After
    <3>3. CASE m.event = "Error"
      BY <3>3 DEF After, AfterError
    <3> QED
      BY <1>5, <3>1, <3>2, <3>3
  <2>2. after.code = session.code /\ after.seat = session.seat
    BY <2>1 DEF OnlineSessions
  <2>3. m.event \notin Seatings
    BY <1>5 DEF Seatings
  <2> QED
    BY <2>2, <2>3
<1> QED
  BY <1>1, <1>2, <1>3, <1>4, <1>5 DEF Events, Sent, NewsEvents, Markers, Seatings

LEMMA HandleEventOwns ==
    ASSUME IInv, NothingStale, OwnSides, NEW p \in Clients, HandleEvent(p)
    PROVE  OwnSides'
<1> DEFINE session == sessions[p]
           queue == events[p]
           m == Head(queue)
           rest == Tail(queue)
           after == After(session, m)
           entry == EntryCommand(session)
           asked == Append(commands[p], entry)
           seat == IF m.event \in Seatings THEN m.token ELSE seat_files[p]
<1>1. /\ Shapes /\ IsMap(links, Clients) /\ session \in OnlineSessions /\ session # None
      /\ IsQueue(commands[p]) /\ GoodQueue(queue) /\ IsQueue(queue) /\ queue # <<>>
      /\ OwnProgram(p, session, seat_files[p], commands[p], queue)
  BY DEF HandleEvent, NothingStale, GoodClient, GoodRequests, GoodQueue, OwnSides, OwnConnections
<1>2. IsPart(rest, queue) /\ 1 \in 1..Len(queue) /\ m = queue[1]
  BY <1>1, TailIsPart
<1>3. GoodMessage(m) /\ OwnMessage(p, m)
  BY <1>1, <1>2 DEF GoodQueue, OwnProgram, OwnMessages
<1>4. OwnMessages(p, rest)
  BY <1>1, <1>2, OwnPart DEF OwnProgram
<1>5. /\ after \in OnlineSessions /\ after.code = session.code
      /\ after.seat = IF m.event \in Seatings THEN m.token ELSE session.seat
      /\ m.event \in Seatings => m.token # None
  BY <1>1, <1>3, AfterIsGood, AfterSeat
<1>6. OwnCommand(p, entry)
  BY <1>1 DEF OwnProgram, EntryCommand, OwnCommand, OwnSeat
<1>7. OwnCommands(p, asked)
  BY <1>1, <1>6, OwnAppend DEF OwnProgram
<1>8. /\ sessions' = [sessions EXCEPT ![p] = after] /\ events' = [events EXCEPT ![p] = rest]
      /\ commands' = commands \/ commands' = [commands EXCEPT ![p] = asked]
      /\ IF m.event \in Seatings THEN seat_files' = [seat_files EXCEPT ![p] = m.token]
         ELSE seat_files' = seat_files
  BY DEF HandleEvent, Queue, Seatings
<1>9. UNCHANGED <<memberships, sockets, next_connection_id, owners, outgoing, peers, links, wires>>
  BY DEF HandleEvent, vars, serverVars
<1> HIDE DEF session, queue, m, rest, after, entry, asked
<1>10. IsReplaced(sessions', sessions, Clients, p, after)
  BY <1>1, <1>8, Replaced DEF Shapes
<1>11. IsReplaced(events', events, Clients, p, rest)
  BY <1>1, <1>8, Replaced DEF Shapes
<1>12. /\ OwnCommands(p, commands'[p])
       /\ \A q \in Clients \ {p} : commands'[q] = commands[q]
  <2>1. CASE commands' = commands
    BY <1>1, <2>1 DEF OwnProgram
  <2>2. CASE commands' = [commands EXCEPT ![p] = asked]
    <3>1. IsReplaced(commands', commands, Clients, p, asked)
      BY <1>1, <2>2, Replaced DEF Shapes
    <3> QED
      BY <1>7, <3>1 DEF IsReplaced
  <2> QED
    BY <1>8, <2>1, <2>2
<1>13. seat_files'[p] = seat /\ \A q \in Clients \ {p} : seat_files'[q] = seat_files[q]
  BY <1>1, <1>8 DEF Shapes, IsMap
<1>14. after # None
  BY <1>5, SessionAssumption
<1>15. OwnProgram(p, after, seat, commands'[p], rest)
  BY <1>1, <1>3, <1>4, <1>5, <1>12 DEF OwnProgram, OwnMessage, OwnSeat
<1> HIDE DEF seat
<1>16. OwnProgram(p, sessions'[p], seat_files'[p], commands'[p], events'[p])
  BY <1>10, <1>11, <1>13, <1>15 DEF IsReplaced
<1> QED
  BY <1>1, <1>9, <1>10, <1>11, <1>12, <1>13, <1>14, <1>16, OwnStep DEF IsReplaced

LEMMA SendOwns ==
    ASSUME IInv, NothingStale, OwnSides, NEW p \in Clients,
           SendMove(p) \/ SendDraw(p) \/ SendResignation(p)
    PROVE  OwnSides'
<1>1. /\ Shapes /\ IsMap(links, Clients) /\ sessions[p] \in OnlineSessions /\ sessions[p] # None
      /\ IsQueue(commands[p])
      /\ OwnProgram(p, sessions[p], seat_files[p], commands[p], events[p])
  BY DEF SendMove, SendDraw, SendResignation, NothingStale, GoodClient, GoodRequests,
         OwnSides, OwnConnections
<1>2. PICK command : /\ command.kind \in {"PlayMove", "OfferDraw", "RespondDraw", "Resign"}
                     /\ Request(p, command)
  <2>1. CASE SendMove(p)
    <3>1. PICK move \in MoveKinds :
              Request(p, [kind |-> "PlayMove", game_id |-> sessions[p].seat.game_id,
                          ply |-> sessions[p].view.moves, move |-> move])
      BY <2>1 DEF SendMove
    <3> QED
      BY <3>1
  <2>2. CASE SendDraw(p)
    <3> DEFINE offer == [kind |-> "OfferDraw", game_id |-> sessions[p].seat.game_id]
               reply(accept) == [kind |-> "RespondDraw", accept |-> accept,
                                 game_id |-> sessions[p].seat.game_id]
    <3>1. Request(p, offer) \/ \E accept \in BOOLEAN : Request(p, reply(accept))
      BY <2>2 DEF SendDraw
    <3>2. offer.kind = "OfferDraw" /\ \A accept \in BOOLEAN : reply(accept).kind = "RespondDraw"
      OBVIOUS
    <3> HIDE DEF offer, reply
    <3> QED
      BY <3>1, <3>2
  <2>3. CASE SendResignation(p)
    BY <2>3 DEF SendResignation
  <2> QED
    BY <2>1, <2>2, <2>3
<1> DEFINE asked == Append(commands[p], command)
<1>3. OwnCommands(p, asked)
  <2>1. OwnCommand(p, command)
    BY <1>2 DEF OwnCommand
  <2> QED
    BY <1>1, <2>1, OwnAppend DEF OwnProgram
<1>4. /\ commands' = [commands EXCEPT ![p] = asked]
      /\ UNCHANGED <<memberships, sockets, next_connection_id, owners, outgoing, peers,
                     seat_files, links, events, wires>>
  BY <1>2 DEF Request, Queue, vars, serverVars
<1> HIDE DEF asked
<1>5. IsReplaced(commands', commands, Clients, p, asked)
  BY <1>1, <1>4, Replaced DEF Shapes
<1>6. /\ sessions'[p] \in OnlineSessions
      /\ sessions'[p].seat = sessions[p].seat /\ sessions'[p].code = sessions[p].code
      /\ \A q \in Clients \ {p} : sessions'[q] = sessions[q]
  <2> DEFINE session == [sessions[p] EXCEPT !.move_pending = TRUE]
  <2>1. /\ session \in OnlineSessions
        /\ session.seat = sessions[p].seat /\ session.code = sessions[p].code
    BY <1>1 DEF OnlineSessions
  <2>2. sessions' = sessions \/ sessions' = [sessions EXCEPT ![p] = session]
    BY DEF SendMove, SendDraw, SendResignation
  <2>3. CASE sessions' = sessions
    BY <1>1, <2>3
  <2>4. CASE sessions' = [sessions EXCEPT ![p] = session]
    <3> HIDE DEF session
    <3>1. IsReplaced(sessions', sessions, Clients, p, session)
      BY <1>1, <2>4, Replaced DEF Shapes
    <3> QED
      BY <2>1, <3>1 DEF IsReplaced
  <2> QED
    BY <2>2, <2>3, <2>4
<1>7. OwnProgram(p, sessions'[p], seat_files'[p], commands'[p], events'[p])
  BY <1>1, <1>3, <1>4, <1>5, <1>6 DEF OwnProgram, IsReplaced
<1>8. sessions'[p] # None
  BY <1>6, SessionAssumption
<1> QED
  BY <1>1, <1>4, <1>5, <1>6, <1>7, <1>8, OwnStep DEF IsReplaced

LEMMA DialOwns ==
    ASSUME IInv, NothingStale, OwnSides, NEW p \in Clients, Dial(p)
    PROVE  OwnSides'
<1> DEFINE c == next_connection_id
           m == [event |-> "Connected"]
           new == Append(events[p], m)
<1>1. /\ Shapes /\ OwnConnections /\ IsQueue(events[p])
      /\ \A q \in Clients :
            OwnProgram(q, sessions[q], seat_files[q], commands[q], events[q])
  BY DEF NothingStale, GoodClient, GoodQueue, OwnSides
<1>2. /\ c \in Connections \ Dialled /\ Dialled' = Dialled \cup {c}
      /\ sockets' = sockets \cup {c} /\ memberships' = memberships
  BY HubAssumption DEF Dial, Connect, Connections, Dialled, IInv, TypeOK
<1>3. memberships[c] = None /\ wires[c] = <<>>
  BY <1>1, <1>2 DEF OwnConnections, IInv, MapsAgree, SeatsMatchMemberships
<1>4. OwnMessages(p, new)
  <2>1. OwnMessage(p, m)
    BY DEF OwnMessage, Seatings
  <2> HIDE DEF m
  <2> QED
    BY <1>1, <2>1, OwnAppend DEF OwnProgram
<1>5. /\ links' = [links EXCEPT ![p] = c] /\ owners' = [owners EXCEPT ![c] = p]
      /\ peers' = peers \cup {c} /\ events' = [events EXCEPT ![p] = new]
      /\ sessions[p] # None
      /\ UNCHANGED <<sessions, seat_files, commands, wires, outgoing>>
  BY DEF Dial
<1> HIDE DEF c, new
<1>6. IsReplaced(links', links, Clients, p, c)
  BY <1>1, <1>5, Replaced DEF OwnConnections
<1>7. IsReplaced(owners', owners, Connections, c, p)
  BY <1>1, <1>2, <1>5, Replaced DEF OwnConnections
<1>8. IsReplaced(events', events, Clients, p, new)
  BY <1>1, <1>5, Replaced DEF Shapes
<1>9. \A d \in Dialled : d # c /\ owners'[d] = owners[d] /\ d \in Connections
  BY <1>2, <1>7 DEF IsReplaced, Dialled
<1>10. OwnConnections'
  <2>1. IsMap(links', Clients) /\ IsMap(owners', Connections) /\ peers' \subseteq Dialled'
    BY <1>1, <1>2, <1>5, <1>6, <1>7 DEF OwnConnections, IsReplaced
  <2>2. \A q \in Clients : links'[q] # None => links'[q] \in Dialled' /\ owners'[links'[q]] = q
    <3> SUFFICES ASSUME NEW q \in Clients, links'[q] # None
                 PROVE  links'[q] \in Dialled' /\ owners'[links'[q]] = q
      OBVIOUS
    <3>1. CASE q = p
      BY <1>2, <1>6, <1>7, <3>1 DEF IsReplaced
    <3>2. CASE q # p
      BY <1>1, <1>2, <1>6, <1>9, <3>2 DEF IsReplaced, OwnConnections
    <3> QED
      BY <3>1, <3>2
  <2>3. \A q \in Clients : sessions'[q] = None => links'[q] = None /\ events'[q] = <<>>
    BY <1>1, <1>5, <1>6, <1>8 DEF OwnConnections, IsReplaced
  <2>4. \A d \in Dialled' : /\ owners'[d] \in Clients
                            /\ OwnSeat(owners'[d], memberships'[d])
                            /\ OwnCommands(owners'[d], wires'[d])
    <3> SUFFICES ASSUME NEW d \in Dialled'
                 PROVE  /\ owners'[d] \in Clients
                        /\ OwnSeat(owners'[d], memberships'[d])
                        /\ OwnCommands(owners'[d], wires'[d])
      OBVIOUS
    <3>1. CASE d = c
      BY <1>2, <1>3, <1>5, <1>7, <3>1 DEF IsReplaced, OwnSeat, OwnCommands
    <3>2. CASE d \in Dialled
      BY <1>1, <1>2, <1>5, <1>9, <3>2 DEF OwnConnections
    <3> QED
      BY <1>2, <3>1, <3>2
  <2>5. \A d \in Connections \ Dialled' : d \notin sockets' /\ wires'[d] = <<>>
    BY <1>1, <1>2, <1>5 DEF OwnConnections
  <2> QED
    BY <2>1, <2>2, <2>3, <2>4, <2>5 DEF OwnConnections
<1>11. \A q \in Clients :
           OwnProgram(q, sessions'[q], seat_files'[q], commands'[q], events'[q])
  <2> SUFFICES ASSUME NEW q \in Clients
               PROVE  OwnProgram(q, sessions'[q], seat_files'[q], commands'[q], events'[q])
    OBVIOUS
  <2>1. CASE q = p
    BY <1>1, <1>4, <1>5, <1>8, <2>1 DEF IsReplaced, OwnProgram
  <2>2. CASE q # p
    BY <1>1, <1>5, <1>8, <2>2 DEF IsReplaced
  <2> QED
    BY <2>1, <2>2
<1>12. \A t \in Tasks : \A d \in outgoing'[t] : IsNews(d) =>
           d.target \in Dialled' /\ OwnMessage(owners'[d.target], d)
  BY <1>2, <1>5, <1>9 DEF OwnSides
<1> QED
  BY <1>10, <1>11, <1>12 DEF OwnSides

\* A call of the hub: what it answers names the seats it gave.
LEMMA CallOwns ==
    ASSUME OwnSides, Shapes, Answers, NEW t \in Tasks, Answer(t),
           UNCHANGED <<sessions, seat_files, links, events, owners, next_connection_id>>,
           peers' \subseteq peers, sockets \cup sockets' \subseteq Connections,
           sockets' \subseteq sockets,
           \A p \in Clients : OwnCommands(p, commands'[p]),
           \A c \in Connections :
               \/ wires'[c] = wires[c]
               \/ c \in Dialled /\ OwnCommands(owners[c], wires'[c]),
           \A c \in Dialled : OwnSeat(owners[c], memberships'[c]),
           \A d \in deliveries' : d.event \in Seatings => memberships'[d.target] # None
    PROVE  OwnSides'
<1>1. Dialled' = Dialled /\ Dialled \subseteq Connections
  BY DEF Dialled
<1>2. OwnConnections'
  <2>1. IsMap(links', Clients) /\ IsMap(owners', Connections) /\ peers' \subseteq Dialled'
    BY <1>1 DEF OwnSides, OwnConnections
  <2>2. \A q \in Clients : /\ links'[q] # None => links'[q] \in Dialled' /\ owners'[links'[q]] = q
                           /\ sessions'[q] = None => links'[q] = None /\ events'[q] = <<>>
    BY <1>1 DEF OwnSides, OwnConnections
  <2>3. \A c \in Dialled' : /\ owners'[c] \in Clients
                            /\ OwnSeat(owners'[c], memberships'[c])
                            /\ OwnCommands(owners'[c], wires'[c])
    BY <1>1 DEF OwnSides, OwnConnections
  <2>4. \A c \in Connections \ Dialled' : c \notin sockets' /\ wires'[c] = <<>>
    BY <1>1 DEF OwnSides, OwnConnections
  <2> QED
    BY <2>1, <2>2, <2>3, <2>4 DEF OwnConnections
<1>3. \A p \in Clients :
          OwnProgram(p, sessions'[p], seat_files'[p], commands'[p], events'[p])
  BY DEF OwnSides, OwnProgram
<1>4. ASSUME NEW u \in Tasks, NEW m \in outgoing'[u], IsNews(m)
      PROVE  m.target \in Dialled' /\ OwnMessage(owners'[m.target], m)
  <2> DEFINE batch == {Envelope(d) : d \in deliveries'}
  <2>1. outgoing' = [outgoing EXCEPT ![t] = batch]
    BY DEF Answer
  <2>2. m \in batch \/ m \in outgoing[u]
    BY <1>4, <2>1 DEF Shapes, IsMap
  <2>3. CASE m \in batch
    <3>1. PICK d \in deliveries' : m = Envelope(d)
      BY <2>3
    <3>2. m.event = d.event /\ m.target = d.target
      BY <3>1 DEF Envelope
    <3>3. d.target \in Dialled
      BY <1>4, <3>2 DEF Answers, IsNews, OwnSides, OwnConnections
    <3>4. ASSUME m.event \in Seatings
          PROVE  m.token.side = SideOf(owners[d.target])
      <4>1. m.token.side = memberships'[d.target].side
        BY <3>1, <3>2, <3>4 DEF Envelope, Seatings, NewsEvents, Token
      <4>2. memberships'[d.target] # None
        BY <3>2, <3>4
      <4> QED
        BY <3>3, <4>1, <4>2 DEF OwnSeat
    <3> QED
      BY <1>1, <3>2, <3>3, <3>4 DEF OwnMessage
  <2>4. CASE m \in outgoing[u]
    BY <1>1, <1>4, <2>4 DEF OwnSides
  <2> QED
    BY <2>2, <2>3, <2>4
<1> QED
  BY <1>2, <1>3, <1>4 DEF OwnSides

LEMMA ServeOwns ==
    ASSUME IInv, NothingStale, OwnSides, NEW p \in Clients, Serve(p)
    PROVE  OwnSides'
<1> DEFINE c == links[p]
           first == Head(commands[p])
           rest == Tail(commands[p])
<1>1. c \in Connections /\ c \in Dialled /\ owners[c] = p
  <2>1. c \in Connections
    BY DEF Serve, IInv, TypeOK
  <2>2. c # None
    BY <2>1, NoneAssumption DEF Connections
  <2> QED
    BY <2>1, <2>2 DEF OwnSides, OwnConnections
<1>2. /\ GoodRequests(commands[p]) /\ IsQueue(commands[p]) /\ commands[p] # <<>> /\ Shapes
      /\ OwnCommands(p, commands[p])
  BY DEF Serve, NothingStale, GoodClient, GoodRequests, OwnSides, OwnProgram
<1>3. GoodCommand(first)
  BY <1>2, FirstRequest
<1>4. OwnCommands(p, rest) /\ OwnCommand(p, first)
  <2>1. IsPart(rest, commands[p]) /\ 1 \in 1..Len(commands[p]) /\ first = commands[p][1]
    BY <1>2, TailIsPart
  <2> QED
    BY <1>2, <2>1, OwnPart DEF OwnCommands
<1>5. /\ Handle(c, first) /\ Answer(c)
      /\ commands' = [commands EXCEPT ![p] = rest]
      /\ UNCHANGED <<sessions, seat_files, links, events, owners, wires, peers>>
  BY DEF Serve
<1>6. OwnSeat(p, memberships[c])
  BY <1>1 DEF OwnSides, OwnConnections
<1> HIDE DEF c, first, rest
<1>7. /\ OwnSeat(p, memberships'[c])
      /\ \A d \in Connections : d # c => memberships'[d] \in {memberships[d], None}
      /\ \A d \in deliveries' : d.event \in Seatings => d.target = c /\ memberships'[c] # None
      /\ UNCHANGED <<sockets, next_connection_id>>
  BY <1>1, <1>3, <1>4, <1>5, <1>6, HandleSeatsOwner
<1>8. \A d \in Dialled : OwnSeat(owners[d], memberships'[d])
  BY <1>1, <1>7 DEF OwnSides, OwnConnections, OwnSeat, Dialled
<1>9. IsReplaced(commands', commands, Clients, p, rest)
  BY <1>2, <1>5, Replaced DEF Shapes
<1>10. \A q \in Clients : OwnCommands(q, commands'[q])
  BY <1>4, <1>9 DEF IsReplaced, OwnSides, OwnProgram
<1>11. c \in Tasks /\ sockets \cup sockets' \subseteq Connections
  BY <1>1, <1>7 DEF Tasks, IInv, TypeOK
<1>12. Answers
  BY <1>1, <1>3, <1>5, HandleIsCall DEF HubCall
<1> QED
  BY <1>1, <1>2, <1>5, <1>7, <1>8, <1>10, <1>11, <1>12, CallOwns

LEMMA ServeLateOwns ==
    ASSUME IInv, NothingStale, OwnSides, NEW c \in Connections, ServeLate(c)
    PROVE  OwnSides'
<1> DEFINE p == owners[c]
           first == Head(wires[c])
           rest == Tail(wires[c])
<1>1. c \in Dialled /\ p \in Clients
  BY DEF ServeLate, OwnSides, OwnConnections
<1>2. /\ GoodRequests(wires[c]) /\ IsQueue(wires[c]) /\ wires[c] # <<>> /\ Shapes
      /\ OwnCommands(p, wires[c]) /\ OwnSeat(p, memberships[c])
  BY <1>1 DEF ServeLate, NothingStale, GoodRequests, OwnSides, OwnConnections
<1>3. GoodCommand(first)
  BY <1>2, FirstRequest
<1>4. OwnCommands(p, rest) /\ OwnCommand(p, first)
  <2>1. IsPart(rest, wires[c]) /\ 1 \in 1..Len(wires[c]) /\ first = wires[c][1]
    BY <1>2, TailIsPart
  <2> QED
    BY <1>2, <2>1, OwnPart DEF OwnCommands
<1>5. /\ Handle(c, first) /\ Answer(c)
      /\ wires' = [wires EXCEPT ![c] = rest]
      /\ UNCHANGED <<sessions, seat_files, links, events, owners, commands, peers>>
  BY DEF ServeLate, clientVars
<1> HIDE DEF first, rest
<1>6. /\ OwnSeat(p, memberships'[c])
      /\ \A d \in Connections : d # c => memberships'[d] \in {memberships[d], None}
      /\ \A d \in deliveries' : d.event \in Seatings => d.target = c /\ memberships'[c] # None
      /\ UNCHANGED <<sockets, next_connection_id>>
  BY <1>1, <1>2, <1>3, <1>4, <1>5, HandleSeatsOwner
<1>7. \A d \in Dialled : OwnSeat(owners[d], memberships'[d])
  BY <1>6 DEF OwnSides, OwnConnections, OwnSeat, Dialled
<1>8. IsReplaced(wires', wires, Connections, c, rest)
  BY <1>2, <1>5, Replaced DEF Shapes
<1>9. \A q \in Clients : OwnCommands(q, commands'[q])
  BY <1>5 DEF OwnSides, OwnProgram
<1>10. \A d \in Connections : \/ wires'[d] = wires[d]
                              \/ d \in Dialled /\ OwnCommands(owners[d], wires'[d])
  BY <1>1, <1>4, <1>8 DEF IsReplaced
<1>11. c \in Tasks /\ sockets \cup sockets' \subseteq Connections
  BY <1>6 DEF Tasks, IInv, TypeOK
<1>12. Answers
  BY <1>3, <1>5, HandleIsCall DEF HubCall
<1> HIDE DEF p
<1> QED
  BY <1>1, <1>2, <1>5, <1>6, <1>7, <1>9, <1>10, <1>11, <1>12, CallOwns

LEMMA EndSocketOwns ==
    ASSUME IInv, NothingStale, OwnSides, NEW c \in Connections, EndSocket(c)
    PROVE  OwnSides'
<1>1. c \in Dialled /\ Shapes
  BY DEF EndSocket, OwnSides, OwnConnections, NothingStale
<1>2. /\ Disconnect(c) /\ Answer(c)
      /\ wires' = [wires EXCEPT ![c] = <<>>] /\ peers' = peers \ {c}
      /\ UNCHANGED <<sessions, seat_files, links, events, owners, commands>>
  BY DEF EndSocket, clientVars
<1>3. /\ \A d \in Connections : memberships'[d] \in {memberships[d], None}
      /\ next_connection_id' = next_connection_id /\ sockets' \subseteq sockets
  BY <1>2 DEF Disconnect, IInv, TypeOK
<1>4. \A d \in deliveries' : d.event \notin Seatings
  BY <1>2 DEF Disconnect, Notice, Seatings
<1>5. \A d \in Dialled : OwnSeat(owners[d], memberships'[d])
  BY <1>3 DEF OwnSides, OwnConnections, OwnSeat, Dialled
<1>6. IsReplaced(wires', wires, Connections, c, <<>>)
  BY <1>1, <1>2, Replaced DEF Shapes
<1>7. \A d \in Connections : \/ wires'[d] = wires[d]
                             \/ d \in Dialled /\ OwnCommands(owners[d], wires'[d])
  BY <1>1, <1>6 DEF IsReplaced, OwnCommands
<1>8. \A q \in Clients : OwnCommands(q, commands'[q])
  BY <1>2 DEF OwnSides, OwnProgram
<1>9. c \in Tasks /\ peers' \subseteq peers /\ sockets \cup sockets' \subseteq Connections
  BY <1>2, <1>3 DEF Tasks, IInv, TypeOK
<1>10. Answers
  BY <1>2, DisconnectIsCall DEF HubCall
<1> QED
  BY <1>1, <1>2, <1>3, <1>4, <1>5, <1>7, <1>8, <1>9, <1>10, CallOwns

LEMMA TickerOwns ==
    ASSUME IInv, NothingStale, OwnSides, TickerCalls
    PROVE  OwnSides'
<1>1. /\ TickAt /\ Answer(Ticker)
      /\ UNCHANGED <<sessions, seat_files, links, events, owners, commands, wires, peers>>
  BY DEF TickerCalls, clientVars
<1>2. /\ \A d \in Connections : memberships'[d] \in {memberships[d], None}
      /\ UNCHANGED <<sockets, next_connection_id>>
  BY <1>1 DEF TickAt, MembershipsWithout
<1>3. \A d \in deliveries' : d.event \notin Seatings
  <2> SUFFICES ASSUME NEW d \in deliveries'
               PROVE  d.event \notin Seatings
    OBVIOUS
  <2>1. \E g, room : d \in Broadcast(g, room)
    BY <1>1 DEF TickAt
  <2> QED
    BY <2>1, BroadcastEvents DEF Seatings
<1>4. \A d \in Dialled : OwnSeat(owners[d], memberships'[d])
  BY <1>2 DEF OwnSides, OwnConnections, OwnSeat, Dialled
<1>5. \A q \in Clients : OwnCommands(q, commands'[q])
  BY <1>1 DEF OwnSides, OwnProgram
<1>6. Ticker \in Tasks /\ Shapes /\ sockets \cup sockets' \subseteq Connections
  BY <1>2 DEF Tasks, NothingStale, IInv, TypeOK
<1>7. Answers
  BY <1>1, TickAtIsCall DEF HubCall
<1> QED
  BY <1>1, <1>2, <1>3, <1>4, <1>5, <1>6, <1>7, CallOwns

LEMMA DispatchOwns ==
    ASSUME IInv, NothingStale, OwnSides, NEW t \in Tasks, Dispatch(t)
    PROVE  OwnSides'
<1>1. /\ outgoing' = [outgoing EXCEPT ![t] = {}]
      /\ UNCHANGED <<sessions, seat_files, links, commands, owners, wires>>
      /\ UNCHANGED <<memberships, sockets, next_connection_id>>
  BY DEF Dispatch, vars
<1>2. /\ peers' \subseteq peers /\ IsMap(events', Clients)
      /\ \A p \in Clients :
            \/ events'[p] = events[p]
            \/ \E m \in outgoing[t] :
                  /\ m.target = links[p] /\ links[p] \in peers
                  /\ events'[p] = Append(events[p], [m EXCEPT
                         !.late = m.late \/ links[p] \in overtaken[t]])
  BY DispatchReaches
<1>3. Dialled' = Dialled /\ OwnConnections /\ Dialled \subseteq Connections
  BY <1>1 DEF Dialled, OwnSides
<1>4. ASSUME NEW p \in Clients, NEW m \in outgoing[t], m.target = links[p], links[p] \in peers
      PROVE  links[p] # None /\ OwnMessage(p, m)
  <2>1. links[p] \in Connections
    BY <1>3, <1>4 DEF OwnConnections
  <2>2. links[p] # None
    BY <2>1, NoneAssumption DEF Connections
  <2>3. owners[links[p]] = p
    BY <1>3, <2>2 DEF OwnConnections
  <2>4. m.event \in Seatings => OwnMessage(owners[m.target], m)
    BY DEF OwnSides, IsNews, Seatings, NewsEvents
  <2> QED
    BY <1>4, <2>2, <2>3, <2>4 DEF OwnMessage
<1>5. OwnConnections'
  <2>1. IsMap(links', Clients) /\ IsMap(owners', Connections) /\ peers' \subseteq Dialled'
    BY <1>1, <1>2, <1>3 DEF OwnConnections
  <2>2. \A p \in Clients : links'[p] # None => links'[p] \in Dialled' /\ owners'[links'[p]] = p
    BY <1>1, <1>3 DEF OwnConnections
  <2>3. \A p \in Clients : sessions'[p] = None => links'[p] = None /\ events'[p] = <<>>
    BY <1>1, <1>2, <1>3, <1>4 DEF OwnConnections
  <2>4. \A c \in Dialled' : /\ owners'[c] \in Clients
                            /\ OwnSeat(owners'[c], memberships'[c])
                            /\ OwnCommands(owners'[c], wires'[c])
    BY <1>1, <1>3 DEF OwnConnections
  <2>5. \A c \in Connections \ Dialled' : c \notin sockets' /\ wires'[c] = <<>>
    BY <1>1, <1>3 DEF OwnConnections
  <2> QED
    BY <2>1, <2>2, <2>3, <2>4, <2>5 DEF OwnConnections
<1>6. ASSUME NEW p \in Clients
      PROVE  OwnProgram(p, sessions'[p], seat_files'[p], commands'[p], events'[p])
  <2>1. /\ OwnProgram(p, sessions[p], seat_files[p], commands[p], events[p])
        /\ IsQueue(events[p])
    BY DEF OwnSides, NothingStale, GoodClient, GoodQueue
  <2>2. OwnMessages(p, events[p])
    BY <2>1 DEF OwnProgram
  <2>3. OwnMessages(p, events'[p])
    <3>1. CASE events'[p] = events[p]
      BY <2>2, <3>1
    <3>2. CASE events'[p] # events[p]
      <4>1. PICK m \in outgoing[t] :
                /\ m.target = links[p] /\ links[p] \in peers
                /\ events'[p] = Append(events[p], [m EXCEPT
                       !.late = m.late \/ links[p] \in overtaken[t]])
        BY <1>2, <3>2
      <4> DEFINE late == m.late \/ links[p] \in overtaken[t]
                 stamped == [m EXCEPT !.late = late]
      <4>2. IsLetter(m) /\ GoodMessage(m)
        BY DEF NothingStale, NewBatches
      <4>3. late \in BOOLEAN
        OBVIOUS
      <4>4. stamped = [m EXCEPT !.late = late] /\ events'[p] = Append(events[p], stamped)
        BY <4>1
      <4> HIDE DEF late
      <4>5. stamped.event = m.event /\ (IsNews(m) => stamped.token = m.token)
        BY <4>2, <4>3, StampedLetter
      <4>6. OwnMessage(p, m)
        BY <1>4, <4>1
      <4>7. OwnMessage(p, stamped)
        BY <4>5, <4>6 DEF OwnMessage, IsNews, Seatings, NewsEvents
      <4> HIDE DEF stamped
      <4> QED
        BY <2>1, <2>2, <4>4, <4>7, OwnAppend
    <3> QED
      BY <3>1, <3>2
  <2> QED
    BY <1>1, <2>1, <2>3 DEF OwnProgram
<1>7. \A u \in Tasks : \A m \in outgoing'[u] : IsNews(m) =>
          m.target \in Dialled' /\ OwnMessage(owners'[m.target], m)
  <2>1. \A u \in Tasks : outgoing'[u] \subseteq outgoing[u]
    BY <1>1 DEF NothingStale, Shapes, IsMap
  <2> QED
    BY <1>1, <1>3, <2>1 DEF OwnSides
<1> QED
  BY <1>5, <1>6, <1>7 DEF OwnSides

LEMMA OnlineStepOwns ==
    ASSUME IInv, NothingStale, OwnSides, [OnlineNext]_onlineVars
    PROVE  OwnSides'
<1>1. ASSUME NEW p \in Clients, Launch(p) \/ Quit(p) \/ Dial(p) \/ Lose(p) \/ HandleEvent(p)
      PROVE  OwnSides'
  BY <1>1, LaunchOwns, QuitOwns, DialOwns, LoseOwns, HandleEventOwns
<1>2. ASSUME NEW p \in Clients, Serve(p) \/ SendMove(p) \/ SendDraw(p) \/ SendResignation(p)
      PROVE  OwnSides'
  BY <1>2, ServeOwns, SendOwns
<1>3. ASSUME NEW c \in Connections, ServeLate(c) \/ EndSocket(c)
      PROVE  OwnSides'
  BY <1>3, ServeLateOwns, EndSocketOwns
<1>4. ASSUME NEW t \in Tasks, Dispatch(t)
      PROVE  OwnSides'
  BY <1>4, DispatchOwns
<1>5. CASE TickerCalls
  BY <1>5, TickerOwns
<1>6. CASE UNCHANGED onlineVars
  BY <1>6 DEF onlineVars, vars, clientVars, serverVars, OwnSides, OwnConnections, Dialled
<1> QED
  BY <1>1, <1>2, <1>3, <1>4, <1>5, <1>6 DEF OnlineNext

\* A screen that goes back shows what came late.
LEMMA ScreenStep ==
    ASSUME NothingStale, OnlineNext, NEW p \in Clients,
           sessions[p] # None, sessions'[p] # None,
           sessions[p].view.game_id # None,
           sessions'[p].view.game_id = sessions[p].view.game_id,
           sessions'[p].view.revision < sessions[p].view.revision
    PROVE  Head(events[p]).late
<1>1. /\ IsMap(sessions, Clients)
      /\ GoodClient(sessions[p], seat_files[p], commands[p], events[p])
  BY DEF NothingStale, Shapes
<1>2. sessions[p] \in OnlineSessions /\ sessions[p].view.revision \in Nat
  BY <1>1 DEF GoodClient, OnlineSessions, Views
<1>3. CASE HandleEvent(p)
  <2> DEFINE m == Head(events[p])
  <2>1. /\ events[p] # <<>>
        /\ sessions' = [sessions EXCEPT ![p] = After(sessions[p], m)]
    BY <1>3 DEF HandleEvent
  <2>2. sessions'[p] = After(sessions[p], m)
    BY <1>1, <2>1 DEF IsMap
  <2>3. 1 \in 1..Len(events[p]) /\ m = events[p][1]
    BY <1>1, <2>1, TailIsPart DEF GoodClient, GoodQueue
  <2>4. /\ GoodMessage(m)
        /\ NotBefore(m, sessions[p].view.game_id, sessions[p].view.revision)
    BY <1>1, <2>3 DEF GoodClient, GoodQueue
  <2> HIDE DEF m
  <2>5. /\ IsNews(m) => sessions'[p].view = m.view
        /\ ~IsNews(m) => sessions'[p].view.revision = sessions[p].view.revision
    BY <1>2, <2>2, <2>4, AfterIsGood
  <2>6. IsNews(m) /\ m.view = sessions'[p].view
    BY <1>2, <2>5
  <2>7. m.view.revision \in Nat
    BY <2>4, <2>6 DEF GoodMessage, Views
  <2>8. m.late
    BY <1>2, <2>4, <2>6, <2>7 DEF NotBefore
  <2> QED
    BY <2>8 DEF m
<1>4. CASE ~HandleEvent(p)
  <2>1. sessions'[p].view = sessions[p].view
    <3>1. ASSUME NEW q \in Clients, Launch(q) \/ Quit(q) \/ HandleEvent(q)
          PROVE  sessions'[p] = sessions[p]
      <4>1. q # p
        BY <1>1, <1>4, <3>1 DEF Launch, Quit, HandleEvent, IsMap
      <4> QED
        BY <1>1, <3>1, <4>1 DEF Launch, Quit, HandleEvent, IsMap
    <3>2. ASSUME NEW q \in Clients, SendMove(q)
          PROVE  sessions'[p].view = sessions[p].view
      <4>1. sessions' = [sessions EXCEPT ![q] = [sessions[q] EXCEPT !.move_pending = TRUE]]
        BY <3>2 DEF SendMove
      <4> QED
        BY <1>1, <1>2, <4>1 DEF IsMap, OnlineSessions
    <3>3. ASSUME NEW q \in Clients,
                 Dial(q) \/ Lose(q) \/ Serve(q) \/ SendDraw(q) \/ SendResignation(q)
          PROVE  sessions' = sessions
      BY <3>3 DEF Dial, Lose, Serve, SendDraw, SendResignation
    <3>4. ASSUME NEW c \in Connections, ServeLate(c) \/ EndSocket(c)
          PROVE  sessions' = sessions
      BY <3>4 DEF ServeLate, EndSocket, clientVars
    <3>5. ASSUME NEW t \in Tasks, Dispatch(t)
          PROVE  sessions' = sessions
      BY <3>5 DEF Dispatch
    <3>6. CASE TickerCalls
      BY <3>6 DEF TickerCalls, clientVars
    <3> QED
      BY <3>1, <3>2, <3>3, <3>4, <3>5, <3>6 DEF OnlineNext
  <2> QED
    BY <1>2, <2>1
<1> QED
  BY <1>3, <1>4

\* The only request that takes a seat from a connection is to resume that seat.
LEMMA HandleTakesSeats ==
    ASSUME IInv, NEW c \in Connections, NEW command, GoodCommand(command), Handle(c, command),
           NEW d \in Connections, memberships[d] # None, memberships'[d] # memberships[d]
    PROVE  d # c /\ command.kind = "Reconnect" /\ memberships'[c] = memberships[d]
<1>1. CASE \E code : Refuse(c, code)
  BY <1>1 DEF Refuse
<1>2. ASSUME memberships[c] = None, NEW e, memberships' = [memberships EXCEPT ![c] = e]
      PROVE  FALSE
  BY <1>2 DEF IInv, TypeOK
<1>3. CASE /\ command.kind = "CreateGame" /\ ~\E code : Refuse(c, code)
           /\ \E tc \in TimeControls : CreateGame(c, TRUE, tc)
  BY <1>2, <1>3 DEF CreateGame, MayTakeSeat
<1>4. CASE /\ command.kind = "JoinGame" /\ ~\E code : Refuse(c, code)
           /\ JoinGame(c, TRUE, command.code)
  BY <1>2, <1>4 DEF JoinGame, MayTakeSeat
<1>5. CASE /\ command.kind = "Reconnect" /\ ~\E code : Refuse(c, code)
           /\ Reconnect(c, command.seat.game_id, command.seat)
  <2> DEFINE g == command.seat.game_id
  <2>1. PICK side \in Sides :
            /\ memberships[c] = None /\ rooms[g] # None /\ rooms[g].seats[side] # None
            /\ memberships' = Transferred(rooms[g].seats[side].connection, c, g, side)
    BY <1>5 DEF Reconnect
  <2>2. g \in GameIds
    BY <1>5 DEF GoodCommand, Membership
  <2> HIDE DEF g
  <2>3. d # c /\ rooms[g].seats[side].connection = d
    BY <2>1 DEF Transferred
  <2>4. SitsAt(d, g, side)
    BY <2>1, <2>3 DEF SitsAt
  <2>5. memberships[d] = [game_id |-> g, side |-> side]
    BY <2>2, <2>4 DEF IInv, MapsAgree, SeatsMatchMemberships
  <2>6. memberships'[c] = [game_id |-> g, side |-> side]
    BY <2>1 DEF Transferred
  <2> QED
    BY <1>5, <2>3, <2>5, <2>6
<1>6. CASE /\ ~\E code : Refuse(c, code)
           /\ \/ PlayMove(c, command.game_id, command.ply, command.move, now)
              \/ OfferDraw(c, command.game_id)
              \/ RespondDraw(c, command.game_id, command.accept)
              \/ Resign(c, command.game_id)
  BY <1>6 DEF PlayMove, OfferDraw, RespondDraw, Resign, RefuseStranger
<1> QED
  BY <1>1, <1>3, <1>4, <1>5, <1>6 DEF Handle

LEMMA RequestDialsNothing ==
    ASSUME NEW c, NEW command, Handle(c, command)
    PROVE  next_connection_id' = next_connection_id
<1>1. \A code : Refuse(c, code) => next_connection_id' = next_connection_id
  BY DEF Refuse
<1>2. ASSUME NEW tc, CreateGame(c, TRUE, tc)  PROVE next_connection_id' = next_connection_id
  BY <1>1, <1>2 DEF CreateGame
<1>3. ASSUME NEW k, JoinGame(c, TRUE, k)  PROVE next_connection_id' = next_connection_id
  BY <1>1, <1>3 DEF JoinGame
<1>4. ASSUME NEW g, NEW token, Reconnect(c, g, token)
      PROVE  next_connection_id' = next_connection_id
  BY <1>1, <1>4 DEF Reconnect
<1>5. ASSUME NEW g, NEW ply, NEW move, PlayMove(c, g, ply, move, now)
      PROVE  next_connection_id' = next_connection_id
  BY <1>1, <1>5 DEF PlayMove, RefuseStranger
<1>6. ASSUME NEW g, NEW accept, OfferDraw(c, g) \/ RespondDraw(c, g, accept) \/ Resign(c, g)
      PROVE  next_connection_id' = next_connection_id
  BY <1>1, <1>6 DEF OfferDraw, RespondDraw, Resign, RefuseStranger
<1> QED
  BY <1>2, <1>3, <1>4, <1>5, <1>6 DEF Handle

\* Two connections that were given one seat are of one client.
LEMMA OneOwner ==
    ASSUME IInv', OwnSides', UNCHANGED <<owners, next_connection_id>>,
           NEW c \in Connections, NEW d \in Connections, c \in Dialled, d \in Dialled,
           OwnSeat(owners[c], memberships[c]), memberships[c] # None,
           memberships'[d] = memberships[c], owners[c] \in Clients
    PROVE  owners[d] = owners[c]
<1>1. Dialled' = Dialled
  BY DEF Dialled
<1>2. owners[d] \in Clients /\ OwnSeat(owners[d], memberships'[d])
  BY <1>1 DEF OwnSides, OwnConnections
<1>3. SideOf(owners[d]) = SideOf(owners[c])
  BY <1>2 DEF OwnSeat
<1> QED
  BY <1>2, <1>3 DEF SideOf, Clients

\* How a connection that stays up may lose its seat.
LEMMA SeatStep ==
    ASSUME IInv, NothingStale, OwnSides, IInv', OwnSides', OnlineNext,
           NEW p \in Clients, links[p] # None, links[p] \in sockets',
           memberships[links[p]] # None, memberships'[links[p]] # memberships[links[p]],
           rooms'[memberships[links[p]].game_id] # None
    PROVE  \E old \in Connections :
               /\ owners[old] = p /\ wires[old] # <<>>
               /\ Head(wires[old]).kind = "Reconnect"
               /\ memberships'[old] = memberships[links[p]]
<1> DEFINE c == links[p]
<1>1. /\ c \in Dialled /\ c \in Connections /\ owners[c] = p
      /\ OwnSeat(p, memberships[c])
  BY DEF OwnSides, OwnConnections, Dialled
<1>2. memberships' # memberships
  OBVIOUS
<1> HIDE DEF c
<1>3. ASSUME NEW d \in Connections, NEW command, GoodCommand(command), Handle(d, command),
             d \in Dialled, UNCHANGED owners
      PROVE  d # c /\ command.kind = "Reconnect" /\ memberships'[d] = memberships[c] /\ owners[d] = p
  <2>1. d # c /\ command.kind = "Reconnect" /\ memberships'[d] = memberships[c]
    BY <1>1, <1>3, HandleTakesSeats DEF c
  <2>2. next_connection_id' = next_connection_id
    BY <1>3, RequestDialsNothing
  <2>3. owners[d] = owners[c]
    BY <1>1, <1>3, <2>1, <2>2, OneOwner DEF c
  <2> QED
    BY <1>1, <2>1, <2>3
<1>4. ASSUME NEW q \in Clients, Serve(q)
      PROVE  FALSE
  <2>1. links[q] \in Connections
    BY <1>4 DEF Serve, IInv, TypeOK
  <2>2. PICK d \in Connections : d = links[q]
    BY <2>1
  <2>3. d \in Dialled /\ owners[d] = q
    BY <2>2, NoneAssumption DEF OwnSides, OwnConnections, Connections
  <2>4. PICK command : command = Head(commands[q])
    OBVIOUS
  <2>5. GoodRequests(commands[q]) /\ commands[q] # <<>>
    BY <1>4 DEF Serve, NothingStale, GoodClient
  <2>6. GoodCommand(command) /\ Handle(d, command) /\ UNCHANGED owners
    BY <1>4, <2>2, <2>4, <2>5, FirstRequest DEF Serve
  <2>7. d # c /\ owners[d] = p
    BY <1>3, <2>3, <2>6
  <2> QED
    BY <2>2, <2>3, <2>7 DEF c
<1>5. ASSUME NEW d \in Connections, ServeLate(d)
      PROVE  /\ owners[d] = p /\ wires[d] # <<>>
             /\ Head(wires[d]).kind = "Reconnect"
             /\ memberships'[d] = memberships[c]
  <2>1. GoodRequests(wires[d]) /\ wires[d] # <<>> /\ d \in Dialled
    BY <1>5 DEF ServeLate, NothingStale, OwnSides, OwnConnections
  <2>2. GoodCommand(Head(wires[d])) /\ Handle(d, Head(wires[d])) /\ UNCHANGED owners
    BY <1>5, <2>1, FirstRequest DEF ServeLate
  <2> QED
    BY <1>3, <2>1, <2>2
<1>6. ASSUME NEW d \in Connections, EndSocket(d)
      PROVE  FALSE
  BY <1>1, <1>6 DEF EndSocket, Disconnect, IInv, TypeOK, c
<1>7. CASE TickerCalls
  <2>1. PICK gone : /\ memberships' = MembershipsWithout(gone)
                    /\ \A g \in GameIds : g \in gone => rooms'[g] = None
    BY <1>7 DEF TickerCalls, TickAt
  <2>2. memberships[c].game_id \in GameIds
    BY <1>1 DEF IInv, TypeOK, Membership, c
  <2> QED
    BY <1>1, <2>1, <2>2 DEF MembershipsWithout, c
<1>8. ASSUME NEW q \in Clients,
             \/ Launch(q) \/ Quit(q) \/ Dial(q) \/ Lose(q) \/ HandleEvent(q)
             \/ SendMove(q) \/ SendDraw(q) \/ SendResignation(q)
      PROVE  FALSE
  <2>1. memberships' = memberships
    BY <1>8 DEF Launch, Quit, Dial, Connect, Lose, HandleEvent, SendMove, SendDraw,
                SendResignation, Request, vars
  <2> QED
    BY <1>2, <2>1
<1>9. ASSUME NEW t \in Tasks, Dispatch(t)
      PROVE  FALSE
  BY <1>2, <1>9 DEF Dispatch, vars
<1> QED
  BY <1>4, <1>5, <1>6, <1>7, <1>8, <1>9 DEF OnlineNext, c

LEMMA OnlineStartsWell ==
    ASSUME OnlineInit
    PROVE  IInv /\ NothingStale /\ OwnSides
<1>1. IInv
  BY InitEstablishesInvariant DEF OnlineInit
<1>2. Shapes
  BY DEF OnlineInit, Shapes, IsMap
<1>3. \A p \in Clients : /\ GoodClient(sessions[p], seat_files[p], commands[p], events[p])
                         /\ \A g, n : ~Holds(sessions[p], events[p], g, n)
  BY EmptyQueueIsGood DEF OnlineInit, GoodClient, Holds
<1>4. \A c \in Connections : GoodRequests(wires[c])
  BY EmptyQueueIsGood DEF OnlineInit
<1>5. \A t \in Tasks : outgoing[t] = {}
  BY DEF OnlineInit
<1>6. NothingStale
  BY <1>2, <1>3, <1>4, <1>5 DEF NothingStale, HeldIsPast, NewBatches, InOrder
<1>7. Dialled = {}
  BY DEF OnlineInit, Init, Dialled, Connections
<1>8. OwnConnections
  BY <1>7 DEF OnlineInit, Init, OwnConnections, IsMap
<1>9. \A p \in Clients : OwnProgram(p, sessions[p], seat_files[p], commands[p], events[p])
  BY DEF OnlineInit, OwnProgram, OwnSeat, OwnCommands, OwnMessages
<1> QED
  BY <1>1, <1>5, <1>6, <1>8, <1>9 DEF OwnSides


-----------------------------------------------------------------------------
\* Nothing about a game is sent to a connection that is not in it: neither to one
\* whose seat was taken over nor to one that is closed, however many there are.
THEOREM NewsIsForPlayers == Spec => OnlyPlayersHear
<1>1. IInv /\ IInv' /\ Next =>
        \A d \in deliveries' :
          d.event # "Error" =>
            /\ d.target \in sockets
            /\ \E side \in Sides :
                 \/ memberships[d.target] = [game_id |-> d.game_id, side |-> side]
                 \/ memberships'[d.target] = [game_id |-> d.game_id, side |-> side]
  <2> SUFFICES ASSUME IInv, IInv', Next, NEW d \in deliveries', d.event # "Error"
               PROVE  /\ d.target \in sockets
                      /\ \E side \in Sides :
                           \/ memberships[d.target] = [game_id |-> d.game_id, side |-> side]
                           \/ memberships'[d.target] = [game_id |-> d.game_id, side |-> side]
    OBVIOUS
  <2>1. PICK g \in GameIds : \/ rooms[g] # None /\ Addressed(d, rooms[g], g)
                             \/ rooms'[g] # None /\ Addressed(d, rooms'[g], g)
    BY NextIsToPlayers DEF ToPlayers
  <2>2. CASE rooms[g] # None /\ Addressed(d, rooms[g], g)
    BY <2>2, TargetsAreMembers DEF Addressed
  <2>3. CASE rooms'[g] # None /\ Addressed(d, rooms'[g], g)
    <3>1. rooms'[g] \in Room
      BY <2>3 DEF IInv, TypeOK
    <3>2. PICK side \in Sides : /\ rooms'[g].seats[side] # None
                                /\ rooms'[g].seats[side].connection = d.target
                                /\ d.target # None
      BY <2>3, <3>1, TargetsAreSeated DEF Addressed
    <3>3. d.target \in Connections
      BY <3>1, <3>2 DEF Room, Slot
    <3>4. SitsAt(d.target, g, side)'
      BY <2>3, <3>2 DEF SitsAt
    <3>5. memberships'[d.target] = [game_id |-> g, side |-> side]
      BY <3>3, <3>4 DEF IInv, MapsAgree, SeatsMatchMemberships
    <3>6. d.target \in sockets'
      BY <3>3, <3>5, OptionAssumption
         DEF Membership, IInv, MapsAgree, SeatsMatchMemberships
    <3>7. sockets' \subseteq sockets
      BY OnlyConnectOpens DEF Connect
    <3> QED
      BY <2>3, <3>5, <3>6, <3>7 DEF Addressed
  <2> QED
    BY <2>1, <2>2, <2>3
<1> QED
  BY <1>1, InvariantHolds, PTL DEF Spec, OnlyPlayersHear

\* Nobody who is connected loses by abandonment, and nobody loses that way to an
\* opponent who is absent too, for every grace period.
THEOREM ForfeitsAreFair == Spec => ForfeitNeedsAbsence
<1>1. IInv /\ [Next]_vars =>
        [\A g \in GameIds, side \in Sides :
          /\ rooms[g] # None /\ rooms'[g] # None
          /\ rooms[g].game.abandoned # side
          /\ rooms'[g].game.abandoned = side
          => /\ ~\E c \in sockets : memberships[c] = [game_id |-> g, side |-> side]
             /\ \E c \in sockets : memberships[c] = [game_id |-> g, side |-> Flip(side)]]_vars
  <2> SUFFICES ASSUME IInv, [Next]_vars, NEW g \in GameIds, NEW side \in Sides,
                      Forfeits(g, side)
               PROVE  /\ ~\E c \in sockets : memberships[c] = [game_id |-> g, side |-> side]
                      /\ \E c \in sockets :
                            memberships[c] = [game_id |-> g, side |-> Flip(side)]
    BY DEF Forfeits
  <2>1. TickAt
    BY OnlyTheTickerForfeits
  <2>2. /\ rooms[g] \in Room /\ rooms[g] # None /\ now \in Nat
        /\ rooms'[g] = TickedRoom(rooms[g], now)
    BY <2>1 DEF Forfeits, TickAt, IInv, TypeOK
  <2>3. side \in Forfeiters(rooms[g], now)
    BY <2>2, ForfeitersAreAway DEF Forfeits
  <2>4. ~\E c \in sockets : memberships[c] = [game_id |-> g, side |-> side]
    <3>1. rooms[g].seats[side] # None /\ rooms[g].seats[side].connection = None
      BY <2>2, <2>3 DEF Forfeiters, LongAbsent, IInv, MapsAgree, AbsenceIsDated, OpenGames
    <3>2. \A c \in Connections : ~SitsAt(c, g, side)
      BY <3>1, NewSlotType DEF SitsAt
    <3> QED
      BY <3>2 DEF IInv, TypeOK, MapsAgree, SeatsMatchMemberships
  <2>5. \E c \in sockets : memberships[c] = [game_id |-> g, side |-> Flip(side)]
    <3> DEFINE c == rooms[g].seats[Flip(side)].connection
    <3>1. IsConnected(rooms[g].seats[Flip(side)]) /\ Flip(side) \in Sides
      BY <2>3, FlipIsOther DEF Forfeiters
    <3>2. c \in Connections
      BY <2>2, <3>1 DEF IsConnected, Room, Slot
    <3>3. SitsAt(c, g, Flip(side))
      BY <2>2, <3>1 DEF SitsAt, IsConnected
    <3> HIDE DEF c
    <3>4. /\ memberships[c] = [game_id |-> g, side |-> Flip(side)]
          /\ memberships[c] # None
      BY <3>1, <3>2, <3>3, OneSeatEach
    <3> QED
      BY <3>2, <3>4 DEF IInv, MapsAgree, SeatsMatchMemberships
  <2> QED
    BY <2>4, <2>5
<1> QED
  BY <1>1, InvariantHolds, PTL DEF Spec, ForfeitNeedsAbsence

\* Whatever is played, resigned, lost on time, left or taken back, every connected
\* player has been told the revision, the moves and the draw offer of its game as they
\* are, and how it ended, but for a flag that has just fallen: the next tick tells it
\* of that, unless the opponent's rejected move was what found the flag.
THEOREM PlayersAreToldTheGame == ViewSpec => []PlayersSeeTheGame
<1>1. ViewInit => ViewInv
  BY DEF ViewInit, Init, ViewInv, RoomsSound, OpenGames, HushedIsReported, MembersUpToDate
<1>2. IInv /\ IInv' /\ ViewInv /\ [ViewNext]_viewVars => ViewInv'
  <2> SUFFICES ASSUME IInv, IInv', ViewInv, [ViewNext]_viewVars
               PROVE  ViewInv'
    OBVIOUS
  <2>1. CASE ViewNext
    <3>1. Next /\ Listen /\ RoomsSound /\ HushedIsReported /\ MembersUpToDate
      BY <2>1 DEF ViewNext, ViewInv
    <3>2. ClocksStay /\ issued \subseteq issued' /\ Tells
      BY <3>1, NextClocks, IssuedGrows, NextTells
    <3>3. RoomsSound' /\ HushedIsReported' /\ MembersUpToDate'
      BY <3>1, <3>2, NextKeepsSound, NextKeepsHushed, TellingKeepsUpToDate
    <3> QED
      BY <3>3 DEF ViewInv
  <2>2. CASE UNCHANGED viewVars
    BY <2>2 DEF viewVars, vars, ViewInv, RoomsSound, OpenGames, HushedIsReported,
                MembersUpToDate, UpToDate
  <2> QED
    BY <2>1, <2>2
<1>3. IInv /\ ViewInv => PlayersSeeTheGame
  <2> SUFFICES ASSUME IInv, ViewInv, NEW g \in GameIds, NEW side \in Players(g)
               PROVE  LET actual == Snapshot(rooms[g])
                          seen   == View(g, side)
                      IN  /\ seen.revision = actual.revision
                          /\ seen.moves = actual.moves
                          /\ seen.draw_offer = actual.draw_offer
                          /\ seen.status # actual.status
                             => /\ actual.status.kind = "timeout"
                                /\ \/ TickChanged(rooms[g].game.clock, now)
                                   \/ hushed[g] = {Flip(side)}
    BY DEF PlayersSeeTheGame
  <2> DEFINE c == rooms[g].seats[side].connection
  <2>1. /\ side \in Sides /\ rooms[g] # None
        /\ rooms[g].seats[side] # None /\ c # None
    BY DEF Players, IsConnected
  <2>2. rooms[g] \in Room /\ now \in Nat
    BY <2>1 DEF IInv, TypeOK
  <2>3. c \in Connections
    BY <2>1, <2>2 DEF Room, Slot
  <2>4. SitsAt(c, g, side)
    BY <2>1 DEF SitsAt
  <2>5. memberships[c] = [game_id |-> g, side |-> side]
    BY <2>1, <2>3, <2>4 DEF IInv, MapsAgree, SeatsMatchMemberships
  <2>6. memberships[c] # None
    BY <2>1, <2>5, OptionAssumption DEF Membership
  <2>7. UpToDate(told[c], rooms[g], side, hushed[g])
    BY <2>3, <2>5, <2>6 DEF ViewInv, MembersUpToDate
  <2>8. View(g, side) = told[c]
    BY DEF View
  <2>9. Unshown(rooms[g].game.clock) => TickChanged(rooms[g].game.clock, now)
    <3>1. InTime(rooms[g].game.clock)
      BY <2>1 DEF ViewInv, RoomsSound, OpenGames, Sound
    <3> QED
      BY <2>2, <3>1, SoundClock, TickKeepsTime
  <2> HIDE DEF c
  <2> QED
    BY <2>7, <2>8, <2>9 DEF UpToDate, Snapshot
<1>4. ViewSpec => Spec
  <2>1. ViewInit => Init
    BY DEF ViewInit
  <2>2. [ViewNext]_viewVars => [Next]_vars
    BY DEF ViewNext, viewVars
  <2> QED
    BY <2>1, <2>2, PTL DEF ViewSpec, Spec
<1> QED
  BY <1>1, <1>2, <1>3, <1>4, InvariantHolds, PTL DEF ViewSpec

\* The screen of a client goes back to an earlier state of its game only when the
\* answer it handles was overtaken on the way: whatever is lost, resent or resumed,
\* the hub, the outboxes and the queues put nothing else before what came later
\* (README.md; dispatch in server.rs, apply_online_snapshot in online.rs).
THEOREM OnlyLateNewsGoesBack == OnlineSpec => ViewNeverGoesBack
<1>1. OnlineInit => IInv /\ NothingStale /\ OwnSides
  BY OnlineStartsWell
<1>2. IInv /\ NothingStale /\ OwnSides /\ [OnlineNext]_onlineVars =>
          IInv' /\ NothingStale' /\ OwnSides'
  BY OnlineStepKeepsUp, OnlineStepOwns
<1>3. NothingStale /\ [OnlineNext]_onlineVars =>
        [\A p \in Clients :
          /\ sessions[p] # None /\ sessions'[p] # None
          /\ sessions[p].view.game_id # None
          /\ sessions'[p].view.game_id = sessions[p].view.game_id
          /\ sessions'[p].view.revision < sessions[p].view.revision
          => Head(events[p]).late]_onlineVars
  BY ScreenStep
<1> QED
  BY <1>1, <1>2, <1>3, PTL DEF OnlineSpec, ViewNeverGoesBack

\* A program keeps the seat of a connection that stays up, whatever the other
\* program, its own earlier connections and the ticker do, unless its game is
\* discarded or a Reconnect it left on an earlier connection is read late and takes
\* the seat back there (hub.rs, reconnect).
THEOREM OnlyOwnRequestsTakeSeats == OnlineSpec => SeatsAreLostToOwnRequests
<1>1. OnlineInit => IInv /\ NothingStale /\ OwnSides
  BY OnlineStartsWell
<1>2. IInv /\ NothingStale /\ OwnSides /\ [OnlineNext]_onlineVars =>
          IInv' /\ NothingStale' /\ OwnSides'
  BY OnlineStepKeepsUp, OnlineStepOwns
<1>3. /\ IInv /\ NothingStale /\ OwnSides /\ IInv' /\ OwnSides' /\ [OnlineNext]_onlineVars
      => [\A p \in Clients :
            LET c == links[p]
            IN  c # None /\ links'[p] = c /\ c \in sockets' /\ memberships[c] # None
                => \/ memberships'[c] = memberships[c]
                   \/ rooms'[memberships[c].game_id] = None
                   \/ \E old \in Connections :
                         /\ owners[old] = p /\ wires[old] # <<>>
                         /\ Head(wires[old]).kind = "Reconnect"
                         /\ memberships'[old] = memberships[c]]_onlineVars
  BY SeatStep
<1> QED
  BY <1>1, <1>2, <1>3, PTL DEF OnlineSpec, SeatsAreLostToOwnRequests
=============================================================================
