------------------------------ MODULE HubProofs ------------------------------
(***************************************************************************)
(* Proofs about module Hub, for every set of games, codes, users, clients  *)
(* and time controls and for every choice of the periods: its types, that  *)
(* seats, memberships, invites and the dates of absence agree, whose clock *)
(* runs, that no time is lost or charged twice, that a result is final and *)
(* that seats keep their account.                                          *)
(***************************************************************************)
EXTENDS Hub, GameProofs

\* What the maps of the hub say of each other.
MapsAgree ==
    /\ SeatsMatchMemberships
    /\ InvitesMatchRooms
    /\ AbsenceIsDated
    /\ HostsAreSeated
    /\ RoomsWereIssued

IInv == TypeOK /\ MapsAgree

-----------------------------------------------------------------------------
(* Rooms                                                                   *)

\* room is what became of old, of which only the game changed.
SameSeats(room, old) ==
    /\ room \in Room
    /\ room.seats = old.seats
    /\ room.invite_code = old.invite_code

LEMMA WithGameKeepsSeats ==
    ASSUME NEW room \in Room, NEW game \in GameState
    PROVE  SameSeats([room EXCEPT !.game = game], room)
BY DEF SameSeats, Room

LEMMA SettledKeepsSeats ==
    ASSUME NEW room \in Room, NEW t \in Nat
    PROVE  SameSeats(Settled(room, t), room)
<1>1. Sync(room.game.clock, t) \in Clock
  BY SyncType DEF Room, GameState
<1>2. [room.game EXCEPT !.clock = Sync(@, t)] \in GameState
  BY <1>1 DEF Room, GameState
<1> QED
  BY <1>2 DEF Settled, SameSeats, Room

LEMMA TickedKeepsSeats ==
    ASSUME NEW room \in Room, NEW t \in Nat
    PROVE  SameSeats([room EXCEPT !.game.clock = Tick(@, t)], room)
<1>1. Tick(room.game.clock, t) \in Clock
  BY TickType DEF Room, GameState
<1>2. [room.game EXCEPT !.clock = Tick(@, t)] \in GameState
  BY <1>1 DEF Room, GameState
<1> QED
  BY <1>2 DEF SameSeats, Room

LEMMA PlayedType ==
    ASSUME NEW game \in GameState, NEW move \in MoveKinds, NEW t \in Nat
    PROVE  Played(game, move, t) \in GameState
<1> DEFINE next == Play(game, move, t)
<1>1. next \in GameState
  BY PlayType
<1>2. [next EXCEPT !.clock = Pause(@, t)] \in GameState
  <2>1. Pause(next.clock, t) \in Clock
    BY <1>1, PauseType DEF GameState
  <2> HIDE DEF next
  <2> QED
    BY <1>1, <2>1 DEF GameState
<1> QED
  BY <1>1, <1>2 DEF Played

LEMMA AnsweredType ==
    ASSUME NEW game \in GameState, NEW accept \in BOOLEAN, NEW t \in Nat
    PROVE  Answered(game, accept, t) \in GameState
<1> DEFINE cleared == [game EXCEPT !.draw_offer = None]
<1>1. cleared \in GameState
  BY DEF GameState
<1>2. Pause(cleared.clock, t) \in Clock
  BY <1>1, PauseType DEF GameState
<1>3. [cleared EXCEPT !.agreed_draw = TRUE, !.clock = Pause(@, t)] \in GameState
  <2> HIDE DEF cleared
  <2> QED
    BY <1>1, <1>2 DEF GameState
<1> QED
  BY <1>1, <1>3, ChangedType DEF Answered

LEMMA ResignedType ==
    ASSUME NEW game \in GameState, NEW side \in Sides, NEW t \in Nat
    PROVE  Resigned(game, side, t) \in GameState
<1>1. [game EXCEPT !.resigned = side, !.clock = Pause(@, t)] \in GameState
  BY PauseType DEF GameState
<1> QED
  BY <1>1, ChangedType DEF Resigned

LEMMA AbandonedType ==
    ASSUME NEW game \in GameState, NEW side \in Sides, NEW t \in Nat
    PROVE  Abandoned(game, side, t) \in GameState
<1>1. [game EXCEPT !.abandoned = side, !.clock = Pause(@, t)] \in GameState
  BY PauseType DEF GameState
<1> QED
  BY <1>1, ChangedType DEF Abandoned

LEMMA EnforcedKeepsSeats ==
    ASSUME NEW room \in Room, NEW t \in Nat
    PROVE  SameSeats(Enforced(room, t), room)
<1> DEFINE ticked == [room EXCEPT !.game.clock = Tick(@, t)]
           gone == IF "white" \in Forfeiters(room, t) THEN "white" ELSE "black"
<1>1. SameSeats(ticked, room)
  BY TickedKeepsSeats
<1>2. Enforced(room, t) \in
          {ticked, [ticked EXCEPT !.game = Abandoned(@, gone, t)]}
  BY DEF Enforced
<1>3. SameSeats([ticked EXCEPT !.game = Abandoned(@, gone, t)], room)
  <2>1. gone \in Sides
    BY DEF Sides
  <2> HIDE DEF ticked, gone
  <2>2. Abandoned(ticked.game, gone, t) \in GameState
    BY <1>1, <2>1, AbandonedType DEF SameSeats, Room
  <2> QED
    BY <1>1, <2>2 DEF SameSeats, Room
<1> QED
  BY <1>1, <1>2, <1>3

LEMMA TickedRoomKeepsSeats ==
    ASSUME NEW room \in Room, NEW t \in Nat
    PROVE  SameSeats(TickedRoom(room, t), room)
BY EnforcedKeepsSeats DEF TickedRoom, SameSeats, Room

-----------------------------------------------------------------------------
(* Steps that change nothing but games                                     *)

\* The rooms are the same, in the same seats, whatever became of their games.
OnlyGamesChange ==
    /\ \A g \in GameIds : \/ rooms[g] = None /\ rooms'[g] = None
                          \/ rooms[g] # None /\ SameSeats(rooms'[g], rooms[g])
    /\ sockets \subseteq sockets'
    /\ UNCHANGED <<invites, memberships, issued>>

LEMMA GamesKeepMaps ==
    ASSUME IInv, OnlyGamesChange
    PROVE  MapsAgree'
<1> USE OptionAssumption DEF IInv, MapsAgree, OnlyGamesChange, SameSeats
<1>a. OpenGames' = OpenGames
  BY DEF OpenGames
<1>b. \A c \in Connections, g \in GameIds, side \in Sides :
          SitsAt(c, g, side)' <=> SitsAt(c, g, side)
  BY DEF SitsAt
<1>1. SeatsMatchMemberships'
  BY <1>b DEF SeatsMatchMemberships
<1>2. InvitesMatchRooms'
  BY <1>a DEF InvitesMatchRooms, OpenGames, TypeOK
<1>3. AbsenceIsDated'
  BY <1>a DEF AbsenceIsDated, OpenGames
<1>4. HostsAreSeated'
  BY <1>a DEF HostsAreSeated, OpenGames
<1>5. RoomsWereIssued'
  BY <1>a DEF RoomsWereIssued
<1> QED
  BY <1>1, <1>2, <1>3, <1>4, <1>5

\* The types of what such a step may change.
GamesKeepTypes ==
    /\ finished_games' \subseteq FinishedGame
    /\ identities' \in [Connections -> Users \cup {None}]
    /\ next_connection_id' \in Nat \ {0}
    /\ dirty' \in BOOLEAN
    /\ sockets' \subseteq Connections
    /\ now' \in Nat

LEMMA GamesKeepInvariant ==
    ASSUME IInv, OnlyGamesChange, GamesKeepTypes,
           rooms' = [g \in GameIds |-> rooms'[g]]
    PROVE  IInv'
<1>1. rooms' \in [GameIds -> Room \cup {None}]
  BY DEF OnlyGamesChange, SameSeats
<1>2. TypeOK'
  BY <1>1 DEF IInv, TypeOK, OnlyGamesChange, GamesKeepTypes
<1> QED
  BY <1>2, GamesKeepMaps DEF IInv

LEMMA UnchangedRoomsKeepInvariant ==
    ASSUME IInv, GamesKeepTypes, sockets \subseteq sockets',
           UNCHANGED <<rooms, invites, memberships, issued>>
    PROVE  IInv'
<1>1. rooms' = [g \in GameIds |-> rooms'[g]]
  BY DEF IInv, TypeOK
<1>2. \A g \in GameIds : rooms[g] # None => SameSeats(rooms'[g], rooms[g])
  BY DEF IInv, TypeOK, SameSeats
<1> QED
  BY <1>1, <1>2, GamesKeepInvariant DEF OnlyGamesChange

LEMMA RefusalKeepsInvariant ==
    ASSUME IInv, NEW c, NEW code, Refuse(c, code)
    PROVE  IInv'
BY UnchangedRoomsKeepInvariant DEF Refuse, GamesKeepTypes, IInv, TypeOK

LEMMA OneRoomKeepsInvariant ==
    ASSUME IInv, NEW g \in GameIds, rooms[g] # None,
           NEW room, SameSeats(room, rooms[g]),
           rooms' = [rooms EXCEPT ![g] = room],
           GamesKeepTypes, sockets \subseteq sockets',
           UNCHANGED <<invites, memberships, issued>>
    PROVE  IInv'
<1>1. rooms' = [h \in GameIds |-> rooms'[h]]
  BY DEF IInv, TypeOK
<1>2. \A h \in GameIds : \/ rooms[h] = None /\ rooms'[h] = None
                         \/ rooms[h] # None /\ SameSeats(rooms'[h], rooms[h])
  BY DEF IInv, TypeOK, SameSeats
<1> QED
  BY <1>1, <1>2, GamesKeepInvariant DEF OnlyGamesChange

\* A member's room is there: the `expect` of play_move never fails.
LEMMA MembersHaveRooms ==
    ASSUME IInv, NEW c \in Connections, NEW g, IsMember(c, g)
    PROVE  /\ g \in GameIds /\ rooms[g] \in Room /\ rooms[g] # None
           /\ memberships[c].side \in Sides
           /\ memberships[c] = [game_id |-> g, side |-> memberships[c].side]
<1>1. memberships[c] \in Membership /\ memberships[c].game_id = g
  BY DEF IInv, TypeOK, IsMember
<1>2. /\ g \in GameIds /\ memberships[c].side \in Sides
      /\ memberships[c] = [game_id |-> g, side |-> memberships[c].side]
  BY <1>1 DEF Membership
<1>3. SitsAt(c, g, memberships[c].side)
  BY <1>2 DEF IInv, MapsAgree, SeatsMatchMemberships
<1> QED
  BY <1>2, <1>3 DEF SitsAt, IInv, TypeOK

LEMMA PublishKeepsInvariant ==
    ASSUME IInv, NEW g \in GameIds, rooms[g] # None, NEW t \in Nat,
           NEW room, SameSeats(room, rooms[g]),
           rooms' = [rooms EXCEPT ![g] = Settled(room, t)],
           GamesKeepTypes, sockets \subseteq sockets',
           UNCHANGED <<invites, memberships, issued>>
    PROVE  IInv'
<1>1. SameSeats(Settled(room, t), rooms[g])
  BY SettledKeepsSeats DEF SameSeats
<1> QED
  BY <1>1, OneRoomKeepsInvariant

LEMMA PlayMoveKeepsInvariant ==
    ASSUME IInv, NEW c \in Connections, NEW g \in GameIds, NEW ply \in Nat,
           NEW move, NEW later \in Nat, PlayMove(c, g, ply, move, later)
    PROVE  IInv'
<1>1. CASE RefuseStranger(c, g)
  BY <1>1, RefusalKeepsInvariant DEF RefuseStranger
<1>2. CASE IsMember(c, g) /\ ~RefuseStranger(c, g)
  <2> DEFINE room == [rooms[g] EXCEPT !.game.clock = Tick(@, now)]
             reason == Rejection(room, memberships[c].side, ply, move)
             played == [room EXCEPT !.game = Played(@, move, later)]
  <2>1. rooms[g] \in Room /\ rooms[g] # None /\ now \in Nat
    BY <1>2, MembersHaveRooms DEF IInv, TypeOK
  <2>2. SameSeats(room, rooms[g])
    BY <2>1, TickedKeepsSeats
  <2>3. ASSUME reason = None  PROVE SameSeats(played, rooms[g])
    <3>1. move \in MoveKinds
      BY <2>3, OptionAssumption DEF Rejection, Reasons
    <3> HIDE DEF room
    <3>2. Played(room.game, move, later) \in GameState
      BY <2>2, <3>1, PlayedType DEF SameSeats, Room
    <3> QED
      BY <2>2, <3>2 DEF SameSeats, Room
  <2>4. \/ rooms' = [rooms EXCEPT ![g] = Settled(room, later)]
        \/ reason = None /\ rooms' = [rooms EXCEPT ![g] = Settled(played, later)]
    BY <1>2 DEF PlayMove, Publish
  <2>5. GamesKeepTypes /\ sockets' = sockets /\ UNCHANGED <<invites, memberships, issued>>
    BY <1>2 DEF PlayMove, GamesKeepTypes, IInv, TypeOK
  <2> HIDE DEF room, reason, played
  <2>6. CASE rooms' = [rooms EXCEPT ![g] = Settled(room, later)]
    BY <2>1, <2>2, <2>5, <2>6, PublishKeepsInvariant
  <2>7. CASE reason = None /\ rooms' = [rooms EXCEPT ![g] = Settled(played, later)]
    BY <2>1, <2>3, <2>5, <2>7, PublishKeepsInvariant
  <2> QED
    BY <2>4, <2>6, <2>7
<1> QED
  BY <1>1, <1>2 DEF PlayMove

\* Offers, answers and resignations: a member's game becomes another game.
LEMMA ChangedGameKeepsInvariant ==
    ASSUME IInv, NEW c \in Connections, NEW g \in GameIds, IsMember(c, g),
           NEW game \in GameState,
           Publish(g, [rooms[g] EXCEPT !.game = game], now), dirty' = TRUE,
           UNCHANGED <<invites, memberships, identities, finished_games,
                       next_connection_id, sockets, issued, now>>
    PROVE  IInv'
<1>1. rooms[g] \in Room /\ rooms[g] # None /\ now \in Nat
  BY MembersHaveRooms DEF IInv, TypeOK
<1>2. SameSeats([rooms[g] EXCEPT !.game = game], rooms[g])
  BY <1>1, WithGameKeepsSeats
<1>3. GamesKeepTypes
  BY DEF GamesKeepTypes, IInv, TypeOK
<1> QED
  BY <1>1, <1>2, <1>3, PublishKeepsInvariant DEF Publish

LEMMA OfferDrawKeepsInvariant ==
    ASSUME IInv, NEW c \in Connections, NEW g \in GameIds, OfferDraw(c, g)
    PROVE  IInv'
<1>1. CASE RefuseStranger(c, g)
  BY <1>1, RefusalKeepsInvariant DEF RefuseStranger
<1>2. CASE IsMember(c, g) /\ ~IsActive(rooms[g]) /\ Refuse(c, "InvalidRequest")
  BY <1>2, RefusalKeepsInvariant
<1>3. CASE IsMember(c, g) /\ IsActive(rooms[g]) /\ dirty' = TRUE
  <2> DEFINE game == Changed([rooms[g].game EXCEPT !.draw_offer = memberships[c].side])
  <2>1. rooms[g].game \in GameState /\ memberships[c].side \in Sides
    BY <1>3, MembersHaveRooms DEF Room
  <2>2. game \in GameState
    <3>1. [rooms[g].game EXCEPT !.draw_offer = memberships[c].side] \in GameState
      BY <2>1 DEF GameState
    <3> QED
      BY <3>1, ChangedType
  <2>3. [rooms[g] EXCEPT !.game = game] =
        [rooms[g] EXCEPT !.game = Changed([@ EXCEPT !.draw_offer = memberships[c].side])]
    OBVIOUS
  <2> HIDE DEF game
  <2> QED
    BY <1>3, <2>2, <2>3, ChangedGameKeepsInvariant, RefusalKeepsInvariant
       DEF OfferDraw, RefuseStranger
<1> QED
  BY <1>1, <1>2, <1>3 DEF OfferDraw

LEMMA RespondDrawKeepsInvariant ==
    ASSUME IInv, NEW c \in Connections, NEW g \in GameIds, NEW accept \in BOOLEAN,
           RespondDraw(c, g, accept)
    PROVE  IInv'
<1>1. CASE RefuseStranger(c, g)
  BY <1>1, RefusalKeepsInvariant DEF RefuseStranger
<1>2. CASE Refuse(c, "InvalidRequest")
  BY <1>2, RefusalKeepsInvariant
<1>3. CASE IsMember(c, g) /\ ~Refuse(c, "InvalidRequest")
  <2> DEFINE game == Answered(rooms[g].game, accept, now)
  <2>1. rooms[g].game \in GameState /\ now \in Nat
    BY <1>3, MembersHaveRooms DEF Room, IInv, TypeOK
  <2>2. game \in GameState
    BY <2>1, AnsweredType
  <2>3. [rooms[g] EXCEPT !.game = game] =
        [rooms[g] EXCEPT !.game = Answered(@, accept, now)]
    OBVIOUS
  <2> HIDE DEF game
  <2> QED
    BY <1>3, <2>2, <2>3, ChangedGameKeepsInvariant DEF RespondDraw, RefuseStranger
<1> QED
  BY <1>1, <1>2, <1>3 DEF RespondDraw

LEMMA ResignKeepsInvariant ==
    ASSUME IInv, NEW c \in Connections, NEW g \in GameIds, Resign(c, g)
    PROVE  IInv'
<1>1. CASE RefuseStranger(c, g)
  BY <1>1, RefusalKeepsInvariant DEF RefuseStranger
<1>2. CASE Refuse(c, "InvalidRequest")
  BY <1>2, RefusalKeepsInvariant
<1>3. CASE IsMember(c, g) /\ ~Refuse(c, "InvalidRequest")
  <2> DEFINE game == Resigned(rooms[g].game, memberships[c].side, now)
  <2>1. rooms[g].game \in GameState /\ memberships[c].side \in Sides /\ now \in Nat
    BY <1>3, MembersHaveRooms DEF Room, IInv, TypeOK
  <2>2. game \in GameState
    BY <2>1, ResignedType
  <2>3. [rooms[g] EXCEPT !.game = game] =
        [rooms[g] EXCEPT !.game = Resigned(@, memberships[c].side, now)]
    OBVIOUS
  <2> HIDE DEF game
  <2> QED
    BY <1>3, <2>2, <2>3, ChangedGameKeepsInvariant DEF Resign, RefuseStranger
<1> QED
  BY <1>1, <1>2, <1>3 DEF Resign

-----------------------------------------------------------------------------
(* Taking and leaving a seat                                               *)

\* A connection that is no member sits nowhere, and a member in one seat only.
LEMMA OneSeatEach ==
    ASSUME IInv, NEW c \in Connections, NEW g \in GameIds, NEW side \in Sides,
           SitsAt(c, g, side)
    PROVE  /\ memberships[c] = [game_id |-> g, side |-> side]
           /\ memberships[c] # None
           /\ \A h \in GameIds, s \in Sides : SitsAt(c, h, s) => h = g /\ s = side
<1>1. \A h \in GameIds, s \in Sides :
          SitsAt(c, h, s) => memberships[c] = [game_id |-> h, side |-> s]
  BY DEF IInv, MapsAgree, SeatsMatchMemberships
<1>2. [game_id |-> g, side |-> side] \in Membership
  BY DEF Membership
<1>3. memberships[c] = [game_id |-> g, side |-> side]
  BY <1>1
<1>4. memberships[c].game_id = g /\ memberships[c].side = side
  BY <1>3
<1>5. \A h \in GameIds, s \in Sides :
          SitsAt(c, h, s) => memberships[c].game_id = h /\ memberships[c].side = s
  <2> SUFFICES ASSUME NEW h \in GameIds, NEW s \in Sides, SitsAt(c, h, s)
               PROVE  memberships[c].game_id = h /\ memberships[c].side = s
    OBVIOUS
  <2>1. memberships[c] = [game_id |-> h, side |-> s]
    BY <1>1
  <2> QED
    BY <2>1
<1> QED
  BY <1>2, <1>3, <1>4, <1>5, OptionAssumption

LEMMA NewSlotType ==
    ASSUME IInv, NEW c \in Connections
    PROVE  /\ NewSlot(identities[c], c) \in Slot
           /\ NewSlot(identities[c], c) # None
           /\ c # None
<1>1. identities[c] \in Users \cup {None}
  BY DEF IInv, TypeOK
<1>2. c # None
  BY NoneAssumption, HubAssumption DEF Connections
<1> QED
  BY <1>1, <1>2, OptionAssumption DEF NewSlot, Slot

\* The hub after a seat of game g was given to connection c, which had none, by
\* creating the room or in a room that was there.
SeatGiven(c, g, side) ==
    /\ rooms'[g] \in Room
    /\ rooms' = [rooms EXCEPT ![g] = rooms'[g]]
    /\ rooms'[g].seats[side] # None
    /\ rooms'[g].seats[side].connection = c
    /\ rooms'[g].seats[side].disconnected_at = None
    /\ IF rooms[g] = None
       THEN \A s \in Sides : s # side => rooms'[g].seats[s] = None
       ELSE \A s \in Sides : s # side => rooms'[g].seats[s] = rooms[g].seats[s]
    /\ rooms'[g].seats["white"] # None
    /\ UNCHANGED <<identities, finished_games, next_connection_id, sockets, now>>
    /\ dirty' = TRUE

LEMMA SeatGivenKeepsSeats ==
    ASSUME IInv, NEW c \in sockets, NEW g \in GameIds, NEW side \in Sides,
           memberships[c] = None, SeatGiven(c, g, side),
           memberships' = Transferred(IF rooms[g] = None \/ rooms[g].seats[side] = None
                                      THEN None ELSE rooms[g].seats[side].connection,
                                      c, g, side)
    PROVE  SeatsMatchMemberships' /\ AbsenceIsDated' /\ HostsAreSeated'
<1> USE DEF IInv, TypeOK, MapsAgree
<1> DEFINE old == IF rooms[g] = None \/ rooms[g].seats[side] = None
                  THEN None ELSE rooms[g].seats[side].connection
<1>0. c \in Connections /\ c # None /\ rooms'[g] # None
  BY NewSlotType, OptionAssumption DEF SeatGiven
<1>1. ASSUME NEW d \in Connections, NEW h \in GameIds, NEW s \in Sides
      PROVE  SitsAt(d, h, s)' <=> IF h = g /\ s = side THEN d = c ELSE SitsAt(d, h, s)
  <2>1. CASE h # g
    BY <2>1 DEF SitsAt, SeatGiven
  <2>2. CASE h = g /\ s = side
    BY <2>2, <1>0 DEF SitsAt, SeatGiven
  <2>3. CASE h = g /\ s # side
    BY <2>3, <1>0 DEF SitsAt, SeatGiven
  <2> QED
    BY <2>1, <2>2, <2>3
<1>2. \A h \in GameIds, s \in Sides : ~SitsAt(c, h, s)
  BY <1>0, OneSeatEach
<1>3. \A d \in Connections : d = old <=> SitsAt(d, g, side)
  BY NewSlotType DEF SitsAt
<1>4. ASSUME NEW d \in Connections
      PROVE  memberships'[d] = IF d = c THEN [game_id |-> g, side |-> side]
                               ELSE IF SitsAt(d, g, side) THEN None ELSE memberships[d]
  BY <1>3 DEF Transferred
<1>5. SeatsMatchMemberships'
  <2> SUFFICES ASSUME NEW d \in Connections
               PROVE  /\ memberships'[d] # None => d \in sockets
                      /\ \A h \in GameIds, s \in Sides :
                            SitsAt(d, h, s)' <=> memberships'[d] = [game_id |-> h, side |-> s]
    BY DEF SeatsMatchMemberships, SeatGiven
  <2>1. /\ memberships[d] # None => d \in sockets
        /\ \A h \in GameIds, s \in Sides :
              SitsAt(d, h, s) <=> memberships[d] = [game_id |-> h, side |-> s]
    BY DEF SeatsMatchMemberships
  <2>2. \A h \in GameIds, s \in Sides : [game_id |-> h, side |-> s] # None
    BY OptionAssumption DEF Membership
  <2>3. CASE d = c
    BY <2>3, <1>1, <1>2, <1>4
  <2>4. CASE d # c /\ SitsAt(d, g, side)
    BY <2>2, <2>4, <1>1, <1>4, OneSeatEach
  <2>5. CASE d # c /\ ~SitsAt(d, g, side)
    BY <2>1, <2>5, <1>1, <1>4
  <2> QED
    BY <2>3, <2>4, <2>5
<1>6. AbsenceIsDated'
  <2> SUFFICES ASSUME NEW h \in GameIds, rooms'[h] # None, NEW s \in Sides,
                      rooms'[h].seats[s] # None
               PROVE  rooms'[h].seats[s].connection = None
                          <=> rooms'[h].seats[s].disconnected_at # None
    BY DEF AbsenceIsDated, OpenGames
  <2>1. CASE h = g /\ s = side
    BY <2>1, <1>0 DEF SeatGiven
  <2>2. CASE h # g \/ s # side
    BY <2>2 DEF SeatGiven, AbsenceIsDated, OpenGames
  <2> QED
    BY <2>1, <2>2
<1>7. HostsAreSeated'
  BY DEF HostsAreSeated, OpenGames, SeatGiven
<1> QED
  BY <1>5, <1>6, <1>7

LEMMA SeatGivenKeepsTypes ==
    ASSUME IInv, NEW c \in sockets, NEW g \in GameIds, NEW side \in Sides,
           SeatGiven(c, g, side), NEW old, memberships' = Transferred(old, c, g, side),
           invites' \in [Codes -> GameIds \cup {None}], issued' \subseteq GameIds
    PROVE  TypeOK'
<1>1. memberships' \in [Connections -> Membership \cup {None}]
  BY DEF Transferred, Membership, IInv, TypeOK
<1>2. rooms' \in [GameIds -> Room \cup {None}]
  BY DEF SeatGiven, IInv, TypeOK
<1> QED
  BY <1>1, <1>2 DEF SeatGiven, IInv, TypeOK

LEMMA CreateGameKeepsInvariant ==
    ASSUME IInv, NEW c \in Connections, NEW name_ok \in BOOLEAN, NEW tc \in TimeControls,
           CreateGame(c, name_ok, tc)
    PROVE  IInv'
<1>1. CASE Refuse(c, "InvalidRequest")
  BY <1>1, RefusalKeepsInvariant
<1>2. CASE ~Refuse(c, "InvalidRequest")
  <2> DEFINE game == NewGame("white", tc.initial, tc.increment, now)
             paused == [game EXCEPT !.clock = Pause(@, now)]
             seats == [s \in Sides |-> IF s = "white" THEN NewSlot(identities[c], c)
                                       ELSE None]
             room(k) == [invite_code |-> k, game |-> paused, seats |-> seats,
                         started_at |-> 0, finished_at |-> None]
  <2>1. /\ c \in sockets /\ memberships[c] = None
        /\ UNCHANGED <<identities, finished_games, next_connection_id, sockets, now>>
        /\ dirty' = TRUE
    BY <1>2 DEF CreateGame, MayTakeSeat
  <2>2. PICK g \in GameIds \ issued, k \in {x \in Codes : invites[x] = None} :
            /\ issued' = issued \cup {g}
            /\ invites' = [invites EXCEPT ![k] = g]
            /\ memberships' = [memberships EXCEPT
                                  ![c] = [game_id |-> g, side |-> "white"]]
            /\ rooms' = [rooms EXCEPT ![g] = room(k)]
    BY <1>2 DEF CreateGame
  <2>3. paused \in GameState
    <3>1. game \in GameState
      BY NewGameType, HubAssumption DEF IInv, TypeOK, Sides
    <3> HIDE DEF game
    <3>2. Pause(game.clock, now) \in Clock
      BY <3>1, PauseType DEF GameState, IInv, TypeOK
    <3> QED
      BY <3>1, <3>2 DEF GameState
  <2>4. seats \in [Sides -> Slot \cup {None}]
    BY NewSlotType
  <2> HIDE DEF paused
  <2>5. room(k) \in Room
    BY <2>3, <2>4 DEF Room
  <2>6. rooms[g] = None /\ rooms'[g] = room(k)
    BY <2>2 DEF IInv, TypeOK, MapsAgree, RoomsWereIssued, OpenGames
  <2>7. SeatGiven(c, g, "white")
    BY <2>1, <2>2, <2>5, <2>6, NewSlotType DEF SeatGiven, NewSlot, Sides, IInv, TypeOK
  <2>8. memberships' = Transferred(None, c, g, "white")
    BY <2>2, NewSlotType DEF Transferred, IInv, TypeOK
  <2>9. TypeOK'
    BY <2>1, <2>2, <2>7, <2>8, SeatGivenKeepsTypes DEF Sides, IInv, TypeOK
  <2>10. SeatsMatchMemberships' /\ AbsenceIsDated' /\ HostsAreSeated'
    BY <2>1, <2>6, <2>7, <2>8, SeatGivenKeepsSeats DEF Sides
  <2>11. InvitesMatchRooms'
    <3>1. rooms'[g] # None /\ rooms'[g].invite_code = k
      BY <2>5, <2>6, OptionAssumption
    <3>2. ASSUME NEW x \in Codes, invites'[x] # None
          PROVE  rooms'[invites'[x]] # None /\ rooms'[invites'[x]].invite_code = x
      <4>1. CASE x = k
        BY <2>2, <3>1, <4>1 DEF IInv, TypeOK
      <4>2. CASE x # k
        BY <2>2, <2>6, <3>2, <4>2 DEF IInv, TypeOK, MapsAgree, InvitesMatchRooms
      <4> QED
        BY <4>1, <4>2
    <3>3. ASSUME NEW h \in GameIds, rooms'[h] # None
          PROVE  invites'[rooms'[h].invite_code] = h
      <4>1. CASE h = g
        BY <2>2, <3>1, <4>1 DEF IInv, TypeOK
      <4>2. CASE h # g
        <5>1. invites[rooms[h].invite_code] = h /\ rooms[h].invite_code # k
          BY <2>2, <3>3, <4>2, HubAssumption
             DEF IInv, TypeOK, MapsAgree, InvitesMatchRooms, OpenGames
        <5> QED
          BY <2>2, <4>2, <5>1 DEF IInv, TypeOK
      <4> QED
        BY <4>1, <4>2
    <3> QED
      BY <3>2, <3>3 DEF InvitesMatchRooms, OpenGames
  <2>12. RoomsWereIssued'
    BY <2>2 DEF IInv, TypeOK, MapsAgree, RoomsWereIssued, OpenGames
  <2> QED
    BY <2>9, <2>10, <2>11, <2>12 DEF IInv, MapsAgree
<1> QED
  BY <1>1, <1>2

LEMMA JoinGameKeepsInvariant ==
    ASSUME IInv, NEW c \in Connections, NEW name_ok \in BOOLEAN, NEW k \in Codes,
           JoinGame(c, name_ok, k)
    PROVE  IInv'
<1>1. CASE \E code : Refuse(c, code)
  BY <1>1, RefusalKeepsInvariant
<1>2. CASE ~\E code : Refuse(c, code)
  <2> DEFINE g == invites[k]
             game == Begun(rooms[g].game, now)
             room == [rooms[g] EXCEPT !.seats["black"] = NewSlot(identities[c], c),
                                      !.started_at = now,
                                      !.game = game]
  <2>1. /\ c \in sockets /\ memberships[c] = None
        /\ g # None /\ ~Joined(rooms[g])
        /\ memberships' = [memberships EXCEPT ![c] = [game_id |-> g, side |-> "black"]]
        /\ UNCHANGED <<invites, identities, finished_games, next_connection_id,
                       sockets, issued, now>>
        /\ dirty' = TRUE
    BY <1>2 DEF JoinGame, MayTakeSeat
  <2>2. g \in GameIds /\ rooms[g] # None /\ rooms[g] \in Room /\ rooms[g].seats["black"] = None
    BY <2>1 DEF IInv, TypeOK, MapsAgree, InvitesMatchRooms, Joined
  <2>a. rooms' = [rooms EXCEPT ![g] = Settled(room, now)]
    BY <1>2 DEF JoinGame
  <2>3. game \in GameState
    <3>1. Resume(rooms[g].game.clock, "white", now) \in Clock
      BY <2>2, ResumeType DEF Room, GameState, IInv, TypeOK, Sides
    <3>2. [rooms[g].game EXCEPT !.clock = Resume(@, "white", now)] \in GameState
      BY <2>2, <3>1 DEF Room, GameState
    <3> QED
      BY <3>2, ChangedType DEF Begun
  <2> HIDE DEF game
  <2>4. /\ room \in Room
        /\ room.seats = [rooms[g].seats EXCEPT !["black"] = NewSlot(identities[c], c)]
        /\ room.invite_code = rooms[g].invite_code
    BY <2>2, <2>3, NewSlotType DEF Room, IInv, TypeOK, Sides
  <2> HIDE DEF room, g
  <2>5. SameSeats(rooms'[g], room)
    <3>1. SameSeats(Settled(room, now), room)
      BY <2>4, SettledKeepsSeats DEF IInv, TypeOK
    <3> QED
      BY <2>a, <2>2, <3>1 DEF IInv, TypeOK
  <2>6. SeatGiven(c, g, "black")
    BY <2>1, <2>a, <2>2, <2>4, <2>5, NewSlotType
       DEF SeatGiven, SameSeats, NewSlot, Room, Sides, IInv, TypeOK, MapsAgree,
           HostsAreSeated, OpenGames
  <2>7. memberships' = Transferred(None, c, g, "black")
    BY <2>1, NewSlotType DEF Transferred, IInv, TypeOK
  <2>8. TypeOK'
    BY <2>1, <2>2, <2>6, <2>7, SeatGivenKeepsTypes DEF Sides, IInv, TypeOK
  <2>9. SeatsMatchMemberships' /\ AbsenceIsDated' /\ HostsAreSeated'
    BY <2>1, <2>2, <2>6, <2>7, SeatGivenKeepsSeats DEF Sides
  <2>10. InvitesMatchRooms' /\ RoomsWereIssued'
    BY <2>1, <2>a, <2>2, <2>4, <2>5, OptionAssumption
       DEF SameSeats, IInv, TypeOK, MapsAgree, InvitesMatchRooms, RoomsWereIssued, OpenGames
  <2> QED
    BY <2>8, <2>9, <2>10 DEF IInv, MapsAgree
<1> QED
  BY <1>1, <1>2

LEMMA ReconnectKeepsInvariant ==
    ASSUME IInv, NEW c \in Connections, NEW g \in GameIds, NEW token,
           Reconnect(c, g, token)
    PROVE  IInv'
<1>1. CASE \E code : Refuse(c, code)
  BY <1>1, RefusalKeepsInvariant
<1>2. CASE ~\E code : Refuse(c, code)
  <2>1. /\ c \in sockets /\ memberships[c] = None
        /\ UNCHANGED <<invites, identities, finished_games, next_connection_id,
                       sockets, issued, now>>
        /\ dirty' = TRUE
    BY <1>2 DEF Reconnect
  <2>2. PICK side \in Sides :
            /\ rooms[g] # None /\ rooms[g].seats[side] # None
            /\ rooms' = [rooms EXCEPT ![g] = Settled(Reseated(rooms[g], side, c), now)]
            /\ memberships' = Transferred(rooms[g].seats[side].connection, c, g, side)
    BY <1>2 DEF Reconnect
  <2> DEFINE room == Reseated(rooms[g], side, c)
             slot == [rooms[g].seats[side] EXCEPT !.connection = c,
                                                  !.disconnected_at = None]
  <2>3. rooms[g] \in Room /\ rooms[g].seats[side] \in Slot
    BY <2>2 DEF IInv, TypeOK, Room
  <2>4. slot \in Slot /\ slot # None /\ slot.connection = c /\ slot.disconnected_at = None
    BY <2>3, OptionAssumption DEF Slot
  <2>5. /\ room \in Room
        /\ room.seats = [rooms[g].seats EXCEPT ![side] = slot]
        /\ room.invite_code = rooms[g].invite_code
    BY <2>3, <2>4 DEF Reseated, Room
  <2> HIDE DEF room, slot
  <2>6. SameSeats(rooms'[g], room)
    <3>1. SameSeats(Settled(room, now), room)
      BY <2>5, SettledKeepsSeats DEF IInv, TypeOK
    <3> QED
      BY <2>2, <3>1 DEF room, IInv, TypeOK
  <2>7. SeatGiven(c, g, side)
    <3>1. rooms[g].seats["white"] # None
      BY <2>2 DEF IInv, MapsAgree, HostsAreSeated, OpenGames
    <3>2. /\ rooms'[g] \in Room
          /\ rooms'[g].seats = [rooms[g].seats EXCEPT ![side] = slot]
      BY <2>5, <2>6 DEF SameSeats
    <3>3. rooms[g].seats \in [Sides -> Slot \cup {None}]
      BY <2>3 DEF Room
    <3>4. /\ rooms'[g].seats[side] = slot
          /\ \A s \in Sides : s # side => rooms'[g].seats[s] = rooms[g].seats[s]
      BY <3>2, <3>3
    <3>5. rooms'[g].seats["white"] # None
      BY <2>4, <3>1, <3>4 DEF Sides
    <3>6. rooms' = [rooms EXCEPT ![g] = rooms'[g]]
      BY <2>2 DEF IInv, TypeOK
    <3> QED
      BY <2>1, <2>2, <2>4, <3>2, <3>4, <3>5, <3>6 DEF SeatGiven
  <2>8. TypeOK'
    BY <2>1, <2>2, <2>7, SeatGivenKeepsTypes DEF IInv, TypeOK
  <2>9. SeatsMatchMemberships' /\ AbsenceIsDated' /\ HostsAreSeated'
    BY <2>1, <2>2, <2>7, SeatGivenKeepsSeats
  <2>10. InvitesMatchRooms' /\ RoomsWereIssued'
    BY <2>1, <2>2, <2>5, <2>6, OptionAssumption
       DEF SameSeats, IInv, TypeOK, MapsAgree, InvitesMatchRooms, RoomsWereIssued, OpenGames
  <2> QED
    BY <2>8, <2>9, <2>10 DEF IInv, MapsAgree
<1> QED
  BY <1>1, <1>2

LEMMA DisconnectKeepsInvariant ==
    ASSUME IInv, NEW c \in Connections, Disconnect(c)
    PROVE  IInv'
<1> USE DEF IInv, TypeOK, MapsAgree
<1>1. /\ sockets' = sockets \ {c}
      /\ identities' = [identities EXCEPT ![c] = None]
      /\ memberships' = [memberships EXCEPT ![c] = None]
      /\ UNCHANGED <<invites, finished_games, next_connection_id, dirty, issued, now>>
  BY DEF Disconnect
<1>2. CASE memberships[c] = None
  <2>1. rooms' = rooms
    BY <1>2 DEF Disconnect
  <2>2. memberships' = memberships
    BY <1>1, <1>2
  <2>3. SeatsMatchMemberships'
    BY <1>1, <1>2, <2>1, <2>2 DEF SeatsMatchMemberships, SitsAt
  <2>4. InvitesMatchRooms' /\ AbsenceIsDated' /\ HostsAreSeated' /\ RoomsWereIssued'
    BY <1>1, <2>1 DEF InvitesMatchRooms, AbsenceIsDated, HostsAreSeated, RoomsWereIssued,
                      OpenGames
  <2>5. TypeOK'
    BY <1>1, <2>1
  <2> QED
    BY <2>3, <2>4, <2>5
<1>3. CASE memberships[c] # None
  <2> DEFINE g == memberships[c].game_id
             side == memberships[c].side
             slot == [rooms[g].seats[side] EXCEPT !.connection = None,
                                                  !.disconnected_at = now]
  <2>1. IsMember(c, g)
    BY <1>3 DEF IsMember
  <2>2. /\ g \in GameIds /\ side \in Sides /\ rooms[g] # None /\ rooms[g] \in Room
        /\ memberships[c] = [game_id |-> g, side |-> side]
    BY <2>1, MembersHaveRooms
  <2>3. SitsAt(c, g, side) /\ c # None
    BY <2>2, NewSlotType DEF SeatsMatchMemberships
  <2>4. /\ rooms' = [rooms EXCEPT ![g] = Vacated(rooms[g], side, c, now)]
    BY <1>3, <2>2 DEF Disconnect
  <2> HIDE DEF g, side
  <2>5. rooms[g].seats[side] \in Slot
    BY <2>2, <2>3 DEF SitsAt, Room
  <2>6. slot \in Slot /\ slot # None /\ slot.connection = None /\ slot.disconnected_at = now
    BY <2>5, OptionAssumption DEF Slot
  <2>7. Vacated(rooms[g], side, c, now) =
            [rooms[g] EXCEPT !.seats[side].connection = None,
                             !.seats[side].disconnected_at = now]
    BY <2>3 DEF Vacated, IsConnected, SitsAt
  <2>8. /\ rooms'[g] \in Room
        /\ rooms'[g].seats = [rooms[g].seats EXCEPT ![side] = slot]
        /\ rooms'[g].invite_code = rooms[g].invite_code
        /\ \A h \in GameIds : h # g => rooms'[h] = rooms[h]
    <3> DEFINE room == [rooms[g] EXCEPT !.seats = [rooms[g].seats EXCEPT ![side] = slot]]
    <3>1. rooms[g].seats \in [Sides -> Slot \cup {None}]
      BY <2>2 DEF Room
    <3>2. Vacated(rooms[g], side, c, now) = room
      BY <2>2, <2>7, <3>1 DEF Room, Slot
    <3> HIDE DEF slot
    <3>3. /\ room \in Room
          /\ room.seats = [rooms[g].seats EXCEPT ![side] = slot]
          /\ room.invite_code = rooms[g].invite_code
      BY <2>2, <2>6, <3>1 DEF Room
    <3> QED
      BY <2>2, <2>4, <3>2, <3>3
  <2>9. rooms'[g] # None /\ OpenGames' = OpenGames
    BY <2>2, <2>8, OptionAssumption DEF OpenGames
  <2> HIDE DEF slot
  <2>10. TypeOK'
    BY <1>1, <2>2, <2>4, <2>8
  <2>11. ASSUME NEW d \in Connections, NEW h \in GameIds, NEW s \in Sides
         PROVE  SitsAt(d, h, s)' <=> SitsAt(d, h, s) /\ ~(h = g /\ s = side)
    <3>1. d # None
      BY NewSlotType
    <3>2. CASE h # g
      BY <2>8, <3>2 DEF SitsAt
    <3>3. CASE h = g /\ s = side
      BY <2>2, <2>6, <2>8, <3>1, <3>3 DEF SitsAt, Room
    <3>4. CASE h = g /\ s # side
      BY <2>2, <2>8, <2>9, <3>4 DEF SitsAt, Room
    <3> QED
      BY <3>2, <3>3, <3>4
  <2>12. SeatsMatchMemberships'
    <3> SUFFICES ASSUME NEW d \in Connections
                 PROVE  /\ memberships'[d] # None => d \in sockets'
                        /\ \A h \in GameIds, s \in Sides :
                              SitsAt(d, h, s)' <=> memberships'[d] = [game_id |-> h, side |-> s]
      BY DEF SeatsMatchMemberships
    <3>1. /\ memberships[d] # None => d \in sockets
          /\ \A h \in GameIds, s \in Sides :
                SitsAt(d, h, s) <=> memberships[d] = [game_id |-> h, side |-> s]
      BY DEF SeatsMatchMemberships
    <3>2. \A h \in GameIds, s \in Sides : [game_id |-> h, side |-> s] # None
      BY OptionAssumption DEF Membership
    <3>3. CASE d = c
      BY <1>1, <2>2, <2>3, <2>11, <3>2, <3>3, OneSeatEach
    <3>4. CASE d # c
      <4>1. ~SitsAt(d, g, side)
        BY <2>3, <3>4 DEF SitsAt
      <4> QED
        BY <1>1, <2>11, <3>1, <3>4, <4>1
    <3> QED
      BY <3>3, <3>4
  <2>13. AbsenceIsDated'
    <3> SUFFICES ASSUME NEW h \in GameIds, rooms'[h] # None, NEW s \in Sides,
                        rooms'[h].seats[s] # None
                 PROVE  rooms'[h].seats[s].connection = None
                            <=> rooms'[h].seats[s].disconnected_at # None
      BY DEF AbsenceIsDated, OpenGames
    <3>1. CASE h = g /\ s = side
      <4>1. now # None
        BY NoneAssumption
      <4> QED
        BY <2>2, <2>6, <2>8, <3>1, <4>1 DEF Room
    <3>2. CASE h # g
      BY <2>8, <3>2 DEF AbsenceIsDated, OpenGames
    <3>3. CASE h = g /\ s # side
      BY <2>2, <2>8, <3>3 DEF AbsenceIsDated, OpenGames, Room
    <3> QED
      BY <3>1, <3>2, <3>3
  <2>14. HostsAreSeated'
    BY <2>2, <2>6, <2>8, <2>9 DEF HostsAreSeated, OpenGames, Room, Sides
  <2>15. InvitesMatchRooms' /\ RoomsWereIssued'
    BY <1>1, <2>2, <2>8, <2>9 DEF InvitesMatchRooms, RoomsWereIssued, OpenGames
  <2> QED
    BY <2>10, <2>12, <2>13, <2>14, <2>15
<1> QED
  BY <1>2, <1>3

-----------------------------------------------------------------------------
(* The ticker, the persister and the rest                                  *)

\* A record of a game that the tick ends names two players and a result.
LEMMA FinishedRecordType ==
    ASSUME NEW g \in GameIds, NEW room \in Room, NEW t \in Nat,
           room.seats["white"] # None, Finishes(room, t)
    PROVE  FinishedRecord(g, TickedRoom(room, t)) \in FinishedGame
<1> DEFINE ticked == TickedRoom(room, t)
<1>1. ticked \in Room /\ ticked.seats = room.seats
  BY TickedRoomKeepsSeats DEF SameSeats
<1>2. \A s \in Sides : ticked.seats[s] \in Slot
  BY <1>1 DEF Finishes, Joined, Room, Sides
<1>3. Outcome(ticked.game) # None
  <2>1. Enforced(room, t) \in Room /\ Joined(Enforced(room, t))
    <3>1. SameSeats(Enforced(room, t), room)
      BY EnforcedKeepsSeats
    <3> QED
      BY <3>1 DEF SameSeats, Finishes, Joined
  <2>2. ticked.game = Enforced(room, t).game
    BY <2>1 DEF TickedRoom, Room
  <2> QED
    BY <2>1, <2>2 DEF Finishes, IsActive, IsOver
<1>4. Outcome(ticked.game) \in Outcomes
  BY <1>1, <1>3, OutcomeType DEF Room
<1> HIDE DEF ticked
<1>5. [s \in Sides |-> ticked.seats[s].user] \in [Sides -> Users \cup {None}]
  BY <1>2 DEF Slot
<1> QED
  BY <1>4, <1>5 DEF FinishedRecord, FinishedGame, ticked

LEMMA TickAtKeepsInvariant ==
    ASSUME IInv, TickAt
    PROVE  IInv'
<1> USE DEF IInv, TypeOK, MapsAgree
<1> DEFINE gone == Evicted(now)
           kept == OpenGames \ gone
<1>1. /\ rooms' = [g \in GameIds |-> IF g \notin OpenGames \/ g \in gone THEN None
                                     ELSE TickedRoom(rooms[g], now)]
      /\ invites' = InvitesWithout(gone)
      /\ memberships' = MembershipsWithout(gone)
      /\ dirty' \in BOOLEAN
      /\ UNCHANGED <<identities, next_connection_id, sockets, issued, now>>
  BY DEF TickAt
<1>2. gone \subseteq GameIds /\ \A g \in gone : rooms[g] # None
  BY DEF Evicted, OpenGames
<1>3. finished_games' \subseteq FinishedGame
  <2>1. \A g \in OpenGames : Finishes(rooms[g], now) =>
            FinishedRecord(g, TickedRoom(rooms[g], now)) \in FinishedGame
    BY FinishedRecordType DEF OpenGames, HostsAreSeated
  <2> QED
    BY <2>1 DEF TickAt
<1> HIDE DEF gone
<1>4. \A g \in kept : /\ rooms'[g] # None /\ SameSeats(rooms'[g], rooms[g])
                      /\ rooms[g] # None
  BY <1>1, TickedRoomKeepsSeats, OptionAssumption DEF OpenGames, SameSeats
<1>5. \A g \in GameIds : g \notin kept => rooms'[g] = None
  BY <1>1
<1>6. kept \subseteq OpenGames /\ OpenGames' = kept
  BY <1>4, <1>5 DEF OpenGames
<1>7. \A g \in GameIds : g \notin kept => rooms[g] = None \/ g \in gone
  BY DEF OpenGames
<1> HIDE DEF kept
<1>8. TypeOK'
  <2>1. rooms' \in [GameIds -> Room \cup {None}]
    BY <1>1, <1>4, <1>5 DEF SameSeats
  <2>2. invites' \in [Codes -> GameIds \cup {None}]
    BY <1>1 DEF InvitesWithout
  <2>3. memberships' \in [Connections -> Membership \cup {None}]
    BY <1>1 DEF MembershipsWithout
  <2> QED
    BY <1>1, <1>3, <2>1, <2>2, <2>3
<1>9. SeatsMatchMemberships'
  <2> SUFFICES ASSUME NEW c \in Connections
               PROVE  /\ memberships'[c] # None => c \in sockets'
                      /\ \A g \in GameIds, side \in Sides :
                            SitsAt(c, g, side)'
                               <=> memberships'[c] = [game_id |-> g, side |-> side]
    BY DEF SeatsMatchMemberships
  <2>1. /\ memberships[c] # None => c \in sockets
        /\ \A g \in GameIds, side \in Sides :
              SitsAt(c, g, side) <=> memberships[c] = [game_id |-> g, side |-> side]
    BY DEF SeatsMatchMemberships
  <2>2. memberships'[c] = IF memberships[c] # None /\ memberships[c].game_id \in gone
                          THEN None ELSE memberships[c]
    BY <1>1 DEF MembershipsWithout
  <2>3. ASSUME NEW g \in GameIds, NEW side \in Sides
        PROVE  SitsAt(c, g, side)' <=> memberships'[c] = [game_id |-> g, side |-> side]
    <3>1. [game_id |-> g, side |-> side] # None
      BY OptionAssumption DEF Membership
    <3>2. CASE g \in kept
      <4>1. SitsAt(c, g, side)' <=> SitsAt(c, g, side)
        BY <1>4, <3>2 DEF SitsAt, SameSeats
      <4>2. memberships[c] = [game_id |-> g, side |-> side]
                => memberships[c].game_id = g /\ g \notin gone
        BY <3>2 DEF kept
      <4> QED
        BY <2>1, <2>2, <3>1, <4>1, <4>2
    <3>3. CASE g \notin kept
      <4>1. ~SitsAt(c, g, side)'
        BY <1>5, <3>3 DEF SitsAt
      <4>2. ASSUME memberships[c] = [game_id |-> g, side |-> side]
            PROVE  memberships[c].game_id \in gone
        <5>1. rooms[g] # None
          BY <2>1, <4>2 DEF SitsAt
        <5> QED
          BY <1>7, <3>3, <4>2, <5>1
      <4> QED
        BY <2>2, <3>1, <4>1, <4>2
    <3> QED
      BY <3>2, <3>3
  <2> QED
    BY <1>1, <2>1, <2>2, <2>3
<1>10. InvitesMatchRooms'
  <2>1. \A k \in Codes : invites'[k] = IF \E g \in gone : rooms[g].invite_code = k
                                       THEN None ELSE invites[k]
    BY <1>1 DEF InvitesWithout
  <2>2. ASSUME NEW k \in Codes, invites'[k] # None
        PROVE  rooms'[invites'[k]] # None /\ rooms'[invites'[k]].invite_code = k
    <3>1. invites'[k] = invites[k] /\ \A g \in gone : rooms[g].invite_code # k
      BY <2>1, <2>2
    <3>2. rooms[invites[k]] # None /\ rooms[invites[k]].invite_code = k
      BY <2>2, <3>1 DEF InvitesMatchRooms
    <3>3. invites[k] \in kept
      BY <1>7, <2>2, <3>1, <3>2
    <3> QED
      BY <1>4, <3>1, <3>2, <3>3 DEF SameSeats
  <2>3. ASSUME NEW g \in kept
        PROVE  invites'[rooms'[g].invite_code] = g
    <3>1. /\ g \in OpenGames /\ g \in GameIds /\ g \notin gone
          /\ rooms'[g].invite_code = rooms[g].invite_code
      BY <1>4 DEF SameSeats, OpenGames, kept
    <3>2. rooms[g].invite_code \in Codes /\ invites[rooms[g].invite_code] = g
      BY <3>1 DEF InvitesMatchRooms, OpenGames, Room
    <3>3. \A h \in gone : rooms[h].invite_code # rooms[g].invite_code
      BY <1>2, <3>1, <3>2 DEF InvitesMatchRooms, OpenGames
    <3> QED
      BY <2>1, <3>1, <3>2, <3>3
  <2> QED
    BY <1>6, <2>2, <2>3 DEF InvitesMatchRooms
<1>11. AbsenceIsDated'
  BY <1>4, <1>6 DEF AbsenceIsDated, SameSeats
<1>12. HostsAreSeated'
  BY <1>4, <1>6 DEF HostsAreSeated, SameSeats
<1>13. RoomsWereIssued'
  BY <1>1, <1>6 DEF RoomsWereIssued
<1> QED
  BY <1>8, <1>9, <1>10, <1>11, <1>12, <1>13

LEMMA EncodeKeepsInvariant ==
    ASSUME IInv, EncodeIfDirty
    PROVE  IInv'
<1>1. GamesKeepTypes
  BY DEF EncodeIfDirty, GamesKeepTypes, IInv, TypeOK
<1>2. \A g \in GameIds : rooms[g] # None => SameSeats(rooms'[g], rooms[g])
  BY SettledKeepsSeats DEF EncodeIfDirty, IInv, TypeOK
<1>3. \A g \in GameIds : rooms[g] = None => rooms'[g] = None
  BY DEF EncodeIfDirty
<1>4. rooms' = [g \in GameIds |-> rooms'[g]]
  BY DEF EncodeIfDirty
<1> QED
  BY <1>1, <1>2, <1>3, <1>4, GamesKeepInvariant DEF EncodeIfDirty, OnlyGamesChange

LEMMA RestKeepsInvariant ==
    ASSUME IInv,
           \/ Connect \/ TakeFinishedGames \/ AdvanceTime
           \/ \E c \in Connections, user \in Users : SignIn(c, user)
           \/ \E c \in Connections : SignOut(c)
           \/ UNCHANGED vars
    PROVE  IInv'
<1> USE DEF GamesKeepTypes, IInv, TypeOK
<1>1. CASE Connect
  <2>1. next_connection_id \in Connections
    BY <1>1, HubAssumption DEF Connect, Connections
  <2> QED
    BY <1>1, <2>1, UnchangedRoomsKeepInvariant DEF Connect
<1>2. CASE TakeFinishedGames
  BY <1>2, UnchangedRoomsKeepInvariant DEF TakeFinishedGames
<1>3. CASE AdvanceTime
  BY <1>3, UnchangedRoomsKeepInvariant DEF AdvanceTime
<1>4. ASSUME NEW c \in Connections, NEW user \in Users, SignIn(c, user)  PROVE IInv'
  BY <1>4, UnchangedRoomsKeepInvariant DEF SignIn
<1>5. ASSUME NEW c \in Connections, SignOut(c)  PROVE IInv'
  BY <1>5, UnchangedRoomsKeepInvariant DEF SignOut
<1>6. CASE UNCHANGED vars
  BY <1>6, UnchangedRoomsKeepInvariant DEF vars
<1> QED
  BY <1>1, <1>2, <1>3, <1>4, <1>5, <1>6

LEMMA RequestKeepsInvariant ==
    ASSUME IInv, NEW c \in Connections, GameRequest(c)
    PROVE  IInv'
<1>1. ASSUME NEW name_ok \in BOOLEAN, NEW tc \in TimeControls, CreateGame(c, name_ok, tc)
      PROVE  IInv'
  BY <1>1, CreateGameKeepsInvariant
<1>2. ASSUME NEW name_ok \in BOOLEAN, NEW k \in Codes, JoinGame(c, name_ok, k)
      PROVE  IInv'
  BY <1>2, JoinGameKeepsInvariant
<1>3. ASSUME NEW g \in GameIds, NEW token \in Tokens, Reconnect(c, g, token)
      PROVE  IInv'
  BY <1>3, ReconnectKeepsInvariant
<1>4. ASSUME NEW g \in GameIds, NEW ply \in 0..MaxPly, NEW move \in MoveKinds \cup {"illegal"},
             NEW later \in now..MaxTime, PlayMove(c, g, ply, move, later)
      PROVE  IInv'
  <2>1. ply \in Nat /\ later \in Nat
    BY HubAssumption DEF IInv, TypeOK
  <2> QED
    BY <1>4, <2>1, PlayMoveKeepsInvariant
<1>5. ASSUME NEW g \in GameIds, OfferDraw(c, g)  PROVE IInv'
  BY <1>5, OfferDrawKeepsInvariant
<1>6. ASSUME NEW g \in GameIds, NEW accept \in BOOLEAN, RespondDraw(c, g, accept)
      PROVE  IInv'
  BY <1>6, RespondDrawKeepsInvariant
<1>7. ASSUME NEW g \in GameIds, Resign(c, g)  PROVE IInv'
  BY <1>7, ResignKeepsInvariant
<1> QED
  BY <1>1, <1>2, <1>3, <1>4, <1>5, <1>6, <1>7 DEF GameRequest

-----------------------------------------------------------------------------
LEMMA InitEstablishesInvariant == Init => IInv
<1> SUFFICES ASSUME Init  PROVE IInv
  OBVIOUS
<1>1. TypeOK
  <2>1. /\ rooms \in [GameIds -> Room \cup {None}]
        /\ invites \in [Codes -> GameIds \cup {None}]
        /\ memberships \in [Connections -> Membership \cup {None}]
        /\ identities \in [Connections -> Users \cup {None}]
    BY DEF Init
  <2>2. /\ finished_games \subseteq FinishedGame
        /\ sockets \subseteq Connections /\ issued \subseteq GameIds
    BY DEF Init
  <2>3. next_connection_id \in Nat \ {0} /\ now \in Nat
    BY DEF Init
  <2>4. dirty \in BOOLEAN
    BY DEF Init
  <2> QED
    BY <2>1, <2>2, <2>3, <2>4 DEF TypeOK
<1>2. OpenGames = {}
  BY DEF Init, OpenGames
<1>3. SeatsMatchMemberships
  BY OptionAssumption DEF Init, SeatsMatchMemberships, SitsAt, Membership
<1>4. InvitesMatchRooms /\ AbsenceIsDated /\ HostsAreSeated /\ RoomsWereIssued
  BY <1>2 DEF Init, InvitesMatchRooms, AbsenceIsDated, HostsAreSeated, RoomsWereIssued
<1> QED
  BY <1>1, <1>3, <1>4 DEF IInv, MapsAgree

LEMMA NextKeepsInvariant ==
    ASSUME IInv, [Next]_vars
    PROVE  IInv'
<1>1. ASSUME NEW c \in Connections, Disconnect(c)  PROVE IInv'
  BY <1>1, DisconnectKeepsInvariant
<1>2. ASSUME NEW c \in Connections, GameRequest(c)  PROVE IInv'
  BY <1>2, RequestKeepsInvariant
<1>3. CASE TickAt
  BY <1>3, TickAtKeepsInvariant
<1>4. CASE EncodeIfDirty
  BY <1>4, EncodeKeepsInvariant
<1> QED
  BY <1>1, <1>2, <1>3, <1>4, RestKeepsInvariant DEF Next

LEMMA InvariantHolds == Spec => []IInv
BY InitEstablishesInvariant, NextKeepsInvariant, PTL DEF Spec

\* Type correctness of the hub: clocks never go below zero, however late they are
\* read, and what is handed to the history names two players and a result.
THEOREM TypeCorrect == Spec => []TypeOK
BY InvariantHolds, PTL DEF IInv

\* Seats and memberships agree through creating, joining, taking over, leaving and
\* evicting, for any number of games and connections.
THEOREM SeatsAgree == Spec => []SeatsMatchMemberships
BY InvariantHolds, PTL DEF IInv, MapsAgree

\* Invite codes and rooms point at each other, so the lookups of the hub that
\* `expect` a room never fail.
THEOREM InvitesAgree == Spec => []InvitesMatchRooms
BY InvariantHolds, PTL DEF IInv, MapsAgree

\* A seat is dated absent exactly while nobody holds it.
THEOREM AbsenceAgrees == Spec => []AbsenceIsDated
BY InvariantHolds, PTL DEF IInv, MapsAgree

-----------------------------------------------------------------------------
(* The games                                                               *)

\* The game of a room whose second player joined at joined_at.
Started(game, joined_at) ==
    /\ game.clock.running # None =>
          /\ ~IsOver(game)
          /\ game.clock.running.side = SideToMove(game)
          /\ game.clock.initial # None
          /\ game.clock.remaining["white"] + game.clock.remaining["black"]
                = 2 * game.clock.initial + game.clock.increment * Len(game.moves)
                  - (game.clock.running.since - joined_at)
    /\ game.clock.initial # None /\ ~IsOver(game) => game.clock.running # None

\* The game of a room that waits for its second player.
Waiting(game) ==
    /\ game.start = "white" /\ game.moves = <<>>
    /\ game.resigned = None /\ ~game.agreed_draw /\ game.abandoned = None
    /\ game.clock.running = None
    /\ game.clock.initial # None =>
          \A side \in Sides : game.clock.remaining[side] = game.clock.initial

Timely(game, joined, joined_at) ==
    IF joined THEN Started(game, joined_at) ELSE Waiting(game)

OnTime(room) == Timely(room.game, Joined(room), room.started_at)

\* What the invariant of the seats says nothing of: the games.
GamesOnTime == \A g \in OpenGames : OnTime(rooms[g])

PlayInv == IInv /\ GamesOnTime

\* Nothing but the clock could have ended the game.
Undecided(game) ==
    /\ game.resigned = None /\ ~game.agreed_draw /\ game.abandoned = None
    /\ BoardOutcome(game) = None

\* What is left of it when the time is not what it was: in a game that a restart
\* took back, no clock runs after the end or before the second player is there.
Orderly(game, joined) ==
    IF joined THEN game.clock.running # None => ~IsOver(game)
    ELSE Undecided(game) /\ game.clock.running = None

GamesOrderly == \A g \in OpenGames : Orderly(rooms[g].game, Joined(rooms[g]))

\* An orderly game stays orderly, and a result once reached stays as it is.
OrderStep(game, old, joined) ==
    Orderly(old, joined) =>
        /\ Orderly(game, joined)
        /\ joined /\ IsOver(old) =>
              Outcome(game) = Outcome(old) /\ game.moves = old.moves

\* game is old, or what one of the operations made of it.
GameStep(game, old, joined, joined_at) ==
    /\ game \in GameState
    /\ old.revision <= game.revision
    /\ Timely(old, joined, joined_at) => Timely(game, joined, joined_at)
    /\ OrderStep(game, old, joined)

LEMMA TimelyIsOrderly ==
    ASSUME NEW game, NEW joined, NEW joined_at, Timely(game, joined, joined_at)
    PROVE  Orderly(game, joined)
BY DEF Timely, Started, Waiting, Orderly, Undecided, BoardOutcome

\* Any second player will do.
LEMMA JoinedStep ==
    ASSUME NEW game, NEW old, NEW joined, joined, NEW joined_at,
           GameStep(game, old, TRUE, joined_at)
    PROVE  GameStep(game, old, joined, joined_at)
BY DEF GameStep, Timely, OrderStep, Orderly

LEMMA GameStepsCompose ==
    ASSUME NEW old \in GameState, NEW mid, NEW game, NEW joined, NEW joined_at,
           GameStep(mid, old, joined, joined_at),
           GameStep(game, mid, joined, joined_at)
    PROVE  GameStep(game, old, joined, joined_at)
<1>1. old.revision \in Nat /\ mid.revision \in Nat /\ game.revision \in Nat
  BY DEF GameStep, GameState
<1>2. old.revision <= game.revision
  BY <1>1 DEF GameStep
<1> QED
  BY <1>2 DEF GameStep, OrderStep, IsOver

-----------------------------------------------------------------------------
(* Outcomes                                                                *)

\* A game that is over and whose clock stands needs nothing more.
LEMMA OverAndStopped ==
    ASSUME NEW game, NEW joined_at, IsOver(game), game.clock.running = None
    PROVE  Started(game, joined_at)
BY DEF Started

-----------------------------------------------------------------------------
(* The clock                                                               *)

\* Operations that change neither the moves nor what decides the game, and leave
\* the time alone: an offer, a declined offer, a displayed clock.
LEMMA SameTimeStep ==
    ASSUME NEW old \in GameState, NEW game \in GameState,
           SameVerdict(game, old), SameTime(game.clock, old.clock),
           old.revision <= game.revision, NEW joined, NEW joined_at
    PROVE  GameStep(game, old, joined, joined_at)
<1>1. /\ Outcome(game) = Outcome(old)
      /\ IsOver(game) <=> IsOver(old)
      /\ SideToMove(game) = SideToMove(old)
  BY SameVerdictSameOutcome
<1>2. Started(old, joined_at) => Started(game, joined_at)
  BY <1>1 DEF Started, SameTime, SameVerdict
<1>3. Waiting(old) => Waiting(game)
  BY DEF Waiting, SameTime, SameVerdict
<1>4. Orderly(old, joined) => Orderly(game, joined)
  <2>1. Undecided(old) => Undecided(game)
    BY DEF Undecided, SameVerdict, BoardOutcome, LastMove, SideToMove
  <2> QED
    BY <1>1, <2>1 DEF Orderly, SameTime
<1>5. OrderStep(game, old, joined)
  BY <1>1, <1>4 DEF OrderStep, SameVerdict
<1> QED
  BY <1>2, <1>3, <1>5 DEF GameStep, Timely

\* A clock that is charged: either the running side has time left, and exactly
\* the time since the last charge is taken from it, or its flag falls.
Charged(clock, old, t) ==
    LET side == old.running.side
    IN  /\ clock.initial = old.initial /\ clock.increment = old.increment
        /\ \/ /\ clock.running = [side |-> side, since |-> t]
              /\ clock.flagged = old.flagged
              /\ clock.remaining["white"] + clock.remaining["black"]
                    = old.remaining["white"] + old.remaining["black"]
                      - (t - old.running.since)
           \/ clock.running = None /\ clock.flagged = side

LEMMA SyncCharges ==
    ASSUME NEW c \in Clock, NEW t \in Nat, c.running # None
    PROVE  Charged(Sync(c, t), c, t)
<1> DEFINE side == c.running.side
           left == SaturatingSub(c.remaining[side], t - c.running.since)
           synced == [c EXCEPT !.remaining[side] = left,
                               !.flagged = IF left = 0 THEN side ELSE @,
                               !.running = IF left = 0 THEN None
                                           ELSE [side |-> side, since |-> t]]
<1>1. Sync(c, t) = synced
  BY Zenon DEF Sync
<1>2. side \in Sides /\ c.running.since \in Nat /\ c.remaining[side] \in Nat
  BY DEF Clock, Running
<1>3. left \in Nat
  <2>1. t - c.running.since \in Int
    BY <1>2
  <2> QED
    BY <1>2, <2>1, SubtractionSaturates
<1>4. left # 0 => left = c.remaining[side] - (t - c.running.since)
  BY <1>2 DEF SaturatingSub
<1> HIDE DEF left
<1>5. /\ synced.initial = c.initial /\ synced.increment = c.increment
      /\ synced.flagged = IF left = 0 THEN side ELSE c.flagged
      /\ synced.running = IF left = 0 THEN None ELSE [side |-> side, since |-> t]
  BY DEF Clock
<1>6. \A s \in Sides : synced.remaining[s] = IF s = side THEN left ELSE c.remaining[s]
  BY <1>2 DEF Clock
<1>7. synced.remaining["white"] + synced.remaining["black"]
        = c.remaining["white"] + c.remaining["black"] - c.remaining[side] + left
  BY <1>2, <1>3, <1>6 DEF Sides, Clock
<1> HIDE DEF synced
<1>8. CASE left = 0
  BY <1>1, <1>5, <1>8 DEF Charged
<1>9. CASE left # 0
  <2>1. c.remaining["white"] \in Nat /\ c.remaining["black"] \in Nat
    BY DEF Clock, Sides
  <2>2. synced.remaining["white"] + synced.remaining["black"]
          = c.remaining["white"] + c.remaining["black"] - (t - c.running.since)
    BY <1>2, <1>4, <1>7, <1>9, <2>1
  <2> QED
    BY <1>1, <1>5, <1>9, <2>2 DEF Charged
<1> QED
  BY <1>8, <1>9

LEMMA SyncStep ==
    ASSUME NEW old \in GameState, NEW t \in Nat, NEW joined, NEW joined_at \in Nat
    PROVE  GameStep([old EXCEPT !.clock = Sync(@, t)], old, joined, joined_at)
<1> DEFINE clock == Sync(old.clock, t)
           game == [old EXCEPT !.clock = clock]
<1>1. clock \in Clock /\ game \in GameState
  BY SyncType, WithClockType DEF GameState
<1>2. CASE old.clock.running = None
  <2>1. game.clock = old.clock
    BY <1>2 DEF Sync, GameState
  <2>2. /\ SameVerdict(game, old) /\ SameTime(game.clock, old.clock)
        /\ old.revision <= game.revision
    BY <2>1 DEF SameVerdict, SameTime, GameState
  <2> HIDE DEF game
  <2> QED
    BY <1>1, <2>2, SameTimeStep DEF game
<1>3. CASE old.clock.running # None
  <2>1. Charged(game.clock, old.clock, t)
    BY <1>3, SyncCharges DEF GameState
  <2>2. /\ game.moves = old.moves /\ game.start = old.start
        /\ game.resigned = old.resigned /\ game.agreed_draw = old.agreed_draw
        /\ game.abandoned = old.abandoned
    BY DEF GameState
  <2> HIDE DEF game, clock
  <2>3. ~Waiting(old)
    BY <1>3 DEF Waiting
  <2>4. ASSUME Started(old, joined_at)
        PROVE  ~IsOver(old) /\ Started(game, joined_at)
    <3>1. ~IsOver(old) /\ old.clock.running.side = SideToMove(old)
      BY <1>3, <2>4 DEF Started
    <3>2. old.clock.running \in Running /\ old.clock.running.side # None
      BY <1>3, NoneAssumption DEF GameState, Clock, Running
    <3>3. CASE game.clock.running = None /\ game.clock.flagged = old.clock.running.side
      <4>1. IsOver(game)
        BY <1>1, <3>2, <3>3, DecidedIsOver
      <4> QED
        BY <3>1, <3>3, <4>1, OverAndStopped
    <3>4. CASE ~(game.clock.running = None /\ game.clock.flagged = old.clock.running.side)
      <4>1. /\ game.clock.running = [side |-> old.clock.running.side, since |-> t]
            /\ game.clock.flagged = old.clock.flagged
            /\ game.clock.initial = old.clock.initial
            /\ game.clock.increment = old.clock.increment
            /\ game.clock.remaining["white"] + game.clock.remaining["black"]
                  = old.clock.remaining["white"] + old.clock.remaining["black"]
                    - (t - old.clock.running.since)
        BY <2>1, <3>4 DEF Charged
      <4>2. (IsOver(game) <=> IsOver(old)) /\ SideToMove(game) = SideToMove(old)
        BY <2>2, <4>1, SameVerdictSameOutcome DEF SameVerdict
      <4>3. game.clock.running # None
        BY <1>1, <3>2, <4>1, RunningAssumption DEF Running
      <4>4. /\ old.clock.initial # None
            /\ old.clock.remaining["white"] + old.clock.remaining["black"]
                  = 2 * old.clock.initial + old.clock.increment * Len(old.moves)
                    - (old.clock.running.since - joined_at)
        BY <1>3, <2>4 DEF Started
      <4>5. game.clock.remaining["white"] + game.clock.remaining["black"]
               = 2 * game.clock.initial + game.clock.increment * Len(game.moves)
                 - (game.clock.running.since - joined_at)
        <5> DEFINE white == old.clock.remaining["white"]
                   black == old.clock.remaining["black"]
                   initial == old.clock.initial
                   earned == old.clock.increment * Len(old.moves)
                   since == old.clock.running.since
        <5>1. white \in Int /\ black \in Int /\ initial \in Int /\ since \in Int
          BY <3>2, <4>4 DEF GameState, Clock, Running, Sides
        <5>2. old.clock.increment \in Nat /\ Len(old.moves) \in Nat
          BY DEF GameState, Clock
        <5>3. earned \in Int
          BY <5>2
        <5>4. white + black = 2 * initial + earned - (since - joined_at)
          BY <4>4
        <5>5. game.clock.remaining["white"] + game.clock.remaining["black"]
                 = white + black - (t - since)
          BY <4>1
        <5>6. /\ game.clock.initial = initial /\ game.clock.running.since = t
              /\ game.clock.increment * Len(game.moves) = earned
          BY <2>2, <4>1
        <5> HIDE DEF white, black, initial, earned, since
        <5>7. white + black - (t - since) = 2 * initial + earned - (t - joined_at)
          BY <5>1, <5>3, <5>4
        <5> QED
          BY <5>5, <5>6, <5>7, Zenon
      <4> QED
        BY <3>1, <4>1, <4>2, <4>3, <4>4, <4>5 DEF Started
    <3> QED
      BY <3>3, <3>4
  <2>5. OrderStep(game, old, joined)
    <3>1. Orderly(old, joined) => joined /\ ~IsOver(old)
      BY <1>3 DEF Orderly
    <3>2. game.clock.running = None \/ game.clock.flagged = old.clock.flagged
      BY <2>1 DEF Charged
    <3>3. game.clock.flagged = old.clock.flagged => (IsOver(game) <=> IsOver(old))
      BY <2>2, SameVerdictSameOutcome DEF SameVerdict
    <3> QED
      BY <3>1, <3>2, <3>3 DEF OrderStep, Orderly
  <2>6. old.revision <= game.revision
    BY DEF game, GameState
  <2> QED
    BY <1>1, <2>3, <2>4, <2>5, <2>6 DEF GameStep, Timely, game, clock
<1> QED
  BY <1>2, <1>3

LEMMA TickStep ==
    ASSUME NEW old \in GameState, NEW t \in Nat, NEW joined, NEW joined_at \in Nat
    PROVE  GameStep([old EXCEPT !.clock = Tick(@, t)], old, joined, joined_at)
<1> DEFINE synced == [old EXCEPT !.clock = Sync(@, t)]
           game == [old EXCEPT !.clock = Tick(@, t)]
<1>1. GameStep(synced, old, joined, joined_at)
  BY SyncStep
<1>2. synced.clock = Sync(old.clock, t) /\ synced.clock \in Clock
  BY SyncType DEF GameState
<1>3. game \in GameState /\ synced \in GameState
  BY TickType, SyncType, WithClockType DEF GameState
<1>4. game.clock = RememberShown(synced.clock)
  BY <1>2 DEF Tick, GameState
<1>5. SameTime(game.clock, synced.clock)
  BY <1>2, <1>4, RememberShownSameTime
<1>6. SameVerdict(game, synced) /\ synced.revision <= game.revision
  BY <1>5 DEF SameVerdict, SameTime, GameState
<1> HIDE DEF game, synced
<1>7. GameStep(game, synced, joined, joined_at)
  BY <1>3, <1>5, <1>6, SameTimeStep
<1> QED
  BY <1>1, <1>7, GameStepsCompose DEF game

\* Pausing decides nothing that was decided already, and the clock stands.
LEMMA PauseStops ==
    ASSUME NEW game \in GameState, NEW t \in Nat, IsOver(game), NEW joined_at
    PROVE  LET paused == [game EXCEPT !.clock = Pause(@, t)]
           IN  /\ paused \in GameState /\ IsOver(paused) /\ Started(paused, joined_at)
               /\ paused.clock.running = None
<1> DEFINE paused == [game EXCEPT !.clock = Pause(@, t)]
<1> SUFFICES /\ paused \in GameState /\ IsOver(paused) /\ Started(paused, joined_at)
             /\ paused.clock.running = None
  OBVIOUS
<1>1. Sync(game.clock, t) \in Clock /\ Pause(game.clock, t) \in Clock
  BY SyncType, PauseType DEF GameState
<1>2. paused \in GameState /\ paused.clock = Pause(game.clock, t)
  BY <1>1, WithClockType DEF GameState
<1>3. /\ paused.clock.running = None
      /\ paused.clock.flagged = Sync(game.clock, t).flagged
  BY <1>1, <1>2 DEF Pause, RememberShown, Clock
<1>4. CASE paused.clock.flagged = game.clock.flagged
  <2>1. SameVerdict(paused, game)
    BY <1>4 DEF SameVerdict, GameState
  <2> HIDE DEF paused
  <2> QED
    BY <1>2, <1>3, <2>1, SameVerdictSameOutcome, OverAndStopped
<1>5. CASE paused.clock.flagged # game.clock.flagged
  <2>1. game.clock.running # None
    BY <1>3, <1>5 DEF Sync
  <2>2. Charged(Sync(game.clock, t), game.clock, t)
    BY <2>1, SyncCharges DEF GameState
  <2>3. paused.clock.flagged # None
    BY <1>3, <1>5, <2>1, <2>2, NoneAssumption DEF Charged, GameState, Clock, Running
  <2> HIDE DEF paused
  <2> QED
    BY <1>2, <1>3, <2>3, DecidedIsOver, OverAndStopped
<1> QED
  BY <1>4, <1>5, <1>2, <1>3

\* Resigning, abandoning and agreeing: an active game is decided and stopped.
LEMMA DecidedStep ==
    ASSUME NEW old \in GameState, ~IsOver(old), NEW game \in GameState,
           NEW t \in Nat, NEW joined_at,
           game.resigned # None \/ game.agreed_draw \/ game.abandoned # None,
           old.revision <= game.revision
    PROVE  GameStep(Changed([game EXCEPT !.clock = Pause(@, t)]), old, TRUE, joined_at)
<1> DEFINE paused == [game EXCEPT !.clock = Pause(@, t)]
<1>1. /\ paused \in GameState /\ IsOver(paused) /\ Started(paused, joined_at)
      /\ paused.clock.running = None
  BY DecidedIsOver, PauseStops
<1>0. paused.revision = game.revision
  BY DEF GameState
<1> HIDE DEF paused
<1>2. Changed(paused) \in GameState
  BY <1>1, ChangedType
<1>3. /\ SameVerdict(Changed(paused), paused) /\ SameTime(Changed(paused).clock, paused.clock)
      /\ paused.revision <= Changed(paused).revision
      /\ old.revision <= Changed(paused).revision
  BY <1>0, <1>1 DEF SameVerdict, SameTime, Changed, GameState
<1>4. GameStep(Changed(paused), paused, TRUE, joined_at)
  BY <1>1, <1>2, <1>3, SameTimeStep
<1>5. Started(Changed(paused), joined_at)
  BY <1>1, <1>4 DEF GameStep, Timely
<1>6. OrderStep(Changed(paused), old, TRUE)
  BY <1>1, <1>3 DEF OrderStep, Orderly, SameTime
<1> QED
  BY <1>2, <1>3, <1>5, <1>6 DEF GameStep, Timely, paused

LEMMA ResignedStep ==
    ASSUME NEW old \in GameState, ~IsOver(old), NEW side \in Sides, NEW t \in Nat,
           NEW joined_at
    PROVE  GameStep(Resigned(old, side, t), old, TRUE, joined_at)
<1> DEFINE game == [old EXCEPT !.resigned = side]
<1>1. game \in GameState /\ game.resigned # None /\ old.revision <= game.revision
  BY NoneAssumption DEF GameState
<1>2. Resigned(old, side, t) = Changed([game EXCEPT !.clock = Pause(@, t)])
  BY DEF Resigned, GameState
<1> HIDE DEF game
<1> QED
  BY <1>1, <1>2, DecidedStep

LEMMA AbandonedStep ==
    ASSUME NEW old \in GameState, ~IsOver(old), NEW mid \in GameState,
           old.revision <= mid.revision, NEW side \in Sides, NEW t \in Nat, NEW joined_at
    PROVE  GameStep(Abandoned(mid, side, t), old, TRUE, joined_at)
<1> DEFINE game == [mid EXCEPT !.abandoned = side]
<1>1. game \in GameState /\ game.abandoned # None /\ old.revision <= game.revision
  BY NoneAssumption DEF GameState
<1>2. Abandoned(mid, side, t) = Changed([game EXCEPT !.clock = Pause(@, t)])
  BY DEF Abandoned, GameState
<1> HIDE DEF game
<1> QED
  BY <1>1, <1>2, DecidedStep

LEMMA OfferStep ==
    ASSUME NEW old \in GameState, NEW offer \in Sides \cup {None}, NEW joined, NEW joined_at
    PROVE  GameStep(Changed([old EXCEPT !.draw_offer = offer]), old, joined, joined_at)
<1> DEFINE game == Changed([old EXCEPT !.draw_offer = offer])
<1>1. game \in GameState
  <2>1. [old EXCEPT !.draw_offer = offer] \in GameState
    BY DEF GameState
  <2> QED
    BY <2>1, ChangedType
<1>2. /\ SameVerdict(game, old) /\ SameTime(game.clock, old.clock)
      /\ old.revision <= game.revision
  BY DEF SameVerdict, SameTime, Changed, GameState
<1> HIDE DEF game
<1> QED
  BY <1>1, <1>2, SameTimeStep DEF game

LEMMA AnsweredStep ==
    ASSUME NEW old \in GameState, ~IsOver(old), NEW accept \in BOOLEAN, NEW t \in Nat,
           NEW joined_at
    PROVE  GameStep(Answered(old, accept, t), old, TRUE, joined_at)
<1>1. CASE ~accept
  <2>1. Answered(old, accept, t) = Changed([old EXCEPT !.draw_offer = None])
    BY <1>1 DEF Answered
  <2> QED
    BY <2>1, OfferStep
<1>2. CASE accept
  <2> DEFINE game == [[old EXCEPT !.draw_offer = None] EXCEPT !.agreed_draw = TRUE]
  <2>1. game \in GameState /\ game.agreed_draw
    BY DEF GameState
  <2>0. old.revision <= game.revision
    BY DEF GameState
  <2>2. Answered(old, accept, t) = Changed([game EXCEPT !.clock = Pause(@, t)])
    BY <1>2 DEF Answered, GameState
  <2> HIDE DEF game
  <2> QED
    BY <2>0, <2>1, <2>2, DecidedStep
<1> QED
  BY <1>1, <1>2

-----------------------------------------------------------------------------
(* Moves and the start of a game                                           *)

\* A move of a timed game that leaves it open: the mover is charged, gets the
\* increment, and the opponent's time starts.
LEMMA CompleteMoveHandsOver ==
    ASSUME NEW c \in Clock, NEW mover \in Sides, NEW t \in Nat,
           c.running # None, c.running.side = mover, c.initial # None,
           CompleteMove(c, mover, Flip(mover), t).flagged = None
    PROVE  LET next == CompleteMove(c, mover, Flip(mover), t)
           IN  /\ next.initial = c.initial /\ next.increment = c.increment
               /\ next.running = [side |-> Flip(mover), since |-> t]
               /\ next.remaining["white"] + next.remaining["black"]
                     = c.remaining["white"] + c.remaining["black"] + c.increment
                       - (t - c.running.since)
<1> DEFINE synced == Sync(c, t)
           handed == [synced EXCEPT !.remaining[mover] = @ + synced.increment,
                                    !.running = [side |-> Flip(mover), since |-> t]]
           next == CompleteMove(c, mover, Flip(mover), t)
<1>1. synced \in Clock /\ Charged(synced, c, t)
  BY SyncType, SyncCharges
<1>2. synced.flagged = None
  <2>1. CASE synced.flagged # None
    <3>1. next = synced
      BY <2>1 DEF CompleteMove
    <3> QED
      BY <2>1, <3>1
  <2> QED
    BY <2>1
<1>3. /\ synced.initial = c.initial /\ synced.increment = c.increment
      /\ synced.remaining["white"] + synced.remaining["black"]
            = c.remaining["white"] + c.remaining["black"] - (t - c.running.since)
  BY <1>1, <1>2, NoneAssumption DEF Charged
<1>4. next = RememberShown(handed)
  BY <1>2, <1>3 DEF CompleteMove
<1> HIDE DEF synced
<1>5. /\ handed \in Clock
      /\ handed.initial = c.initial /\ handed.increment = c.increment
      /\ handed.running = [side |-> Flip(mover), since |-> t]
      /\ \A s \in Sides : handed.remaining[s] =
            IF s = mover THEN synced.remaining[s] + c.increment ELSE synced.remaining[s]
  <2>1. synced.remaining[mover] + synced.increment \in Nat
    BY <1>1 DEF Clock
  <2>2. Flip(mover) \in Sides
    BY FlipIsOther
  <2> QED
    BY <1>1, <1>3, <2>1, <2>2 DEF Clock, Running
<1>6. SameTime(next, handed)
  <2> HIDE DEF handed, next
  <2> QED
    BY <1>4, <1>5, RememberShownSameTime
<1>7. next.remaining["white"] + next.remaining["black"]
        = synced.remaining["white"] + synced.remaining["black"] + c.increment
  <2>1. synced.remaining["white"] \in Nat /\ synced.remaining["black"] \in Nat
        /\ c.increment \in Nat
    BY <1>1 DEF Clock, Sides
  <2> HIDE DEF handed, next
  <2> QED
    BY <1>5, <1>6, <2>1 DEF SameTime, Sides
<1>8. next.remaining["white"] + next.remaining["black"]
        = c.remaining["white"] + c.remaining["black"] + c.increment
          - (t - c.running.since)
  <2> DEFINE total == synced.remaining["white"] + synced.remaining["black"]
             white == c.remaining["white"]
             black == c.remaining["black"]
             increment == c.increment
             since == c.running.since
  <2>1. /\ white \in Int /\ black \in Int /\ since \in Int /\ increment \in Int
    BY DEF Clock, Running, Sides
  <2>2. total = white + black - (t - since)
    BY <1>3
  <2>3. next.remaining["white"] + next.remaining["black"] = total + increment
    BY <1>7
  <2> HIDE DEF total, white, black, increment, since
  <2>4. total + increment = white + black + increment - (t - since)
    BY <2>1, <2>2
  <2> QED
    BY <2>3, <2>4 DEF white, black, increment, since
<1> HIDE DEF next, handed
<1>9. /\ next.initial = c.initial /\ next.increment = c.increment
      /\ next.running = [side |-> Flip(mover), since |-> t]
  BY <1>5, <1>6 DEF SameTime
<1> QED
  BY <1>8, <1>9 DEF next

LEMMA PlayedStep ==
    ASSUME NEW old \in GameState, ~IsOver(old), NEW move \in MoveKinds, NEW t \in Nat,
           NEW joined_at \in Nat
    PROVE  GameStep(Played(old, move, t), old, TRUE, joined_at)
<1> DEFINE mover == SideToMove(old)
           next == Play(old, move, t)
<1>1. next \in GameState
  BY PlayType
<1>2. Played(old, move, t) \in GameState
  BY PlayedType
<1>0. OrderStep(Played(old, move, t), old, TRUE)
  <2>1. CASE IsOver(next)
    <3>1. Played(old, move, t) = [next EXCEPT !.clock = Pause(@, t)]
      BY <2>1 DEF Played
    <3> HIDE DEF next
    <3>2. [next EXCEPT !.clock = Pause(@, t)].clock.running = None
      BY <1>1, <2>1, PauseStops
    <3> QED
      BY <3>1, <3>2 DEF OrderStep, Orderly
  <2>2. CASE ~IsOver(next)
    BY <2>2 DEF Played, OrderStep, Orderly
  <2> QED
    BY <2>1, <2>2
<1>3. SUFFICES ASSUME Started(old, joined_at)
               PROVE  Started(Played(old, move, t), joined_at)
  <2>1. next.revision = old.revision + 1
    BY DEF Play, Changed, GameState
  <2>2. Played(old, move, t).revision = next.revision
    <3> HIDE DEF next
    <3> QED
      BY <1>1 DEF Played, next, GameState
  <2>3. old.revision <= Played(old, move, t).revision
    BY <2>1, <2>2 DEF GameState
  <2> QED
    BY <1>0, <1>2, <2>3 DEF GameStep, Timely
<1>4. CASE IsOver(next)
  <2>1. Played(old, move, t) = [next EXCEPT !.clock = Pause(@, t)]
    BY <1>4 DEF Played
  <2> HIDE DEF next
  <2>2. Started([next EXCEPT !.clock = Pause(@, t)], joined_at)
    BY <1>1, <1>4, PauseStops
  <2> QED
    BY <2>1, <2>2
<1>5. CASE ~IsOver(next)
  <2>1. Played(old, move, t) = next
    BY <1>5 DEF Played
  <2>2. /\ next.clock = CompleteMove(old.clock, mover, Flip(mover), t)
        /\ next.moves = Append(old.moves, move) /\ next.start = old.start
    BY DEF Play, Changed, GameState
  <2> HIDE DEF next
  <2>3. next.clock.flagged = None
    BY <1>1, <1>5, DecidedIsOver
  <2>4. SideToMove(next) = Flip(mover) /\ Len(next.moves) = Len(old.moves) + 1
    BY <2>2, MoverFlips
  <2>5. CASE old.clock.initial = None
    <3>1. old.clock.running = None
      BY <1>3, <2>5 DEF Started
    <3>2. next.clock = old.clock
      BY <2>2, <2>5, <3>1 DEF CompleteMove, Sync
    <3> QED
      BY <2>1, <2>5, <3>1, <3>2 DEF Started
  <2>6. CASE old.clock.initial # None
    <3>1. /\ old.clock.running # None /\ old.clock.running.side = mover
          /\ old.clock.remaining["white"] + old.clock.remaining["black"]
                = 2 * old.clock.initial + old.clock.increment * Len(old.moves)
                  - (old.clock.running.since - joined_at)
      BY <1>3, <2>6 DEF Started
    <3>2. old.clock \in Clock /\ mover \in Sides
      BY SideToMoveType DEF GameState
    <3> HIDE DEF mover
    <3>3. /\ next.clock.initial = old.clock.initial
          /\ next.clock.increment = old.clock.increment
          /\ next.clock.running = [side |-> Flip(mover), since |-> t]
          /\ next.clock.remaining["white"] + next.clock.remaining["black"]
                = old.clock.remaining["white"] + old.clock.remaining["black"]
                  + old.clock.increment - (t - old.clock.running.since)
      BY <2>2, <2>3, <2>6, <3>1, <3>2, CompleteMoveHandsOver
    <3>4. next.clock.remaining["white"] + next.clock.remaining["black"]
             = 2 * next.clock.initial + next.clock.increment * Len(next.moves)
               - (next.clock.running.since - joined_at)
      <4> DEFINE white == old.clock.remaining["white"]
                 black == old.clock.remaining["black"]
                 initial == old.clock.initial
                 increment == old.clock.increment
                 played == Len(old.moves)
                 since == old.clock.running.since
      <4>1. /\ white \in Int /\ black \in Int /\ initial \in Int /\ since \in Int
            /\ increment \in Int
        BY <2>6, <3>1, <3>2 DEF Clock, Running, Sides
      <4>2. played \in Int
        BY DEF GameState
      <4>3. white + black = 2 * initial + increment * played - (since - joined_at)
        BY <3>1
      <4>4. next.clock.remaining["white"] + next.clock.remaining["black"]
               = white + black + increment - (t - since)
        BY <3>3
      <4>5. /\ next.clock.initial = initial /\ next.clock.running.since = t
            /\ next.clock.increment = increment /\ Len(next.moves) = played + 1
        BY <2>4, <3>3
      <4> HIDE DEF white, black, initial, increment, played, since
      <4>6. increment * (played + 1) = increment * played + increment
            /\ increment * played \in Int
        BY <4>1, <4>2
      <4>7. white + black + increment - (t - since)
               = 2 * initial + increment * (played + 1) - (t - joined_at)
        <5> DEFINE earned == increment * played
        <5>1. earned \in Int /\ increment * (played + 1) = earned + increment
          BY <4>6
        <5>2. white + black = 2 * initial + earned - (since - joined_at)
          BY <4>3
        <5> HIDE DEF earned
        <5>3. white + black + increment - (t - since)
               = 2 * initial + (earned + increment) - (t - joined_at)
          BY <4>1, <5>1, <5>2
        <5> QED
          BY <5>1, <5>3
      <4> QED
        BY <4>4, <4>5, <4>7, Zenon
    <3>5. next.clock.running # None /\ next.clock.running.side = Flip(mover)
      BY <3>2, <3>3, FlipIsOther, RunningAssumption DEF Running
    <3> QED
      BY <1>5, <2>1, <2>4, <2>6, <3>3, <3>4, <3>5 DEF Started, mover
  <2> QED
    BY <2>5, <2>6
<1> QED
  BY <1>4, <1>5

\* The second player arrives: the host's time starts, and nothing is charged yet.
LEMMA BegunIsStarted ==
    ASSUME NEW old \in GameState, Waiting(old), NEW t \in Nat
    PROVE  Begun(old, t) \in GameState /\ Started(Begun(old, t), t)
<1> DEFINE resumed == [old EXCEPT !.clock = Resume(@, "white", t)]
           game == Begun(old, t)
<1>1. /\ resumed \in GameState
      /\ Resume(old.clock, "white", t) \in Clock
  BY ResumeType, WithClockType DEF GameState, Sides
<1>2. /\ game \in GameState /\ game.clock = Resume(old.clock, "white", t)
      /\ game.moves = <<>> /\ game.start = "white"
      /\ game.resigned = None /\ ~game.agreed_draw /\ game.abandoned = None
  <2>1. game = Changed(resumed)
    BY DEF Begun
  <2>2. game \in GameState
    BY <1>1, <2>1, ChangedType
  <2> QED
    BY <2>2 DEF Waiting, Begun, Changed, GameState
<1> HIDE DEF game, resumed
<1>3. SideToMove(game) = "white"
  BY <1>2 DEF SideToMove
<1>4. CASE old.clock.initial = None
  <2>1. game.clock = old.clock
    BY <1>2, <1>4 DEF Resume
  <2> QED
    BY <1>2, <1>4, <2>1 DEF Started, Waiting, game
<1>5. CASE old.clock.initial # None
  <2> DEFINE running == [side |-> "white", since |-> t]
             started == [old.clock EXCEPT !.flagged = None, !.running = running]
  <2>1. started \in Clock
    BY DEF GameState, Clock, Running, Sides
  <2>2. SameTime(game.clock, started)
    BY <1>2, <1>5, <2>1, RememberShownSameTime DEF Resume
  <2>3. /\ game.clock.initial = old.clock.initial /\ game.clock.running = running
        /\ game.clock.flagged = None /\ game.clock.remaining = old.clock.remaining
        /\ game.clock.increment \in Nat
    BY <1>2, <2>2 DEF SameTime, GameState, Clock
  <2>4. running # None
    BY RunningAssumption DEF Running, Sides
  <2>5. ~IsOver(game)
    BY <1>2, <2>3 DEF IsOver, Outcome, BoardOutcome
  <2>6. game.clock.remaining["white"] + game.clock.remaining["black"]
           = 2 * game.clock.initial + game.clock.increment * Len(game.moves)
             - (game.clock.running.since - t)
    <3>1. /\ game.clock.remaining["white"] = old.clock.initial
          /\ game.clock.remaining["black"] = old.clock.initial
      BY <1>5, <2>3 DEF Waiting, Sides
    <3>2. old.clock.initial \in Nat
      BY <1>5 DEF GameState, Clock
    <3>3. Len(game.moves) = 0 /\ game.clock.running.since = t
      BY <1>2, <2>3
    <3>4. game.clock.increment * Len(game.moves) = 0
      BY <2>3, <3>3
    <3> DEFINE initial == old.clock.initial
    <3>5. game.clock.initial = initial
      BY <2>3
    <3> HIDE DEF initial
    <3>6. initial + initial = 2 * initial + 0 - (t - t)
      BY <3>2 DEF initial
    <3> QED
      BY <3>1, <3>3, <3>4, <3>5, <3>6, Zenon DEF initial
  <2> QED
    BY <1>2, <1>3, <2>3, <2>4, <2>5, <2>6, <1>5 DEF Started, game
<1> QED
  BY <1>4, <1>5

\* What had not begun and was undecided has begun and is undecided.
LEMMA BegunIsOrderly ==
    ASSUME NEW old \in GameState, Undecided(old), old.clock.running = None, NEW t \in Nat
    PROVE  Orderly(Begun(old, t), TRUE)
<1> DEFINE resumed == [old EXCEPT !.clock = Resume(@, "white", t)]
           game == Begun(old, t)
<1>1. Resume(old.clock, "white", t) \in Clock /\ resumed \in GameState
  BY ResumeType, WithClockType DEF GameState, Sides
<1>2. /\ game.clock = Resume(old.clock, "white", t)
      /\ game.moves = old.moves /\ game.start = old.start
      /\ game.resigned = None /\ ~game.agreed_draw /\ game.abandoned = None
  BY <1>1 DEF Undecided, Begun, Changed, GameState
<1>3. BoardOutcome(game) = None
  <2> HIDE DEF game
  <2> QED
    BY <1>2 DEF Undecided, BoardOutcome, LastMove, SideToMove
<1> HIDE DEF game, resumed
<1>4. CASE old.clock.initial = None
  BY <1>2, <1>4 DEF Resume, Orderly, game
<1>5. CASE old.clock.initial # None
  <2>1. game.clock.flagged = None
    BY <1>2, <1>5 DEF Resume, RememberShown, GameState, Clock
  <2>2. ~IsOver(game)
    BY <1>2, <1>3, <2>1 DEF IsOver, Outcome
  <2> QED
    BY <2>2 DEF Orderly, game
<1> QED
  BY <1>4, <1>5

-----------------------------------------------------------------------------
(* Rooms                                                                   *)

\* room is what one step made of the room old of the same game.
RoomStep(room, old) ==
    /\ OnTime(old) => OnTime(room)
    /\ Orderly(old.game, Joined(old)) =>
          /\ Orderly(room.game, Joined(room))
          /\ Joined(old) /\ IsOver(old.game) =>
                Outcome(room.game) = Outcome(old.game) /\ room.game.moves = old.game.moves
    /\ \A side \in Sides : old.seats[side] # None =>
          /\ room.seats[side] # None
          /\ room.seats[side].user = old.seats[side].user
    /\ old.game.revision <= room.game.revision

LEMMA SameRoomStep ==
    ASSUME NEW room \in Room
    PROVE  RoomStep(room, room)
BY DEF RoomStep, Room, GameState

LEMMA GameStepIsRoomStep ==
    ASSUME NEW old \in Room, NEW room, room.seats = old.seats,
           room.started_at = old.started_at,
           GameStep(room.game, old.game, Joined(old), old.started_at)
    PROVE  RoomStep(room, old)
<1>1. Joined(room) = Joined(old)
  BY DEF Joined
<1> QED
  BY <1>1 DEF RoomStep, OnTime, GameStep, OrderStep

\* The room with its game replaced: what the steps below compose.
LEMMA WithGameStep ==
    ASSUME NEW old \in Room, NEW game,
           GameStep(game, old.game, Joined(old), old.started_at)
    PROVE  LET room == [old EXCEPT !.game = game]
           IN  /\ room \in Room /\ room.seats = old.seats
               /\ room.started_at = old.started_at /\ room.game = game
<1>1. game \in GameState
  BY DEF GameStep
<1> QED
  BY <1>1 DEF Room

\* Settling the clock of a room that is settled or not.
LEMMA SettledStep ==
    ASSUME NEW room \in Room, NEW t \in Nat
    PROVE  /\ Settled(room, t) \in Room
           /\ Settled(room, t).seats = room.seats
           /\ Settled(room, t).started_at = room.started_at
           /\ GameStep(Settled(room, t).game, room.game, Joined(room), room.started_at)
<1> DEFINE game == [room.game EXCEPT !.clock = Sync(@, t)]
<1>1. room.game \in GameState /\ room.started_at \in Nat
  BY DEF Room
<1>2. GameStep(game, room.game, Joined(room), room.started_at)
  BY <1>1, SyncStep
<1>3. Settled(room, t) = [room EXCEPT !.game = game]
  BY DEF Settled, Room
<1> HIDE DEF game
<1>4. game \in GameState
  BY <1>2 DEF GameStep
<1> QED
  BY <1>2, <1>3, <1>4 DEF Room

LEMMA TickedClockStep ==
    ASSUME NEW room \in Room, NEW t \in Nat
    PROVE  LET ticked == [room EXCEPT !.game.clock = Tick(@, t)]
           IN  /\ ticked \in Room /\ ticked.seats = room.seats
               /\ ticked.started_at = room.started_at
               /\ GameStep(ticked.game, room.game, Joined(room), room.started_at)
<1> DEFINE game == [room.game EXCEPT !.clock = Tick(@, t)]
           ticked == [room EXCEPT !.game.clock = Tick(@, t)]
<1>1. room.game \in GameState /\ room.started_at \in Nat
  BY DEF Room
<1>2. GameStep(game, room.game, Joined(room), room.started_at)
  BY <1>1, TickStep
<1>3. ticked = [room EXCEPT !.game = game]
  BY DEF Room
<1> HIDE DEF game
<1>4. game \in GameState
  BY <1>2 DEF GameStep
<1>5. ticked \in Room /\ ticked.seats = room.seats
      /\ ticked.started_at = room.started_at /\ ticked.game = game
  BY <1>3, <1>4 DEF Room
<1> HIDE DEF ticked
<1> QED
  BY <1>2, <1>5 DEF ticked

\* A member's operation on the game of its room, and the settling after it.
LEMMA PublishedStep ==
    ASSUME NEW old \in Room, NEW game, NEW t \in Nat,
           GameStep(game, old.game, Joined(old), old.started_at)
    PROVE  RoomStep(Settled([old EXCEPT !.game = game], t), old)
<1> DEFINE room == [old EXCEPT !.game = game]
<1>1. /\ room \in Room /\ room.seats = old.seats
      /\ room.started_at = old.started_at /\ room.game = game
  BY WithGameStep
<1> HIDE DEF room
<1>2. Joined(room) = Joined(old)
  BY <1>1 DEF Joined
<1>3. /\ Settled(room, t).seats = old.seats
      /\ Settled(room, t).started_at = old.started_at
      /\ GameStep(Settled(room, t).game, game, Joined(old), old.started_at)
  BY <1>1, <1>2, SettledStep
<1>4. GameStep(Settled(room, t).game, old.game, Joined(old), old.started_at)
  BY <1>3, GameStepsCompose DEF Room
<1> QED
  BY <1>3, <1>4, GameStepIsRoomStep DEF room

LEMMA TickedRoomStep ==
    ASSUME NEW old \in Room, NEW t \in Nat
    PROVE  RoomStep(TickedRoom(old, t), old)
<1> DEFINE ticked == [old EXCEPT !.game.clock = Tick(@, t)]
           gone == IF "white" \in Forfeiters(old, t) THEN "white" ELSE "black"
           forfeited == Abandoned(ticked.game, gone, t)
<1>1. /\ ticked \in Room /\ ticked.seats = old.seats
      /\ ticked.started_at = old.started_at
      /\ GameStep(ticked.game, old.game, Joined(old), old.started_at)
  BY TickedClockStep
<1>2. CASE Forfeiters(old, t) = {}
  <2>1. Enforced(old, t) = ticked
    BY <1>2 DEF Enforced
  <2>2. /\ TickedRoom(old, t).seats = ticked.seats
        /\ TickedRoom(old, t).started_at = ticked.started_at
        /\ TickedRoom(old, t).game = ticked.game
    <3> HIDE DEF ticked
    <3> QED
      BY <1>1, <2>1 DEF TickedRoom, Room
  <2> HIDE DEF ticked
  <2> QED
    BY <1>1, <2>2, GameStepIsRoomStep
<1>3. CASE Forfeiters(old, t) # {}
  <2>1. IsActive(old)
    BY <1>3 DEF Forfeiters
  <2>2. Enforced(old, t) = [ticked EXCEPT !.game = forfeited]
    BY <1>3 DEF Enforced
  <2>3. GameStep(forfeited, old.game, Joined(old), old.started_at)
    <3>1. /\ old.game \in GameState /\ ticked.game \in GameState /\ gone \in Sides
          /\ old.game.revision <= ticked.game.revision
      BY <1>1 DEF GameStep, Room, Sides
    <3> HIDE DEF ticked, gone
    <3>2. Joined(old) /\ ~IsOver(old.game)
      BY <2>1 DEF IsActive
    <3>3. GameStep(forfeited, old.game, TRUE, old.started_at)
      BY <3>1, <3>2, AbandonedStep
    <3> HIDE DEF forfeited
    <3> QED
      BY <3>2, <3>3, JoinedStep
  <2> HIDE DEF ticked, gone, forfeited
  <2>4. forfeited \in GameState
    BY <2>3 DEF GameStep
  <2>5. /\ TickedRoom(old, t).seats = old.seats
        /\ TickedRoom(old, t).started_at = old.started_at
        /\ TickedRoom(old, t).game = forfeited
    BY <1>1, <2>2, <2>4 DEF TickedRoom, Room
  <2> QED
    BY <2>3, <2>5, GameStepIsRoomStep
<1> QED
  BY <1>2, <1>3

\* Leaving and taking back a seat leave the game and the accounts alone.
LEMMA SeatChangeStep ==
    ASSUME NEW old \in Room, NEW side \in Sides, old.seats[side] # None,
           NEW slot \in Slot, slot.user = old.seats[side].user
    PROVE  LET room == [old EXCEPT !.seats = [@ EXCEPT ![side] = slot]]
           IN  room \in Room /\ RoomStep(room, old)
<1> DEFINE room == [old EXCEPT !.seats = [@ EXCEPT ![side] = slot]]
<1>1. slot # None
  BY OptionAssumption
<1>2. /\ room \in Room /\ room.game = old.game /\ room.started_at = old.started_at
      /\ \A s \in Sides : room.seats[s] = IF s = side THEN slot ELSE old.seats[s]
  BY DEF Room
<1> HIDE DEF room
<1>3. Joined(room) = Joined(old)
  BY <1>1, <1>2 DEF Joined, Sides
<1>4. OnTime(room) = OnTime(old)
  BY <1>2, <1>3 DEF OnTime
<1>5. old.game.revision <= room.game.revision
  BY <1>2 DEF Room, GameState
<1>6. RoomStep(room, old)
  BY <1>1, <1>2, <1>3, <1>4, <1>5 DEF RoomStep
<1> QED
  BY <1>2, <1>6 DEF room

-----------------------------------------------------------------------------
(* Steps of the hub                                                        *)

\* Every room that is there after the step was there, or is new and starts on time.
RoomsStep ==
    \A g \in GameIds : rooms'[g] # None =>
        IF rooms[g] = None
        THEN /\ OnTime(rooms'[g]) /\ Orderly(rooms'[g].game, Joined(rooms'[g]))
             /\ g \notin issued
        ELSE RoomStep(rooms'[g], rooms[g])

\* What the step hands to the history names the players of the seats.
RecordsNamePlayers ==
    \A record \in finished_games' \ finished_games, side \in Sides :
        record.players[side] = rooms[record.game_id].seats[side].user

Stays == RoomsStep /\ RecordsNamePlayers

LEMMA UnchangedRoomsStay ==
    ASSUME IInv, rooms' = rooms, finished_games' \subseteq finished_games
    PROVE  Stays
BY SameRoomStep DEF Stays, RoomsStep, RecordsNamePlayers, IInv, TypeOK

LEMMA OneRoomStays ==
    ASSUME IInv, NEW g \in GameIds, rooms[g] # None, NEW room,
           RoomStep(room, rooms[g]), rooms' = [rooms EXCEPT ![g] = room],
           finished_games' = finished_games
    PROVE  Stays
<1>1. RoomsStep
  BY SameRoomStep DEF RoomsStep, IInv, TypeOK
<1> QED
  BY <1>1 DEF Stays, RecordsNamePlayers

LEMMA RefusalStays ==
    ASSUME IInv, NEW c, NEW code, Refuse(c, code)
    PROVE  Stays
BY UnchangedRoomsStay DEF Refuse

LEMMA CreateGameStays ==
    ASSUME IInv, NEW c \in Connections, NEW name_ok \in BOOLEAN, NEW tc \in TimeControls,
           CreateGame(c, name_ok, tc)
    PROVE  Stays
<1>1. CASE Refuse(c, "InvalidRequest")
  BY <1>1, RefusalStays
<1>2. CASE ~Refuse(c, "InvalidRequest")
  <2> DEFINE clock == NewClock(tc.initial, tc.increment, "white", now)
             game == NewGame("white", tc.initial, tc.increment, now)
             paused == [game EXCEPT !.clock = Pause(@, now)]
             seats == [s \in Sides |-> IF s = "white" THEN NewSlot(identities[c], c)
                                       ELSE None]
             room(k) == [invite_code |-> k, game |-> paused, seats |-> seats,
                         started_at |-> 0, finished_at |-> None]
  <2>1. PICK g \in GameIds \ issued, k \in Codes : rooms' = [rooms EXCEPT ![g] = room(k)]
    BY <1>2 DEF CreateGame
  <2>2. finished_games' = finished_games
    BY <1>2 DEF CreateGame
  <2>3. rooms[g] = None
    BY <2>1 DEF IInv, TypeOK, MapsAgree, RoomsWereIssued, OpenGames
  <2>4. /\ tc.initial \in Nat \cup {None} /\ tc.increment \in Nat /\ now \in Nat
    BY HubAssumption DEF IInv, TypeOK
  <2>5. clock \in Clock /\ Sync(clock, now) \in Clock
    BY <2>4, NewClockType, SyncType DEF Sides
  <2>6. /\ Pause(clock, now) = RememberShown([Sync(clock, now) EXCEPT !.running = None])
        /\ [Sync(clock, now) EXCEPT !.running = None] \in Clock
    BY <2>5 DEF Pause, Clock
  <2>7. /\ Pause(clock, now).running = None
        /\ Pause(clock, now).remaining = Sync(clock, now).remaining
        /\ Pause(clock, now).initial = Sync(clock, now).initial
    BY <2>6, RememberShownSameTime DEF SameTime, Clock
  <2>8. Sync(clock, now).initial = tc.initial
    BY <2>5 DEF Sync, NewClock, Clock
  <2>9. tc.initial # None =>
            \A side \in Sides : Sync(clock, now).remaining[side] = tc.initial
    <3> SUFFICES ASSUME tc.initial # None, NEW side \in Sides
                 PROVE  Sync(clock, now).remaining[side] = tc.initial
      OBVIOUS
    <3>1. /\ clock.running = [side |-> "white", since |-> now]
          /\ clock.running # None /\ clock.running.side = "white"
          /\ clock.running.since = now
      BY <2>4, RunningAssumption DEF NewClock, Running, Sides
    <3>2. clock.remaining = [s \in Sides |-> tc.initial]
      BY DEF NewClock, InitialTime
    <3>3. SaturatingSub(clock.remaining["white"], now - now) = tc.initial
      <4>1. now - now = 0 /\ tc.initial - 0 = tc.initial /\ tc.initial \in Nat
        BY <2>4
      <4> QED
        BY <3>2, <4>1 DEF SaturatingSub, Sides
    <3> HIDE DEF clock
    <3>4. Sync(clock, now).remaining =
             [clock.remaining EXCEPT !["white"] =
                 SaturatingSub(clock.remaining["white"], now - now)]
      BY <2>5, <3>1 DEF Sync, Clock
    <3> QED
      BY <3>2, <3>3, <3>4
  <2> HIDE DEF clock
  <2>10. /\ paused.start = "white" /\ paused.moves = <<>>
         /\ paused.resigned = None /\ ~paused.agreed_draw /\ paused.abandoned = None
         /\ paused.clock = Pause(clock, now)
    BY DEF NewGame, clock
  <2> HIDE DEF paused
  <2>11. Waiting(paused)
    BY <2>7, <2>8, <2>9, <2>10 DEF Waiting
  <2>12. OnTime(room(k)) /\ Orderly(room(k).game, Joined(room(k)))
    BY <2>11, TimelyIsOrderly DEF OnTime, Timely, Joined, Sides
  <2>13. RoomsStep
    BY <2>1, <2>3, <2>12, SameRoomStep DEF RoomsStep, IInv, TypeOK
  <2> QED
    BY <2>2, <2>13 DEF Stays, RecordsNamePlayers
<1> QED
  BY <1>1, <1>2

LEMMA JoinGameStays ==
    ASSUME IInv, NEW c \in Connections, NEW name_ok \in BOOLEAN, NEW k \in Codes,
           JoinGame(c, name_ok, k)
    PROVE  Stays
<1>1. CASE \E code : Refuse(c, code)
  BY <1>1, RefusalStays
<1>2. CASE ~\E code : Refuse(c, code)
  <2> DEFINE g == invites[k]
             old == rooms[g]
             game == Begun(old.game, now)
             room == [old EXCEPT !.seats["black"] = NewSlot(identities[c], c),
                                 !.started_at = now,
                                 !.game = game]
  <2>1. /\ g # None /\ ~Joined(old) /\ now \in Nat
        /\ rooms' = [rooms EXCEPT ![g] = Settled(room, now)]
        /\ finished_games' = finished_games
    BY <1>2 DEF JoinGame, IInv, TypeOK
  <2>2. g \in GameIds /\ old # None /\ old \in Room /\ old.seats["black"] = None
    BY <2>1 DEF IInv, TypeOK, MapsAgree, InvitesMatchRooms, Joined
  <2>3. game \in GameState
    <3>1. Resume(old.game.clock, "white", now) \in Clock
      BY <2>1, <2>2, ResumeType DEF Room, GameState, Sides
    <3>2. [old.game EXCEPT !.clock = Resume(@, "white", now)] \in GameState
      BY <2>2, <3>1 DEF Room, GameState
    <3> QED
      BY <3>2, ChangedType DEF Begun
  <2>4. /\ Waiting(old.game) => Started(game, now)
        /\ Undecided(old.game) /\ old.game.clock.running = None => Orderly(game, TRUE)
    BY <2>1, <2>2, BegunIsStarted, BegunIsOrderly DEF Room
  <2> HIDE DEF game
  <2>5. /\ room \in Room /\ room.started_at = now /\ room.game = game
        /\ room.seats = [old.seats EXCEPT !["black"] = NewSlot(identities[c], c)]
    BY <2>1, <2>2, <2>3, NewSlotType DEF Room, Sides
  <2>6. /\ \A s \in Sides : room.seats[s] = IF s = "black" THEN NewSlot(identities[c], c)
                                            ELSE old.seats[s]
        /\ Joined(room)
    BY <2>2, <2>5, NewSlotType DEF Room, Joined, Sides
  <2> HIDE DEF room, old, g
  <2>7. /\ Settled(room, now).seats = room.seats
        /\ Settled(room, now).started_at = now
        /\ GameStep(Settled(room, now).game, game, TRUE, now)
    <3>1. /\ Settled(room, now).seats = room.seats
          /\ Settled(room, now).started_at = room.started_at
          /\ GameStep(Settled(room, now).game, room.game, Joined(room), room.started_at)
      BY <2>1, <2>5, SettledStep
    <3> QED
      BY <2>5, <2>6, <3>1 DEF GameStep, Timely, OrderStep, Orderly
  <2>8. OnTime(old) => OnTime(Settled(room, now))
    <3>1. OnTime(old) => Waiting(old.game)
      BY <2>1 DEF OnTime, Timely
    <3>2. Started(game, now) => Started(Settled(room, now).game, now)
      BY <2>7 DEF GameStep, Timely
    <3>3. Joined(Settled(room, now))
      BY <2>6, <2>7 DEF Joined
    <3> QED
      BY <2>4, <2>7, <3>1, <3>2, <3>3 DEF OnTime, Timely
  <2>9. Orderly(old.game, Joined(old)) =>
            Orderly(Settled(room, now).game, Joined(Settled(room, now)))
    <3>1. Joined(Settled(room, now))
      BY <2>6, <2>7 DEF Joined
    <3> QED
      BY <2>1, <2>4, <2>7, <3>1 DEF Orderly, GameStep, OrderStep
  <2>10. old.game.revision <= Settled(room, now).game.revision
    <3>1. old.game.revision \in Nat /\ game.revision = old.game.revision + 1
      BY <2>2 DEF Begun, Changed, Room, GameState, game
    <3>2. game.revision <= Settled(room, now).game.revision
      BY <2>7 DEF GameStep
    <3>3. Settled(room, now).game.revision \in Nat
      BY <2>7 DEF GameStep, GameState
    <3> QED
      BY <3>1, <3>2, <3>3
  <2>11. RoomStep(Settled(room, now), old)
    BY <2>1, <2>2, <2>6, <2>7, <2>8, <2>9, <2>10 DEF RoomStep
  <2> QED
    BY <2>1, <2>2, <2>11, OneRoomStays DEF old
<1> QED
  BY <1>1, <1>2

LEMMA ReconnectStays ==
    ASSUME IInv, NEW c \in Connections, NEW g \in GameIds, NEW token,
           Reconnect(c, g, token)
    PROVE  Stays
<1>1. CASE \E code : Refuse(c, code)
  BY <1>1, RefusalStays
<1>2. CASE ~\E code : Refuse(c, code)
  <2> DEFINE old == rooms[g]
  <2>1. PICK side \in Sides :
            /\ old # None /\ old.seats[side] # None
            /\ rooms' = [rooms EXCEPT ![g] = Settled(Reseated(old, side, c), now)]
    BY <1>2 DEF Reconnect
  <2>2. finished_games' = finished_games /\ now \in Nat
    BY <1>2 DEF Reconnect, IInv, TypeOK
  <2> DEFINE slot == [old.seats[side] EXCEPT !.connection = c, !.disconnected_at = None]
             room == [old EXCEPT !.seats = [@ EXCEPT ![side] = slot]]
  <2>3. old \in Room /\ old.seats[side] \in Slot
    BY <2>1 DEF IInv, TypeOK, Room
  <2>4. slot \in Slot /\ slot.user = old.seats[side].user
    BY <2>3 DEF Slot
  <2>5. Reseated(old, side, c) = room
    BY <2>3 DEF Reseated, Room, Slot
  <2> HIDE DEF old, slot
  <2>6. room \in Room /\ RoomStep(room, old)
    BY <2>1, <2>3, <2>4, SeatChangeStep
  <2> HIDE DEF room
  <2>7. RoomStep(Settled(room, now), old)
    <3>1. RoomStep(Settled(room, now), room)
      BY <2>2, <2>6, SettledStep, GameStepIsRoomStep
    <3>2. Joined(old) => Joined(room)
      BY <2>6 DEF RoomStep, Joined, Sides
    <3>3. /\ old.game.revision \in Nat /\ room.game.revision \in Nat
          /\ Settled(room, now).game.revision \in Nat
      BY <2>2, <2>3, <2>6, SettledStep DEF Room, GameState
    <3>4. old.game.revision <= Settled(room, now).game.revision
      BY <2>6, <3>1, <3>3 DEF RoomStep
    <3> QED
      BY <2>6, <3>1, <3>2, <3>4 DEF RoomStep, IsOver
  <2> QED
    BY <2>1, <2>2, <2>5, <2>7, OneRoomStays DEF old
<1> QED
  BY <1>1, <1>2

LEMMA DisconnectStays ==
    ASSUME IInv, NEW c \in Connections, Disconnect(c)
    PROVE  Stays
<1>0. finished_games' = finished_games /\ now \in Nat
  BY DEF Disconnect, IInv, TypeOK
<1>1. CASE memberships[c] = None
  BY <1>0, <1>1, UnchangedRoomsStay DEF Disconnect
<1>2. CASE memberships[c] # None
  <2> DEFINE g == memberships[c].game_id
             side == memberships[c].side
             old == rooms[g]
             slot == [old.seats[side] EXCEPT !.connection = None, !.disconnected_at = now]
             room == [old EXCEPT !.seats = [@ EXCEPT ![side] = slot]]
  <2>1. /\ g \in GameIds /\ side \in Sides /\ old # None /\ old \in Room
        /\ memberships[c] = [game_id |-> g, side |-> side]
    BY <1>2, MembersHaveRooms DEF IsMember
  <2>2. SitsAt(c, g, side) /\ c # None
    BY <2>1, NewSlotType DEF IInv, MapsAgree, SeatsMatchMemberships
  <2>3. rooms' = [rooms EXCEPT ![g] = Vacated(old, side, c, now)]
    BY <1>2, <2>1 DEF Disconnect
  <2> HIDE DEF g, side
  <2>4. old.seats[side] \in Slot /\ old.seats[side] # None
    BY <2>1, <2>2 DEF SitsAt, Room
  <2>5. slot \in Slot /\ slot.user = old.seats[side].user
    BY <1>0, <2>4 DEF Slot
  <2>6. Vacated(old, side, c, now) = room
    <3>1. Vacated(old, side, c, now) =
              [old EXCEPT !.seats[side].connection = None,
                          !.seats[side].disconnected_at = now]
      BY <2>2 DEF Vacated, IsConnected, SitsAt
    <3> QED
      BY <2>1, <2>4, <3>1 DEF Room, Slot
  <2> HIDE DEF slot
  <2>7. RoomStep(room, old)
    BY <2>1, <2>4, <2>5, SeatChangeStep
  <2> HIDE DEF room
  <2> QED
    BY <1>0, <2>1, <2>3, <2>6, <2>7, OneRoomStays
<1> QED
  BY <1>1, <1>2

\* A member's operation on a game that its room has.
LEMMA PublishStays ==
    ASSUME IInv, NEW c \in Connections, NEW g \in GameIds, IsMember(c, g),
           NEW game, NEW t \in Nat,
           GameStep(game, rooms[g].game, Joined(rooms[g]), rooms[g].started_at),
           rooms' = [rooms EXCEPT ![g] = Settled([rooms[g] EXCEPT !.game = game], t)],
           finished_games' = finished_games
    PROVE  Stays
<1>1. rooms[g] \in Room /\ rooms[g] # None
  BY MembersHaveRooms
<1> QED
  BY <1>1, PublishedStep, OneRoomStays

\* An operation that needs an active game.
LEMMA ActiveGameStays ==
    ASSUME IInv, NEW c \in Connections, NEW g \in GameIds, IsMember(c, g),
           IsActive(rooms[g]), NEW game,
           GameStep(game, rooms[g].game, TRUE, rooms[g].started_at),
           Publish(g, [rooms[g] EXCEPT !.game = game], now),
           finished_games' = finished_games
    PROVE  Stays
<1>1. GameStep(game, rooms[g].game, Joined(rooms[g]), rooms[g].started_at)
  BY JoinedStep DEF IsActive
<1> QED
  BY <1>1, PublishStays DEF Publish, IInv, TypeOK

LEMMA OfferDrawStays ==
    ASSUME IInv, NEW c \in Connections, NEW g \in GameIds, OfferDraw(c, g)
    PROVE  Stays
<1>1. CASE RefuseStranger(c, g) \/ Refuse(c, "InvalidRequest")
  BY <1>1, RefusalStays DEF RefuseStranger
<1>2. CASE ~(RefuseStranger(c, g) \/ Refuse(c, "InvalidRequest"))
  <2> DEFINE game == Changed([rooms[g].game EXCEPT !.draw_offer = memberships[c].side])
  <2>1. /\ IsMember(c, g) /\ IsActive(rooms[g]) /\ finished_games' = finished_games
        /\ Publish(g, [rooms[g] EXCEPT !.game = game], now)
    BY <1>2 DEF OfferDraw
  <2>2. rooms[g].game \in GameState /\ memberships[c].side \in Sides
    BY <2>1, MembersHaveRooms DEF Room
  <2>3. GameStep(game, rooms[g].game, TRUE, rooms[g].started_at)
    BY <2>2, OfferStep
  <2> HIDE DEF game
  <2> QED
    BY <2>1, <2>3, ActiveGameStays
<1> QED
  BY <1>1, <1>2

LEMMA RespondDrawStays ==
    ASSUME IInv, NEW c \in Connections, NEW g \in GameIds, NEW accept \in BOOLEAN,
           RespondDraw(c, g, accept)
    PROVE  Stays
<1>1. CASE RefuseStranger(c, g) \/ Refuse(c, "InvalidRequest")
  BY <1>1, RefusalStays DEF RefuseStranger
<1>2. CASE ~(RefuseStranger(c, g) \/ Refuse(c, "InvalidRequest"))
  <2> DEFINE game == Answered(rooms[g].game, accept, now)
  <2>1. /\ IsMember(c, g) /\ IsActive(rooms[g]) /\ finished_games' = finished_games
        /\ Publish(g, [rooms[g] EXCEPT !.game = game], now)
    BY <1>2 DEF RespondDraw, MayAnswerDraw
  <2>2. rooms[g].game \in GameState /\ now \in Nat
    BY <2>1, MembersHaveRooms DEF Room, IInv, TypeOK
  <2>3. GameStep(game, rooms[g].game, TRUE, rooms[g].started_at)
    BY <2>1, <2>2, AnsweredStep DEF IsActive
  <2> HIDE DEF game
  <2> QED
    BY <2>1, <2>3, ActiveGameStays
<1> QED
  BY <1>1, <1>2

LEMMA ResignStays ==
    ASSUME IInv, NEW c \in Connections, NEW g \in GameIds, Resign(c, g)
    PROVE  Stays
<1>1. CASE RefuseStranger(c, g) \/ Refuse(c, "InvalidRequest")
  BY <1>1, RefusalStays DEF RefuseStranger
<1>2. CASE ~(RefuseStranger(c, g) \/ Refuse(c, "InvalidRequest"))
  <2> DEFINE game == Resigned(rooms[g].game, memberships[c].side, now)
  <2>1. /\ IsMember(c, g) /\ IsActive(rooms[g]) /\ finished_games' = finished_games
        /\ Publish(g, [rooms[g] EXCEPT !.game = game], now)
    BY <1>2 DEF Resign
  <2>2. rooms[g].game \in GameState /\ now \in Nat /\ memberships[c].side \in Sides
    BY <2>1, MembersHaveRooms DEF Room, IInv, TypeOK
  <2>3. GameStep(game, rooms[g].game, TRUE, rooms[g].started_at)
    BY <2>1, <2>2, ResignedStep DEF IsActive
  <2> HIDE DEF game
  <2> QED
    BY <2>1, <2>3, ActiveGameStays
<1> QED
  BY <1>1, <1>2

\* The flag may fall between the two readings of the clock: the move is then
\* played in a game that this very move finds over.
LEMMA PlayMoveStays ==
    ASSUME IInv, NEW c \in Connections, NEW g \in GameIds, NEW ply \in Nat,
           NEW move, NEW later \in Nat, PlayMove(c, g, ply, move, later)
    PROVE  Stays
<1>1. CASE RefuseStranger(c, g)
  BY <1>1, RefusalStays DEF RefuseStranger
<1>2. CASE IsMember(c, g) /\ ~RefuseStranger(c, g)
  <2> DEFINE old == rooms[g]
             ticked == [old EXCEPT !.game.clock = Tick(@, now)]
             reason == Rejection(ticked, memberships[c].side, ply, move)
             played == Played(ticked.game, move, later)
  <2>1. old \in Room /\ old # None /\ now \in Nat
    BY <1>2, MembersHaveRooms DEF IInv, TypeOK
  <2>2. /\ ticked \in Room /\ ticked.seats = old.seats
        /\ ticked.started_at = old.started_at
        /\ GameStep(ticked.game, old.game, Joined(old), old.started_at)
    BY <2>1, TickedClockStep
  <2>3. finished_games' = finished_games
    BY <1>2 DEF PlayMove
  <2>4. \/ rooms' = [rooms EXCEPT ![g] = Settled(ticked, later)]
        \/ /\ reason = None
           /\ rooms' = [rooms EXCEPT ![g] = Settled([ticked EXCEPT !.game = played], later)]
    BY <1>2 DEF PlayMove, Publish
  <2>5. ticked = [old EXCEPT !.game = ticked.game]
    BY <2>1 DEF Room
  <2>6. ASSUME reason = None
        PROVE  GameStep(played, old.game, Joined(old), old.started_at)
    <3> USE DEF reason
    <3>1. move \in MoveKinds /\ IsActive(ticked)
      BY <2>6, OptionAssumption DEF Rejection, Reasons
    <3> HIDE DEF ticked, old
    <3>2. Joined(old) /\ ~IsOver(ticked.game)
      BY <2>2, <3>1 DEF IsActive, Joined
    <3>3. ticked.game \in GameState /\ old.started_at \in Nat
      BY <2>1, <2>2 DEF Room
    <3>4. GameStep(played, ticked.game, TRUE, old.started_at)
      BY <3>1, <3>2, <3>3, PlayedStep
    <3> HIDE DEF played
    <3>5. GameStep(played, ticked.game, Joined(old), old.started_at)
      BY <3>2, <3>4, JoinedStep
    <3>6. old.game \in GameState
      BY <2>1 DEF Room
    <3> QED
      BY <2>2, <3>5, <3>6, GameStepsCompose
  <2> HIDE DEF reason, played
  <2>7. [ticked EXCEPT !.game = played] = [old EXCEPT !.game = played]
    BY <2>1 DEF Room
  <2> HIDE DEF ticked
  <2>8. CASE rooms' = [rooms EXCEPT ![g] = Settled(ticked, later)]
    <3> DEFINE game == ticked.game
    <3>1. ticked = [old EXCEPT !.game = game]
      BY <2>5
    <3>2. GameStep(game, old.game, Joined(old), old.started_at)
      BY <2>2
    <3> HIDE DEF game
    <3> QED
      BY <1>2, <2>3, <2>8, <3>1, <3>2, PublishStays
  <2>9. CASE /\ reason = None
             /\ rooms' = [rooms EXCEPT ![g] = Settled([ticked EXCEPT !.game = played], later)]
    BY <1>2, <2>3, <2>6, <2>7, <2>9, PublishStays
  <2> QED
    BY <2>4, <2>8, <2>9
<1> QED
  BY <1>1, <1>2 DEF PlayMove

LEMMA TickAtStays ==
    ASSUME IInv, TickAt
    PROVE  Stays
<1>1. now \in Nat /\ \A g \in OpenGames : rooms[g] \in Room /\ g \in GameIds
  BY DEF IInv, TypeOK, OpenGames
<1>2. \A g \in GameIds : rooms'[g] # None =>
          g \in OpenGames /\ rooms'[g] = TickedRoom(rooms[g], now)
  BY DEF TickAt
<1>3. RoomsStep
  BY <1>1, <1>2, TickedRoomStep DEF RoomsStep, OpenGames
<1>4. ASSUME NEW record \in finished_games' \ finished_games, NEW side \in Sides
      PROVE  record.players[side] = rooms[record.game_id].seats[side].user
  <2>1. PICK g \in OpenGames : record = FinishedRecord(g, TickedRoom(rooms[g], now))
    BY <1>4 DEF TickAt
  <2>2. TickedRoom(rooms[g], now).seats = rooms[g].seats
    BY <1>1, TickedRoomKeepsSeats DEF SameSeats
  <2> QED
    BY <2>1, <2>2 DEF FinishedRecord
<1> QED
  BY <1>3, <1>4 DEF Stays, RecordsNamePlayers

LEMMA EncodeStays ==
    ASSUME IInv, EncodeIfDirty
    PROVE  Stays
<1>1. finished_games' = finished_games /\ now \in Nat
  BY DEF EncodeIfDirty, IInv, TypeOK
<1>2. ASSUME NEW g \in GameIds, rooms[g] # None
      PROVE  rooms'[g] = Settled(rooms[g], now) /\ RoomStep(rooms'[g], rooms[g])
  <2>1. rooms[g] \in Room
    BY <1>2 DEF IInv, TypeOK
  <2>2. RoomStep(Settled(rooms[g], now), rooms[g])
    BY <1>1, <2>1, SettledStep, GameStepIsRoomStep
  <2> QED
    BY <1>2, <2>2 DEF EncodeIfDirty
<1>3. \A g \in GameIds : rooms[g] = None => rooms'[g] = None
  BY DEF EncodeIfDirty
<1> QED
  BY <1>1, <1>2, <1>3 DEF Stays, RoomsStep, RecordsNamePlayers

LEMMA RequestStays ==
    ASSUME IInv, NEW c \in Connections, GameRequest(c)
    PROVE  Stays
<1>1. ASSUME NEW name_ok \in BOOLEAN, NEW tc \in TimeControls, CreateGame(c, name_ok, tc)
      PROVE  Stays
  BY <1>1, CreateGameStays
<1>2. ASSUME NEW name_ok \in BOOLEAN, NEW k \in Codes, JoinGame(c, name_ok, k)
      PROVE  Stays
  BY <1>2, JoinGameStays
<1>3. ASSUME NEW g \in GameIds, NEW token \in Tokens, Reconnect(c, g, token)
      PROVE  Stays
  BY <1>3, ReconnectStays
<1>4. ASSUME NEW g \in GameIds, NEW ply \in 0..MaxPly, NEW move \in MoveKinds \cup {"illegal"},
             NEW later \in now..MaxTime, PlayMove(c, g, ply, move, later)
      PROVE  Stays
  <2>1. ply \in Nat /\ later \in Nat
    BY HubAssumption DEF IInv, TypeOK
  <2> QED
    BY <1>4, <2>1, PlayMoveStays
<1>5. ASSUME NEW g \in GameIds, OfferDraw(c, g)  PROVE Stays
  BY <1>5, OfferDrawStays
<1>6. ASSUME NEW g \in GameIds, NEW accept \in BOOLEAN, RespondDraw(c, g, accept)
      PROVE  Stays
  BY <1>6, RespondDrawStays
<1>7. ASSUME NEW g \in GameIds, Resign(c, g)  PROVE Stays
  BY <1>7, ResignStays
<1> QED
  BY <1>1, <1>2, <1>3, <1>4, <1>5, <1>6, <1>7 DEF GameRequest

LEMMA NextStays ==
    ASSUME IInv, [Next]_vars
    PROVE  Stays
<1>1. ASSUME NEW c \in Connections, Disconnect(c)  PROVE Stays
  BY <1>1, DisconnectStays
<1>2. ASSUME NEW c \in Connections, GameRequest(c)  PROVE Stays
  BY <1>2, RequestStays
<1>3. CASE TickAt
  BY <1>3, TickAtStays
<1>4. CASE EncodeIfDirty
  BY <1>4, EncodeStays
<1>5. CASE \/ Connect \/ TakeFinishedGames \/ AdvanceTime
           \/ \E c \in Connections, user \in Users : SignIn(c, user)
           \/ \E c \in Connections : SignOut(c)
           \/ UNCHANGED vars
  BY <1>5, UnchangedRoomsStay
     DEF Connect, TakeFinishedGames, AdvanceTime, SignIn, SignOut, vars
<1> QED
  BY <1>1, <1>2, <1>3, <1>4, <1>5 DEF Next

-----------------------------------------------------------------------------
LEMMA NextKeepsTime ==
    ASSUME IInv, GamesOnTime, [Next]_vars
    PROVE  GamesOnTime'
<1> SUFFICES ASSUME NEW g \in GameIds, rooms'[g] # None
             PROVE  OnTime(rooms'[g])
  BY DEF GamesOnTime, OpenGames, OnTime
<1>1. IF rooms[g] = None THEN OnTime(rooms'[g]) ELSE RoomStep(rooms'[g], rooms[g])
  BY NextStays DEF Stays, RoomsStep
<1> QED
  BY <1>1 DEF RoomStep, GamesOnTime, OpenGames

LEMMA NextKeepsOrder ==
    ASSUME IInv, GamesOrderly, [Next]_vars
    PROVE  GamesOrderly'
<1> SUFFICES ASSUME NEW g \in GameIds, rooms'[g] # None
             PROVE  Orderly(rooms'[g].game, Joined(rooms'[g]))
  BY DEF GamesOrderly, OpenGames, Orderly, Joined, Undecided
<1>1. rooms[g] = None => Orderly(rooms'[g].game, Joined(rooms'[g]))
  BY NextStays DEF Stays, RoomsStep
<1>2. rooms[g] # None => RoomStep(rooms'[g], rooms[g])
  BY NextStays DEF Stays, RoomsStep
<1> QED
  BY <1>1, <1>2 DEF RoomStep, GamesOrderly, OpenGames

LEMMA PlayInvariantHolds == Spec => []PlayInv
<1>1. Init => GamesOnTime
  BY DEF Init, GamesOnTime, OpenGames
<1> QED
  BY <1>1, NextKeepsTime, InvariantHolds, PTL DEF Spec, PlayInv

\* The clock of every timed game runs for the side to move exactly while the game
\* is active, whatever is played, offered, resigned or lost and however late the
\* clock is read.
THEOREM ClocksRun == Spec => []ClockRunsWhileActive
<1>1. PlayInv => ClockRunsWhileActive
  BY DEF PlayInv, GamesOnTime, OnTime, Timely, Started, Waiting, ClockRunsWhileActive,
         IsActive, Timed
<1> QED
  BY <1>1, PlayInvariantHolds, PTL

\* No time is lost or charged twice, for any time control: what both sides have left
\* is what they began with and earned, less the time since the second player came.
THEOREM TimeIsConserved == Spec => []ClockConservation
<1>1. PlayInv => ClockConservation
  <2> SUFFICES ASSUME PlayInv, NEW g \in OpenGames, rooms[g].game.clock.running # None
               PROVE  Started(rooms[g].game, rooms[g].started_at)
    BY DEF ClockConservation, Started
  <2> QED
    BY DEF PlayInv, GamesOnTime, OnTime, Timely, Waiting
<1> QED
  BY <1>1, PlayInvariantHolds, PTL

\* A game that is over keeps its result and its moves until its room is discarded.
THEOREM ResultsAreFinal == Spec => ResultIsFinal
<1>1. PlayInv /\ [Next]_vars =>
        [\A g \in GameIds :
          rooms[g] # None /\ rooms'[g] # None /\ Joined(rooms[g]) /\ IsOver(rooms[g].game)
          => /\ Outcome(rooms'[g].game) = Outcome(rooms[g].game)
             /\ rooms'[g].game.moves = rooms[g].game.moves]_vars
  <2>1. GamesOnTime => GamesOrderly
    BY TimelyIsOrderly DEF GamesOnTime, GamesOrderly, OnTime
  <2> QED
    BY <2>1, NextStays DEF PlayInv, GamesOrderly, OpenGames, Stays, RoomsStep, RoomStep
<1> QED
  BY <1>1, PlayInvariantHolds, PTL DEF Spec, ResultIsFinal

\* Whatever signs in, out or reconnects, a seat keeps the account it was taken
\* under, and that is the account the history gets.
THEOREM AccountsKeepTheirSeats == Spec => SeatsKeepTheirAccount
<1>1. IInv /\ [Next]_vars =>
        [/\ \A g \in GameIds, side \in Sides :
             rooms[g] # None /\ rooms'[g] # None /\ rooms[g].seats[side] # None
             => /\ rooms'[g].seats[side] # None
                /\ rooms'[g].seats[side].user = rooms[g].seats[side].user
         /\ \A record \in finished_games' \ finished_games :
             \A side \in Sides :
                record.players[side] = rooms[record.game_id].seats[side].user]_vars
  BY NextStays DEF Stays, RoomsStep, RoomStep, RecordsNamePlayers
<1> QED
  BY <1>1, InvariantHolds, PTL DEF Spec, SeatsKeepTheirAccount
==============================================================================
