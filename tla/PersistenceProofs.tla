-------------------------- MODULE PersistenceProofs --------------------------
(***************************************************************************)
(* Proofs about what a restart brings back, for any number of processes,   *)
(* crashes, stops and failed writes: the maps of the hub agree again, a    *)
(* result that was saved is the result, a clean state is a saved one, the  *)
(* time the server was down is charged once, and a result that was marked  *)
(* is in the history or on its way there.                                  *)
(***************************************************************************)
EXTENDS Persistence, HubProofs

-----------------------------------------------------------------------------
(* The invariant                                                           *)

\* A room that was marked finished holds a game that is over.
Ended(room) == room.finished_at # None => Joined(room) /\ IsOver(room.game)

FinishedAreOver == \A g \in OpenGames : Ended(rooms[g])

\* A state that a hub whose maps agreed encoded, no later than t, of games among ids.
GoodFile(file, t, ids) ==
    /\ file.saved_at <= t
    /\ \A g \in GameIds : file.rooms[g] # None =>
          /\ g \in ids
          /\ ~file.rooms[g].joined => file.rooms[g].users["black"] = None
          /\ \A h \in GameIds :
                /\ file.rooms[h] # None
                /\ file.rooms[h].invite_code = file.rooms[g].invite_code
                => h = g

\* Whatever was encoded and is not torn.
Files == ({disk} \cup {writing[w] : w \in Writers}) \ {Torn}

FilesAreGood ==
    /\ disk \in Saved \cup {None, Torn}
    /\ writing \in [Writers -> Saved \cup {None}]
    /\ \A file \in Files : file # None => GoodFile(file, now, issued)

HubIsEmpty ==
    /\ rooms = [g \in GameIds |-> None]
    /\ invites = [k \in Codes |-> None]
    /\ memberships = [c \in Connections |-> None]
    /\ identities = [c \in Connections |-> None]
    /\ finished_games = {} /\ sockets = {} /\ next_connection_id = 1

DownMeansEmpty ==
    phase = "down" => HubIsEmpty /\ dirty = FALSE /\ writing = [w \in Writers |-> None]

RunningMeansUntold == phase = "running" => stop = "none"

PersistInv ==
    /\ IInv
    /\ FinishedAreOver
    /\ FilesAreGood
    /\ DownMeansEmpty
    /\ RunningMeansUntold
    /\ CleanMeansSaved

-----------------------------------------------------------------------------
(* Games that are over stay over                                           *)

\* Reading the clock may let a flag fall, and undoes nothing.
LEMMA SyncKeepsFlag ==
    ASSUME NEW c \in Clock, NEW t \in Nat
    PROVE  /\ c.flagged # None => Sync(c, t).flagged # None
           /\ Tick(c, t).flagged = Sync(c, t).flagged
           /\ Tick(c, t).initial = c.initial /\ Sync(c, t).initial = c.initial
           /\ Tick(c, t).increment = c.increment /\ Sync(c, t).increment = c.increment
<1>1. Tick(c, t).flagged = Sync(c, t).flagged /\ Tick(c, t).initial = Sync(c, t).initial
      /\ Tick(c, t).increment = Sync(c, t).increment
  BY SyncType, RememberShownSameTime DEF Tick, SameTime
<1>2. CASE c.running = None
  BY <1>1, <1>2 DEF Sync
<1>3. CASE c.running # None
  <2>1. c.running.side \in Sides
    BY <1>3 DEF Clock, Running
  <2>2. /\ Sync(c, t).flagged \in {c.running.side, c.flagged}
        /\ Sync(c, t).initial = c.initial /\ Sync(c, t).increment = c.increment
    BY <1>3 DEF Sync, Clock
  <2> QED
    BY <1>1, <2>1, <2>2, NoneAssumption
<1> QED
  BY <1>2, <1>3

LEMMA ChargedStaysOver ==
    ASSUME NEW game \in GameState, NEW clock \in Clock,
           game.clock.flagged # None => clock.flagged # None, IsOver(game)
    PROVE  IsOver([game EXCEPT !.clock = clock])
<1> DEFINE new == [game EXCEPT !.clock = clock]
<1> SUFFICES IsOver(new)
  OBVIOUS
<1>1. /\ new \in GameState /\ new.clock = clock
      /\ new.resigned = game.resigned /\ new.agreed_draw = game.agreed_draw
      /\ new.abandoned = game.abandoned /\ new.moves = game.moves /\ new.start = game.start
  BY DEF GameState
<1> HIDE DEF new
<1>2. CASE \/ new.resigned # None \/ new.agreed_draw
           \/ new.clock.flagged # None \/ new.abandoned # None
  BY <1>1, <1>2, DecidedIsOver
<1>3. CASE ~(\/ new.resigned # None \/ new.agreed_draw
             \/ new.clock.flagged # None \/ new.abandoned # None)
  BY <1>1, <1>3, SameVerdictSameOutcome DEF SameVerdict
<1> QED
  BY <1>2, <1>3

LEMMA ReadClockStaysEnded ==
    ASSUME NEW room \in Room, NEW t \in Nat, Ended(room)
    PROVE  /\ Ended(Settled(room, t))
           /\ Ended([room EXCEPT !.game.clock = Tick(@, t)])
           /\ [room EXCEPT !.game.clock = Tick(@, t)] \in Room
<1>0. room.game \in GameState /\ room.game.clock \in Clock
  BY DEF Room, GameState
<1>1. ASSUME NEW clock \in Clock, room.game.clock.flagged # None => clock.flagged # None
      PROVE  Ended([room EXCEPT !.game.clock = clock])
  <2> DEFINE game == [room.game EXCEPT !.clock = clock]
             new  == [room EXCEPT !.game = game]
  <2>1. IsOver(room.game) => IsOver(game)
    BY <1>0, <1>1, ChargedStaysOver
  <2>2. new = [room EXCEPT !.game.clock = clock]
    BY DEF Room
  <2> HIDE DEF game
  <2>3. new.game = game /\ new.finished_at = room.finished_at /\ new.seats = room.seats
    BY DEF Room
  <2> QED
    BY <2>1, <2>2, <2>3 DEF Ended, Joined
<1>2. Sync(room.game.clock, t) \in Clock /\ Tick(room.game.clock, t) \in Clock
  BY <1>0, SyncType, TickType
<1>3. [room EXCEPT !.game.clock = Tick(@, t)] \in Room
  BY TickedKeepsSeats DEF SameSeats
<1> QED
  BY <1>0, <1>1, <1>2, <1>3, SyncKeepsFlag DEF Settled

LEMMA OneRoomStaysEnded ==
    ASSUME FinishedAreOver, NEW g \in GameIds, NEW room, Ended(room),
           \A h \in GameIds : h # g => rooms'[h] = rooms[h], rooms'[g] = room
    PROVE  FinishedAreOver'
BY DEF FinishedAreOver, OpenGames, Ended

LEMMA RefusalKeepsEnded ==
    ASSUME FinishedAreOver, NEW c, NEW code, Refuse(c, code)
    PROVE  FinishedAreOver'
BY DEF Refuse, FinishedAreOver, OpenGames, Ended

\* A room that has not been marked finished is not marked by a request.
LEMMA UnmarkedIsEnded ==
    ASSUME NEW room, NEW t, "finished_at" \in DOMAIN room, room.finished_at = None
    PROVE  Ended(Settled(room, t))
BY DEF Ended, Settled

LEMMA ActiveIsUnmarked ==
    ASSUME NEW room, Ended(room), ~Joined(room) \/ IsActive(room)
    PROVE  room.finished_at = None
BY DEF Ended, IsActive

LEMMA CreateGameKeepsEnded ==
    ASSUME IInv, FinishedAreOver, NEW c \in Connections, NEW name_ok \in BOOLEAN,
           NEW tc \in TimeControls, CreateGame(c, name_ok, tc)
    PROVE  FinishedAreOver'
<1>1. CASE Refuse(c, "InvalidRequest")
  BY <1>1, RefusalKeepsEnded
<1>2. CASE ~Refuse(c, "InvalidRequest")
  <2> DEFINE game == NewGame("white", tc.initial, tc.increment, now)
             room(k) == [invite_code |-> k,
                         game  |-> [game EXCEPT !.clock = Pause(@, now)],
                         seats |-> [s \in Sides |->
                                      IF s = "white" THEN NewSlot(identities[c], c) ELSE None],
                         started_at  |-> 0,
                         finished_at |-> None]
  <2>1. PICK g \in GameIds \ issued, k \in Codes : rooms' = [rooms EXCEPT ![g] = room(k)]
    BY <1>2 DEF CreateGame
  <2>2. Ended(room(k))
    BY DEF Ended
  <2> HIDE DEF room
  <2> QED
    BY <2>1, <2>2, OneRoomStaysEnded DEF IInv, TypeOK
<1> QED
  BY <1>1, <1>2

LEMMA JoinGameKeepsEnded ==
    ASSUME IInv, FinishedAreOver, NEW c \in Connections, NEW name_ok \in BOOLEAN,
           NEW k \in Codes, JoinGame(c, name_ok, k)
    PROVE  FinishedAreOver'
<1>1. CASE \E code : Refuse(c, code)
  BY <1>1, RefusalKeepsEnded
<1>2. CASE ~\E code : Refuse(c, code)
  <2> DEFINE g == invites[k]
             room == [rooms[g] EXCEPT !.seats["black"] = NewSlot(identities[c], c),
                                      !.started_at = now,
                                      !.game = Begun(@, now)]
  <2>1. /\ g # None /\ ~Joined(rooms[g])
        /\ rooms' = [rooms EXCEPT ![g] = Settled(room, now)]
    BY <1>2 DEF JoinGame
  <2>2. g \in GameIds /\ rooms[g] \in Room /\ rooms[g] # None
    BY <2>1 DEF IInv, TypeOK, MapsAgree, InvitesMatchRooms
  <2>3. rooms[g].finished_at = None
    BY <2>1, <2>2, ActiveIsUnmarked DEF FinishedAreOver, OpenGames
  <2>4. "finished_at" \in DOMAIN room /\ room.finished_at = None
    BY <2>2, <2>3 DEF Room
  <2> HIDE DEF g, room
  <2> QED
    BY <2>1, <2>2, <2>4, UnmarkedIsEnded, OneRoomStaysEnded DEF IInv, TypeOK
<1> QED
  BY <1>1, <1>2

LEMMA ReconnectKeepsEnded ==
    ASSUME IInv, FinishedAreOver, NEW c \in Connections, NEW g \in GameIds, NEW token,
           Reconnect(c, g, token)
    PROVE  FinishedAreOver'
<1>1. CASE \E code : Refuse(c, code)
  BY <1>1, RefusalKeepsEnded
<1>2. CASE ~\E code : Refuse(c, code)
  <2>1. PICK side \in Sides :
            /\ rooms[g] # None /\ rooms[g].seats[side] # None
            /\ rooms' = [rooms EXCEPT ![g] = Settled(Reseated(rooms[g], side, c), now)]
    BY <1>2 DEF Reconnect
  <2> DEFINE room == Reseated(rooms[g], side, c)
  <2>2. rooms[g] \in Room /\ now \in Nat
    BY <2>1 DEF IInv, TypeOK
  <2>3. /\ room \in Room /\ room.game = rooms[g].game
        /\ room.finished_at = rooms[g].finished_at
        /\ Joined(room) <=> Joined(rooms[g])
    <3> DEFINE slot == [rooms[g].seats[side] EXCEPT !.connection = c, !.disconnected_at = None]
    <3>1. rooms[g].seats[side] \in Slot
      BY <2>1, <2>2 DEF Room
    <3>2. slot \in Slot /\ slot # None
      BY <3>1, OptionAssumption DEF Slot
    <3>3. room = [rooms[g] EXCEPT !.seats = [@ EXCEPT ![side] = slot]]
      BY <2>2, <3>1 DEF Reseated, Room, Slot
    <3> HIDE DEF slot, room
    <3> QED
      BY <2>1, <2>2, <3>2, <3>3 DEF Room, Joined
  <2>4. Ended(room)
    BY <2>1, <2>3 DEF FinishedAreOver, OpenGames, Ended
  <2> HIDE DEF room
  <2>5. Ended(Settled(room, now))
    BY <2>2, <2>3, <2>4, ReadClockStaysEnded
  <2> QED
    BY <2>1, <2>5, OneRoomStaysEnded DEF room, IInv, TypeOK
<1> QED
  BY <1>1, <1>2

\* A member's change of an active game.
LEMMA PublishKeepsEnded ==
    ASSUME IInv, FinishedAreOver, NEW c \in Connections, NEW g, IsMember(c, g),
           IsActive(rooms[g]), NEW game, NEW t,
           Publish(g, [rooms[g] EXCEPT !.game = game], t)
    PROVE  FinishedAreOver'
<1> DEFINE room == [rooms[g] EXCEPT !.game = game]
<1>1. g \in GameIds /\ rooms[g] \in Room /\ rooms[g] # None
  BY MembersHaveRooms
<1>2. rooms[g].finished_at = None
  BY <1>1, ActiveIsUnmarked DEF FinishedAreOver, OpenGames
<1>3. "finished_at" \in DOMAIN room /\ room.finished_at = None
  BY <1>1, <1>2 DEF Room
<1>4. rooms' = [rooms EXCEPT ![g] = Settled(room, t)]
  BY DEF Publish
<1> HIDE DEF room
<1> QED
  BY <1>1, <1>3, <1>4, UnmarkedIsEnded, OneRoomStaysEnded DEF IInv, TypeOK

LEMMA PlayMoveKeepsEnded ==
    ASSUME IInv, FinishedAreOver, NEW c \in Connections, NEW g \in GameIds, NEW ply \in Nat,
           NEW move, NEW later \in Nat, PlayMove(c, g, ply, move, later)
    PROVE  FinishedAreOver'
<1>1. CASE RefuseStranger(c, g)
  BY <1>1, RefusalKeepsEnded DEF RefuseStranger
<1>2. CASE ~RefuseStranger(c, g)
  <2> DEFINE room == [rooms[g] EXCEPT !.game.clock = Tick(@, now)]
             reason == Rejection(room, memberships[c].side, ply, move)
  <2>1. /\ IsMember(c, g)
        /\ \/ rooms' = [rooms EXCEPT ![g] = Settled(room, later)]
           \/ /\ reason = None
              /\ \E game : rooms' = [rooms EXCEPT
                              ![g] = Settled([room EXCEPT !.game = game], later)]
    BY <1>2 DEF PlayMove, Publish
  <2>2. rooms[g] \in Room /\ rooms[g] # None /\ now \in Nat
    BY <2>1, MembersHaveRooms DEF IInv, TypeOK
  <2>3. room \in Room /\ Ended(room)
    BY <2>2, ReadClockStaysEnded DEF FinishedAreOver, OpenGames
  <2>4. reason = None => room.finished_at = None
    <3>1. reason = None => IsActive(room)
      BY OptionAssumption DEF Rejection, Reasons
    <3> QED
      BY <2>3, <3>1, ActiveIsUnmarked
  <2> HIDE DEF room, reason
  <2>5. CASE rooms' = [rooms EXCEPT ![g] = Settled(room, later)]
    BY <2>3, <2>5, ReadClockStaysEnded, OneRoomStaysEnded DEF IInv, TypeOK
  <2>6. ASSUME reason = None, NEW game,
               rooms' = [rooms EXCEPT ![g] = Settled([room EXCEPT !.game = game], later)]
        PROVE  FinishedAreOver'
    <3> DEFINE played == [room EXCEPT !.game = game]
    <3>1. "finished_at" \in DOMAIN played /\ played.finished_at = None
      BY <2>3, <2>4, <2>6 DEF Room
    <3> HIDE DEF played
    <3>2. Ended(Settled(played, later))
      BY <3>1, UnmarkedIsEnded
    <3> QED
      BY <2>6, <3>2, OneRoomStaysEnded DEF played, IInv, TypeOK
  <2> QED
    BY <2>1, <2>5, <2>6
<1> QED
  BY <1>1, <1>2

LEMMA RequestKeepsEnded ==
    ASSUME IInv, FinishedAreOver, NEW c \in Connections, GameRequest(c)
    PROVE  FinishedAreOver'
<1>1. ASSUME NEW name_ok \in BOOLEAN, NEW tc \in TimeControls, CreateGame(c, name_ok, tc)
      PROVE  FinishedAreOver'
  BY <1>1, CreateGameKeepsEnded
<1>2. ASSUME NEW name_ok \in BOOLEAN, NEW k \in Codes, JoinGame(c, name_ok, k)
      PROVE  FinishedAreOver'
  BY <1>2, JoinGameKeepsEnded
<1>3. ASSUME NEW g \in GameIds, NEW token \in Tokens, Reconnect(c, g, token)
      PROVE  FinishedAreOver'
  BY <1>3, ReconnectKeepsEnded
<1>4. ASSUME NEW g \in GameIds, NEW ply \in 0..MaxPly, NEW move \in MoveKinds \cup {"illegal"},
             NEW later \in now..MaxTime, PlayMove(c, g, ply, move, later)
      PROVE  FinishedAreOver'
  <2>1. ply \in Nat /\ later \in Nat
    BY HubAssumption DEF IInv, TypeOK
  <2> QED
    BY <1>4, <2>1, PlayMoveKeepsEnded
<1>5. ASSUME NEW g \in GameIds,
             \/ OfferDraw(c, g) \/ Resign(c, g)
             \/ \E accept \in BOOLEAN : RespondDraw(c, g, accept)
      PROVE  FinishedAreOver'
  <2>1. CASE \E code : Refuse(c, code)
    BY <2>1, RefusalKeepsEnded
  <2>2. CASE ~\E code : Refuse(c, code)
    <3>1. /\ IsMember(c, g) /\ IsActive(rooms[g])
          /\ \E game : Publish(g, [rooms[g] EXCEPT !.game = game], now)
      BY <1>5, <2>2 DEF OfferDraw, Resign, RespondDraw, RefuseStranger, MayAnswerDraw
    <3> QED
      BY <3>1, PublishKeepsEnded
  <2> QED
    BY <2>1, <2>2
<1> QED
  BY <1>1, <1>2, <1>3, <1>4, <1>5 DEF GameRequest

LEMMA DisconnectKeepsEnded ==
    ASSUME IInv, FinishedAreOver, NEW c \in Connections, Disconnect(c)
    PROVE  FinishedAreOver'
<1>1. CASE memberships[c] = None
  BY <1>1 DEF Disconnect, FinishedAreOver, OpenGames, Ended
<1>2. CASE memberships[c] # None
  <2> DEFINE g == memberships[c].game_id
             side == memberships[c].side
             room == Vacated(rooms[g], side, c, now)
  <2>1. g \in GameIds /\ side \in Sides /\ rooms[g] \in Room /\ rooms[g] # None
    BY <1>2, MembersHaveRooms DEF IsMember
  <2>2. rooms' = [rooms EXCEPT ![g] = room]
    BY <1>2, <2>1 DEF Disconnect
  <2>3. /\ room.game = rooms[g].game /\ room.finished_at = rooms[g].finished_at
        /\ Joined(room) <=> Joined(rooms[g])
    <3>1. CASE room = rooms[g]
      BY <3>1
    <3>2. CASE room # rooms[g]
      <4> DEFINE slot == [rooms[g].seats[side] EXCEPT !.connection = None,
                                                      !.disconnected_at = now]
      <4>1. rooms[g].seats[side] # None
        BY <3>2 DEF Vacated, IsConnected
      <4>2. rooms[g].seats[side] \in Slot /\ now \in Nat
        BY <2>1, <4>1 DEF Room, IInv, TypeOK
      <4>3. slot \in Slot /\ slot # None
        BY <4>2, OptionAssumption DEF Slot
      <4>4. room = [rooms[g] EXCEPT !.seats = [@ EXCEPT ![side] = slot]]
        BY <2>1, <3>2, <4>2 DEF Vacated, Room, Slot
      <4> HIDE DEF slot, room, g, side
      <4> QED
        BY <2>1, <4>1, <4>3, <4>4 DEF Room, Joined
    <3> QED
      BY <3>1, <3>2
  <2>4. Ended(room)
    BY <2>1, <2>3 DEF FinishedAreOver, OpenGames, Ended
  <2> HIDE DEF room, g
  <2> QED
    BY <2>1, <2>2, <2>4, OneRoomStaysEnded DEF IInv, TypeOK
<1> QED
  BY <1>1, <1>2

\* A forfeit decides the game it is about.
LEMMA EnforcedRoom ==
    ASSUME NEW room \in Room, NEW t \in Nat
    PROVE  LET ticked == [room EXCEPT !.game.clock = Tick(@, t)]
           IN  /\ Enforced(room, t) \in Room
               /\ Joined(Enforced(room, t)) <=> Joined(room)
               /\ Enforced(room, t).finished_at = room.finished_at
               /\ Forfeiters(room, t) = {} => Enforced(room, t) = ticked
               /\ Forfeiters(room, t) # {} => /\ IsActive(room)
                                              /\ ~IsActive(Enforced(room, t))
<1> DEFINE ticked == [room EXCEPT !.game.clock = Tick(@, t)]
           gone == IF "white" \in Forfeiters(room, t) THEN "white" ELSE "black"
           game == Abandoned(ticked.game, gone, t)
<1>1. /\ ticked \in Room /\ ticked.seats = room.seats
      /\ ticked.finished_at = room.finished_at
  BY TickedKeepsSeats DEF SameSeats, Room
<1>2. game \in GameState /\ gone \in Sides
  <2> HIDE DEF ticked
  <2>1. ticked.game \in GameState /\ gone \in Sides
    BY <1>1 DEF Room, Sides
  <2> HIDE DEF gone
  <2> QED
    BY <2>1, AbandonedType
<1>3. IsOver(game)
  <2>1. ticked.game \in GameState
    BY <1>1 DEF Room
  <2> HIDE DEF ticked, gone
  <2>2. game.abandoned = gone
    BY <2>1 DEF Abandoned, Changed, GameState
  <2> HIDE DEF game
  <2> QED
    BY <1>2, <2>2, DecidedIsOver, NoneAssumption
<1>4. Enforced(room, t) = IF Forfeiters(room, t) = {} THEN ticked
                          ELSE [ticked EXCEPT !.game = game]
  BY DEF Enforced
<1> HIDE DEF ticked, game, gone
<1>5. /\ [ticked EXCEPT !.game = game] \in Room
      /\ [ticked EXCEPT !.game = game].game = game
      /\ [ticked EXCEPT !.game = game].seats = room.seats
      /\ [ticked EXCEPT !.game = game].finished_at = room.finished_at
  BY <1>1, <1>2 DEF Room
<1>6. Forfeiters(room, t) # {} => IsActive(room)
  BY DEF Forfeiters
<1> QED
  BY <1>1, <1>3, <1>4, <1>5, <1>6 DEF Joined, IsActive, ticked

LEMMA TickedRoomEnds ==
    ASSUME NEW room \in Room, NEW t \in Nat, Ended(room)
    PROVE  Ended(TickedRoom(room, t))
<1> DEFINE enforced == Enforced(room, t)
<1>1. enforced \in Room /\ (Joined(enforced) <=> Joined(room))
      /\ enforced.finished_at = room.finished_at
  BY EnforcedRoom
<1>2. CASE Finishes(room, t)
  <2> DEFINE ended == [enforced EXCEPT !.finished_at = t]
  <2>1. Joined(enforced) /\ IsOver(enforced.game)
    BY <1>1, <1>2 DEF Finishes, IsActive
  <2>2. ended.game = enforced.game /\ ended.seats = enforced.seats
    BY <1>1 DEF Room
  <2> HIDE DEF enforced, ended
  <2>3. Ended(ended)
    BY <2>1, <2>2 DEF Ended, Joined
  <2> QED
    BY <1>2, <2>3 DEF TickedRoom, ended, enforced
<1>3. CASE ~Finishes(room, t) /\ room.finished_at = None
  BY <1>1, <1>3 DEF TickedRoom, Ended
<1>4. CASE ~Finishes(room, t) /\ room.finished_at # None
  <2>1. ~IsActive(room)
    BY <1>4 DEF Ended, IsActive
  <2>2. Forfeiters(room, t) = {}
    BY <2>1, EnforcedRoom
  <2>3. Ended(enforced)
    BY <2>2, EnforcedRoom, ReadClockStaysEnded
  <2> QED
    BY <1>4, <2>3 DEF TickedRoom
<1> QED
  BY <1>2, <1>3, <1>4

LEMMA NextKeepsEnded ==
    ASSUME IInv, FinishedAreOver, [Next]_vars
    PROVE  FinishedAreOver'
<1>1. ASSUME NEW c \in Connections, Disconnect(c)  PROVE FinishedAreOver'
  BY <1>1, DisconnectKeepsEnded
<1>2. ASSUME NEW c \in Connections, GameRequest(c)  PROVE FinishedAreOver'
  BY <1>2, RequestKeepsEnded
<1>3. CASE TickAt
  <2>1. ASSUME NEW g \in GameIds, rooms'[g] # None
        PROVE  rooms[g] # None /\ rooms[g] \in Room /\ rooms'[g] = TickedRoom(rooms[g], now)
    BY <1>3, <2>1 DEF TickAt, OpenGames, IInv, TypeOK
  <2>2. now \in Nat
    BY DEF IInv, TypeOK
  <2> QED
    BY <2>1, <2>2, TickedRoomEnds DEF FinishedAreOver, OpenGames, Ended
<1>4. CASE EncodeIfDirty
  <2>1. ASSUME NEW g \in GameIds, rooms'[g] # None
        PROVE  rooms[g] # None /\ rooms[g] \in Room /\ rooms'[g] = Settled(rooms[g], now)
    BY <1>4, <2>1 DEF EncodeIfDirty, IInv, TypeOK
  <2>2. now \in Nat
    BY DEF IInv, TypeOK
  <2> QED
    BY <2>1, <2>2, ReadClockStaysEnded DEF FinishedAreOver, OpenGames, Ended
<1>5. CASE \/ Connect \/ TakeFinishedGames \/ AdvanceTime
           \/ \E c \in Connections, user \in Users : SignIn(c, user)
           \/ \E c \in Connections : SignOut(c)
           \/ UNCHANGED vars
  <2>1. rooms' = rooms
    BY <1>5 DEF Connect, TakeFinishedGames, AdvanceTime, SignIn, SignOut, vars
  <2> QED
    BY <2>1 DEF FinishedAreOver, OpenGames, Ended
<1> QED
  BY <1>1, <1>2, <1>3, <1>4, <1>5 DEF Next

-----------------------------------------------------------------------------
(* The state file                                                          *)

LEMMA CaptureType ==
    ASSUME NEW room \in Room
    PROVE  /\ Capture(room) \in SavedRoom
           /\ Capture(room).invite_code = room.invite_code
           /\ ~Capture(room).joined => Capture(room).users["black"] = None
<1>1. /\ room.game \in GameState /\ room.game.clock \in Clock
      /\ \A s \in Sides : room.seats[s] # None => room.seats[s].user \in Users \cup {None}
  BY DEF Room, GameState, Slot
<1>2. /\ (IF room.game.clock.running = None THEN None ELSE room.game.clock.running.side)
            \in Sides \cup {None}
      /\ room.game.clock.initial \in Nat \cup {None} /\ room.game.clock.increment \in Nat
      /\ room.game.clock.remaining \in [Sides -> Nat]
  BY <1>1 DEF Clock, Running
<1>3. /\ room.game.revision \in Nat /\ room.game.moves \in Seq(MoveKinds)
      /\ room.game.resigned \in Sides \cup {None}
      /\ room.game.draw_offer \in Sides \cup {None}
      /\ room.game.agreed_draw \in BOOLEAN /\ room.game.abandoned \in Sides \cup {None}
      /\ room.invite_code \in Codes /\ room.started_at \in Nat
  BY <1>1 DEF GameState, Room
<1>4. [s \in Sides |-> IF room.seats[s] = None THEN None ELSE room.seats[s].user]
          \in [Sides -> Users \cup {None}]
  BY <1>1
<1>5. Joined(room) \in BOOLEAN
  BY DEF Joined
<1> DEFINE running == IF room.game.clock.running = None THEN None
                      ELSE room.game.clock.running.side
           users == [s \in Sides |-> IF room.seats[s] = None THEN None
                                     ELSE room.seats[s].user]
<1>6. ~Joined(room) => users["black"] = None
  BY DEF Joined, Sides
<1>7. Capture(room) =
        [invite_code |-> room.invite_code, revision |-> room.game.revision,
         moves |-> room.game.moves, initial |-> room.game.clock.initial,
         increment |-> room.game.clock.increment,
         remaining |-> room.game.clock.remaining, running |-> running,
         users |-> users, joined |-> Joined(room), resigned |-> room.game.resigned,
         draw_offer |-> room.game.draw_offer, agreed_draw |-> room.game.agreed_draw,
         abandoned |-> room.game.abandoned, started_at |-> room.started_at]
  BY DEF Capture
<1> HIDE DEF running, users
<1>8. running \in Sides \cup {None} /\ users \in [Sides -> Users \cup {None}]
  BY <1>2, <1>4 DEF running, users
<1> QED
  BY <1>2, <1>3, <1>5, <1>6, <1>7, <1>8 DEF SavedRoom

LEMMA EncodedIsGood ==
    ASSUME IInv
    PROVE  Encoded(now) \in Saved /\ GoodFile(Encoded(now), now, issued)
<1> DEFINE file == Encoded(now)
<1>1. now \in Nat
  BY DEF IInv, TypeOK
<1>2. ASSUME NEW g \in GameIds, rooms[g] # None
      PROVE  /\ file.rooms[g] = Capture(Settled(rooms[g], now))
             /\ file.rooms[g] \in SavedRoom
             /\ file.rooms[g].invite_code = rooms[g].invite_code
             /\ ~file.rooms[g].joined => file.rooms[g].users["black"] = None
  <2>1. rooms[g] \in Room
    BY <1>2 DEF IInv, TypeOK
  <2>2. SameSeats(Settled(rooms[g], now), rooms[g])
    BY <1>1, <2>1, SettledKeepsSeats
  <2>3. file.rooms[g] = Capture(Settled(rooms[g], now))
    BY <1>2 DEF Encoded
  <2> HIDE DEF file
  <2> QED
    BY <2>2, <2>3, CaptureType DEF SameSeats
<1>3. ASSUME NEW g \in GameIds
      PROVE  rooms[g] = None <=> file.rooms[g] = None
  BY <1>2, <1>3, SavedAssumption DEF Encoded
<1>4. file.saved_at = now
  BY DEF Encoded
<1>5. file \in Saved
  BY <1>1, <1>2, <1>3 DEF Encoded, Saved
<1> HIDE DEF file
<1>6. ASSUME NEW g \in GameIds, file.rooms[g] # None
      PROVE  /\ g \in issued
             /\ \A h \in GameIds :
                   /\ file.rooms[h] # None
                   /\ file.rooms[h].invite_code = file.rooms[g].invite_code
                   => h = g
  BY <1>2, <1>3, <1>6 DEF IInv, MapsAgree, InvitesMatchRooms, RoomsWereIssued, OpenGames
<1>7. GoodFile(file, now, issued)
  BY <1>1, <1>2, <1>3, <1>4, <1>6 DEF GoodFile
<1> QED
  BY <1>5, <1>7 DEF file

\* Time goes on and games stay issued: a good file stays one.
Grows == now \in Nat /\ now' \in Nat /\ now <= now' /\ issued \subseteq issued'

LEMMA GoodFileStays ==
    ASSUME Grows, NEW file \in Saved, GoodFile(file, now, issued)
    PROVE  GoodFile(file, now', issued')
BY DEF Grows, GoodFile, Saved

-----------------------------------------------------------------------------
(* Restarting                                                              *)

LEMMA LeftType ==
    ASSUME NEW saved \in SavedRoom, NEW d \in Nat
    PROVE  Left(saved, d) \in [Sides -> Nat]
<1>1. \A s \in Sides : saved.remaining[s] \in Nat
  BY DEF SavedRoom
<1>2. \A s \in Sides : SaturatingSub(saved.remaining[s], d) \in Nat
  BY <1>1, SubtractionSaturates
<1> QED
  BY <1>1, <1>2 DEF Left

LEMMA RestoreType ==
    ASSUME NEW c \in Clock, NEW left \in [Sides -> Nat], NEW side \in Sides,
           NEW runs, NEW t \in Nat
    PROVE  /\ Restore(c, left, side, runs, t) \in Clock
           /\ Restore(c, left, side, runs, t).initial = c.initial
           /\ Restore(c, left, side, runs, t).increment = c.increment
           /\ Restore(c, left, side, runs, t).remaining = left
           /\ Restore(c, left, side, runs, t).flagged = None
           /\ Restore(c, left, side, runs, t).running =
                 IF c.initial # None /\ runs THEN [side |-> side, since |-> t] ELSE None
<1> DEFINE restored == [c EXCEPT !.remaining = left, !.flagged = None,
                           !.running = IF c.initial # None /\ runs
                                       THEN [side |-> side, since |-> t] ELSE None]
<1>1. restored \in Clock
  BY DEF Clock, Running
<1>2. /\ restored.initial = c.initial /\ restored.increment = c.increment
      /\ restored.remaining = left /\ restored.flagged = None
      /\ restored.running = IF c.initial # None /\ runs
                            THEN [side |-> side, since |-> t] ELSE None
  BY DEF Clock
<1>3. Restore(c, left, side, runs, t) = RememberShown(restored)
  BY DEF Restore
<1> HIDE DEF restored
<1> QED
  BY <1>1, <1>2, <1>3, RememberShownType, RememberShownSameTime DEF SameTime

\* Either side's flag falls while the server is down, or its clock goes on.
LEMMA RestoredClockType ==
    ASSUME NEW saved \in SavedRoom, NEW side \in Sides, NEW d \in Nat, NEW t \in Nat
    PROVE  LET clock == RestoredClock(saved, side, d, t)
           IN  /\ clock \in Clock
               /\ clock.initial = saved.initial /\ clock.increment = saved.increment
               /\ clock.remaining = Left(saved, d)
               /\ clock.running # None =>
                     /\ clock.running = [side |-> side, since |-> t]
                     /\ clock.flagged = None
                     /\ saved.running # None /\ saved.initial # None
                     /\ Left(saved, d)[saved.running] > 0
<1> DEFINE left == Left(saved, d)
           runs == saved.running # None /\ \A s \in Sides : left[s] > 0
           fresh == NewClock(saved.initial, saved.increment, side, t)
           clock == Restore(fresh, left, side, runs, t)
           fallen == [clock EXCEPT !.flagged = saved.running, !.running = None]
<1>1. left \in [Sides -> Nat]
  BY LeftType
<1>2. /\ saved.initial \in Nat \cup {None} /\ saved.increment \in Nat
      /\ saved.running \in Sides \cup {None}
  BY DEF SavedRoom
<1>3. fresh \in Clock /\ fresh.initial = saved.initial /\ fresh.increment = saved.increment
  BY <1>2, NewClockType DEF NewClock
<1>4. RestoredClock(saved, side, d, t) =
        IF saved.running # None /\ left[saved.running] = 0 /\ saved.initial # None
        THEN fallen ELSE clock
  BY DEF RestoredClock
<1> HIDE DEF left, fresh, runs
<1>5. /\ clock \in Clock /\ clock.initial = saved.initial
      /\ clock.increment = saved.increment /\ clock.remaining = left
      /\ clock.flagged = None
      /\ clock.running = IF saved.initial # None /\ runs
                         THEN [side |-> side, since |-> t] ELSE None
  BY <1>1, <1>3, RestoreType
<1> HIDE DEF clock
<1>6. /\ fallen \in Clock /\ fallen.initial = saved.initial
      /\ fallen.increment = saved.increment /\ fallen.remaining = left
      /\ fallen.running = None
  BY <1>2, <1>5 DEF Clock
<1> HIDE DEF fallen
<1>7. runs => saved.running # None /\ left[saved.running] > 0
  BY <1>2 DEF runs
<1>8. CASE saved.running # None /\ left[saved.running] = 0 /\ saved.initial # None
  <2>1. RestoredClock(saved, side, d, t) = fallen
    BY <1>4, <1>8
  <2> QED
    BY <1>6, <2>1 DEF left
<1>9. CASE ~(saved.running # None /\ left[saved.running] = 0 /\ saved.initial # None)
  <2>1. RestoredClock(saved, side, d, t) = clock
    BY <1>4, <1>9
  <2> QED
    BY <1>5, <1>7, <2>1 DEF left
<1> QED
  BY <1>8, <1>9

LEMMA RestoredGameType ==
    ASSUME NEW saved \in SavedRoom, NEW d \in Nat, NEW t \in Nat
    PROVE  LET game == RestoredGame(saved, d, t)
               mover == IF Len(saved.moves) % 2 = 0 THEN "white" ELSE "black"
           IN  /\ game \in GameState
               /\ game.start = "white" /\ game.moves = saved.moves
               /\ game.resigned = saved.resigned /\ game.draw_offer = saved.draw_offer
               /\ game.agreed_draw = saved.agreed_draw
               /\ game.abandoned = saved.abandoned /\ game.revision = saved.revision
               /\ game.clock = RestoredClock(saved, mover, d, t)
<1> DEFINE mover == IF Len(saved.moves) % 2 = 0 THEN "white" ELSE "black"
           replayed == [NewGame("white", saved.initial, saved.increment, t)
                           EXCEPT !.moves = saved.moves]
           clock == RestoredClock(saved, SideToMove(replayed), d, t)
<1>1. /\ saved.initial \in Nat \cup {None} /\ saved.increment \in Nat
      /\ saved.moves \in Seq(MoveKinds) /\ saved.revision \in Nat
      /\ saved.resigned \in Sides \cup {None} /\ saved.draw_offer \in Sides \cup {None}
      /\ saved.agreed_draw \in BOOLEAN /\ saved.abandoned \in Sides \cup {None}
  BY DEF SavedRoom
<1>2. /\ NewGame("white", saved.initial, saved.increment, t) \in GameState
      /\ NewGame("white", saved.initial, saved.increment, t).start = "white"
  BY <1>1, NewGameType DEF Sides, NewGame
<1>3. replayed \in GameState /\ replayed.start = "white" /\ replayed.moves = saved.moves
  BY <1>1, <1>2 DEF GameState
<1> HIDE DEF replayed
<1>4. SideToMove(replayed) = mover /\ mover \in Sides
  BY <1>3 DEF SideToMove, Flip, Sides
<1>5. clock \in Clock
  BY <1>4, RestoredClockType
<1>6. RestoredGame(saved, d, t) =
        [replayed EXCEPT !.clock = clock, !.resigned = saved.resigned,
            !.draw_offer = saved.draw_offer, !.agreed_draw = saved.agreed_draw,
            !.abandoned = saved.abandoned, !.revision = saved.revision]
  BY DEF RestoredGame, replayed
<1>7. clock = RestoredClock(saved, mover, d, t)
  BY <1>4
<1> HIDE DEF clock, mover
<1>8. LET game == [replayed EXCEPT !.clock = clock, !.resigned = saved.resigned,
            !.draw_offer = saved.draw_offer, !.agreed_draw = saved.agreed_draw,
            !.abandoned = saved.abandoned, !.revision = saved.revision]
      IN  /\ game \in GameState
          /\ game.start = "white" /\ game.moves = saved.moves
          /\ game.resigned = saved.resigned /\ game.draw_offer = saved.draw_offer
          /\ game.agreed_draw = saved.agreed_draw
          /\ game.abandoned = saved.abandoned /\ game.revision = saved.revision
          /\ game.clock = clock
  BY <1>1, <1>3, <1>5 DEF GameState
<1> QED
  BY <1>6, <1>7, <1>8 DEF mover

LEMMA RestoredRoomType ==
    ASSUME NEW saved \in SavedRoom, NEW d \in Nat, NEW t \in Nat,
           ~saved.joined => saved.users["black"] = None
    PROVE  LET room == RestoredRoom(saved, d, t)
           IN  /\ room \in Room
               /\ room.invite_code = saved.invite_code /\ room.finished_at = None
               /\ room.game = RestoredGame(saved, d, t)
               /\ room.started_at = saved.started_at
               /\ room.seats["white"] # None
               /\ Joined(room) = saved.joined
               /\ \A s \in Sides :
                     /\ room.seats[s] # None =>
                           /\ room.seats[s].connection = None
                           /\ room.seats[s].disconnected_at # None
                     /\ saved.users[s] = IF room.seats[s] = None THEN None
                                         ELSE room.seats[s].user
<1> DEFINE slot(s) == [user |-> saved.users[s], connection |-> None, disconnected_at |-> t]
           seats == [s \in Sides |-> RestoredSlot(saved, s, t)]
           game == RestoredGame(saved, d, t)
<1>1. /\ saved.users \in [Sides -> Users \cup {None}] /\ saved.joined \in BOOLEAN
      /\ saved.invite_code \in Codes /\ saved.started_at \in Nat
  BY DEF SavedRoom
<1>2. \A s \in Sides : slot(s) \in Slot /\ slot(s) # None
  BY <1>1, OptionAssumption DEF Slot
<1>3. \A s \in Sides : seats[s] = IF s = "black" /\ ~saved.joined THEN None ELSE slot(s)
  BY DEF RestoredSlot
<1>4. seats \in [Sides -> Slot \cup {None}]
  BY <1>2, <1>3
<1>5. game \in GameState
  BY RestoredGameType
<1>6. t # None
  BY NoneAssumption
<1>7. RestoredRoom(saved, d, t) =
        [invite_code |-> saved.invite_code, game |-> game, seats |-> seats,
         started_at |-> saved.started_at, finished_at |-> None]
  BY DEF RestoredRoom
<1>8. \A s \in Sides :
         /\ seats[s] # None => seats[s].connection = None /\ seats[s].disconnected_at # None
         /\ saved.users[s] = IF seats[s] = None THEN None ELSE seats[s].user
  <2> TAKE s \in Sides
  <2>1. CASE s = "black" /\ ~saved.joined
    BY <1>3, <2>1
  <2>2. CASE ~(s = "black" /\ ~saved.joined)
    <3>1. seats[s] = slot(s) /\ slot(s) # None
      BY <1>2, <1>3, <2>2
    <3> QED
      BY <1>6, <3>1
  <2> QED
    BY <2>1, <2>2
<1>9. seats["white"] # None /\ (seats["black"] # None <=> saved.joined)
  BY <1>2, <1>3 DEF Sides
<1> HIDE DEF seats, game
<1> QED
  BY <1>1, <1>4, <1>5, <1>7, <1>8, <1>9 DEF Room, Joined, game

\* What Start makes of the file.
LEMMA LoadedRooms ==
    ASSUME IInv, FilesAreGood, DownMeansEmpty, Start
    PROVE  /\ rooms \in [GameIds -> {None}]
           /\ rooms' \in [GameIds -> Room \cup {None}]
           /\ \A g \in GameIds :
                 IF disk = None \/ disk.rooms[g] = None THEN rooms'[g] = None
                 ELSE LET d == SaturatingSub(now, disk.saved_at)
                      IN  /\ d \in Nat
                          /\ disk.rooms[g] \in SavedRoom
                          /\ rooms'[g] = RestoredRoom(disk.rooms[g], d, now)
                          /\ rooms'[g] # None
                          /\ ~disk.rooms[g].joined => disk.rooms[g].users["black"] = None
<1>1. phase = "down" /\ rooms = [g \in GameIds |-> None]
  BY DEF Start, DownMeansEmpty, HubIsEmpty
<1>2. CASE disk = None
  BY <1>1, <1>2 DEF Start
<1>3. CASE disk # None
  <2> DEFINE d == SaturatingSub(now, disk.saved_at)
  <2>1. disk \in Saved /\ GoodFile(disk, now, issued) /\ now \in Nat
    BY <1>3 DEF FilesAreGood, Files, IInv, TypeOK, Start
  <2>2. disk.saved_at \in Nat /\ disk.rooms \in [GameIds -> SavedRoom \cup {None}]
    BY <2>1 DEF Saved
  <2>3. d \in Nat
    <3>1. disk.saved_at \in Int
      BY <2>2
    <3> QED
      BY <2>1, <3>1, SubtractionSaturates
  <2>4. rooms' = [g \in GameIds |-> IF disk.rooms[g] = None THEN None
                                    ELSE RestoredRoom(disk.rooms[g], d, now)]
    BY <1>3 DEF Start, Load
  <2> HIDE DEF d
  <2>5. ASSUME NEW g \in GameIds, disk.rooms[g] # None
        PROVE  /\ disk.rooms[g] \in SavedRoom
               /\ rooms'[g] = RestoredRoom(disk.rooms[g], d, now)
               /\ rooms'[g] \in Room /\ rooms'[g] # None
               /\ ~disk.rooms[g].joined => disk.rooms[g].users["black"] = None
    <3>1. /\ disk.rooms[g] \in SavedRoom
          /\ ~disk.rooms[g].joined => disk.rooms[g].users["black"] = None
      BY <2>1, <2>2, <2>5 DEF GoodFile
    <3>2. RestoredRoom(disk.rooms[g], d, now) \in Room
      BY <2>1, <2>3, <3>1, RestoredRoomType
    <3>3. rooms'[g] = RestoredRoom(disk.rooms[g], d, now)
      BY <2>4, <2>5
    <3> QED
      BY <3>1, <3>2, <3>3, OptionAssumption
  <2>6. \A g \in GameIds : disk.rooms[g] = None => rooms'[g] = None
    BY <2>4
  <2>7. rooms' \in [GameIds -> Room \cup {None}]
    BY <2>4, <2>5, <2>6
  <2> QED
    BY <1>1, <1>3, <2>3, <2>5, <2>6, <2>7 DEF d
<1> QED
  BY <1>2, <1>3

LEMMA LoadedInvites ==
    ASSUME IInv, FilesAreGood, DownMeansEmpty, Start
    PROVE  /\ invites' \in [Codes -> GameIds \cup {None}]
           /\ InvitesMatchRooms'
<1>1. CASE disk = None
  <2>1. UNCHANGED <<rooms, invites>>
    BY <1>1 DEF Start
  <2>2. InvitesMatchRooms'
    BY <2>1 DEF IInv, MapsAgree, InvitesMatchRooms, OpenGames
  <2> QED
    BY <2>1, <2>2 DEF IInv, TypeOK
<1>2. CASE disk # None
  <2> DEFINE holds(g, k) == disk.rooms[g] # None /\ disk.rooms[g].invite_code = k
  <2>1. invites' = [k \in Codes |-> IF \E g \in GameIds : holds(g, k)
                                    THEN CHOOSE g \in GameIds : holds(g, k) ELSE None]
    BY <1>2 DEF Start, Load
  <2>2. GoodFile(disk, now, issued) /\ now \in Nat
    BY <1>2 DEF FilesAreGood, Files, IInv, TypeOK, Start
  <2>3. ASSUME NEW g \in GameIds
        PROVE  /\ rooms'[g] # None <=> disk.rooms[g] # None
               /\ rooms'[g] # None =>
                     /\ rooms'[g].invite_code = disk.rooms[g].invite_code
                     /\ rooms'[g].invite_code \in Codes
    <3>1. CASE disk.rooms[g] = None
      BY <1>2, <3>1, LoadedRooms
    <3>2. CASE disk.rooms[g] # None
      <4> DEFINE d == SaturatingSub(now, disk.saved_at)
      <4>1. /\ d \in Nat /\ disk.rooms[g] \in SavedRoom /\ rooms'[g] # None
            /\ rooms'[g] = RestoredRoom(disk.rooms[g], d, now)
            /\ ~disk.rooms[g].joined => disk.rooms[g].users["black"] = None
        BY <1>2, <3>2, LoadedRooms
      <4> HIDE DEF d
      <4>2. RestoredRoom(disk.rooms[g], d, now).invite_code = disk.rooms[g].invite_code
        BY <2>2, <4>1, RestoredRoomType
      <4>3. disk.rooms[g].invite_code \in Codes
        BY <4>1 DEF SavedRoom
      <4> QED
        BY <3>2, <4>1, <4>2, <4>3
    <3> QED
      BY <3>1, <3>2
  <2>4. \A g \in GameIds, h \in GameIds, k \in Codes : holds(g, k) /\ holds(h, k) => g = h
    BY <2>2 DEF GoodFile
  <2>5. ASSUME NEW k \in Codes
        PROVE  /\ invites'[k] \in GameIds \cup {None}
               /\ \A g \in GameIds : holds(g, k) => invites'[k] = g
               /\ invites'[k] # None => invites'[k] \in GameIds /\ holds(invites'[k], k)
    <3>1. CASE ~\E g \in GameIds : holds(g, k)
      BY <2>1, <3>1
    <3>2. CASE \E g \in GameIds : holds(g, k)
      <4> DEFINE found == CHOOSE g \in GameIds : holds(g, k)
      <4>1. invites'[k] = found
        BY <2>1, <3>2
      <4>2. found \in GameIds /\ holds(found, k)
        BY <3>2
      <4> HIDE DEF found
      <4> QED
        BY <2>4, <4>1, <4>2
    <3> QED
      BY <3>1, <3>2
  <2>6. invites' \in [Codes -> GameIds \cup {None}]
    BY <2>1, <2>5
  <2>7. InvitesMatchRooms'
    BY <2>3, <2>5 DEF InvitesMatchRooms, OpenGames
  <2> QED
    BY <2>6, <2>7
<1> QED
  BY <1>1, <1>2

LEMMA StartKeepsInvariant ==
    ASSUME IInv, FilesAreGood, DownMeansEmpty, Start
    PROVE  IInv' /\ FinishedAreOver'
<1>1. /\ HubIsEmpty
      /\ UNCHANGED <<memberships, identities, finished_games, next_connection_id,
                     dirty, sockets, issued, now>>
  BY DEF Start, DownMeansEmpty
<1>2. ASSUME NEW g \in GameIds, rooms'[g] # None
      PROVE  /\ rooms'[g] \in Room /\ rooms'[g].finished_at = None
             /\ g \in issued /\ rooms'[g].seats["white"] # None
             /\ \A s \in Sides : rooms'[g].seats[s] # None =>
                   /\ rooms'[g].seats[s].connection = None
                   /\ rooms'[g].seats[s].disconnected_at # None
  <2> DEFINE d == SaturatingSub(now, disk.saved_at)
  <2>1. /\ disk # None /\ disk.rooms[g] # None /\ d \in Nat
        /\ disk.rooms[g] \in SavedRoom /\ rooms'[g] = RestoredRoom(disk.rooms[g], d, now)
        /\ ~disk.rooms[g].joined => disk.rooms[g].users["black"] = None
    BY <1>2, LoadedRooms
  <2>2. now \in Nat /\ GoodFile(disk, now, issued)
    BY <2>1 DEF FilesAreGood, Files, IInv, TypeOK, Start
  <2> HIDE DEF d
  <2>3. LET room == RestoredRoom(disk.rooms[g], d, now)
        IN  /\ room \in Room /\ room.finished_at = None /\ room.seats["white"] # None
            /\ \A s \in Sides : room.seats[s] # None =>
                  /\ room.seats[s].connection = None
                  /\ room.seats[s].disconnected_at # None
    BY <2>1, <2>2, RestoredRoomType
  <2> QED
    BY <2>1, <2>2, <2>3 DEF GoodFile
<1>3. TypeOK'
  BY <1>1, LoadedRooms, LoadedInvites DEF IInv, TypeOK
<1>4. SeatsMatchMemberships'
  <2>1. \A c \in Connections : c # None /\ memberships'[c] = None
    BY <1>1, NoneAssumption DEF HubIsEmpty, Connections
  <2>2. \A g \in GameIds, side \in Sides : [game_id |-> g, side |-> side] # None
    BY OptionAssumption DEF Membership
  <2> QED
    BY <1>2, <2>1, <2>2 DEF SeatsMatchMemberships, SitsAt
<1>5. AbsenceIsDated' /\ HostsAreSeated' /\ RoomsWereIssued'
  BY <1>1, <1>2 DEF AbsenceIsDated, HostsAreSeated, RoomsWereIssued, OpenGames
<1>6. FinishedAreOver'
  BY <1>2 DEF FinishedAreOver, Ended, OpenGames
<1> QED
  BY <1>3, <1>4, <1>5, <1>6, LoadedInvites DEF IInv, MapsAgree

-----------------------------------------------------------------------------
(* Clean means saved                                                       *)

\* What is saved of room, its clock aside, is what was saved of old.
SameRecord(room, old) ==
    /\ room.invite_code = old.invite_code /\ room.started_at = old.started_at
    /\ \A s \in Sides : /\ room.seats[s] = None <=> old.seats[s] = None
                        /\ old.seats[s] # None => room.seats[s].user = old.seats[s].user
    /\ room.game.revision = old.game.revision /\ room.game.moves = old.game.moves
    /\ room.game.draw_offer = old.game.draw_offer
    /\ room.game.resigned = old.game.resigned
    /\ room.game.agreed_draw = old.game.agreed_draw
    /\ room.game.abandoned = old.game.abandoned
    /\ room.game.clock.initial = old.game.clock.initial
    /\ room.game.clock.increment = old.game.clock.increment

\* Saved rooms that agree on all but their clocks.
SameSaved(saved, other) ==
    /\ saved.invite_code = other.invite_code /\ saved.revision = other.revision
    /\ saved.moves = other.moves /\ saved.initial = other.initial
    /\ saved.increment = other.increment /\ saved.users = other.users
    /\ saved.joined = other.joined /\ saved.resigned = other.resigned
    /\ saved.draw_offer = other.draw_offer /\ saved.agreed_draw = other.agreed_draw
    /\ saved.abandoned = other.abandoned /\ saved.started_at = other.started_at

LEMMA SameSavedSameDurable ==
    ASSUME NEW saved \in SavedRoom, NEW other \in SavedRoom, SameSaved(saved, other)
    PROVE  Durable(saved) = Durable(other)
BY DEF Durable, SavedRoom, SameSaved

LEMMA CaptureFields ==
    ASSUME NEW room
    PROVE  /\ Capture(room).invite_code = room.invite_code
           /\ Capture(room).revision = room.game.revision
           /\ Capture(room).moves = room.game.moves
           /\ Capture(room).initial = room.game.clock.initial
           /\ Capture(room).increment = room.game.clock.increment
           /\ Capture(room).users = [s \in Sides |-> IF room.seats[s] = None THEN None
                                                     ELSE room.seats[s].user]
           /\ Capture(room).joined = Joined(room)
           /\ Capture(room).resigned = room.game.resigned
           /\ Capture(room).draw_offer = room.game.draw_offer
           /\ Capture(room).agreed_draw = room.game.agreed_draw
           /\ Capture(room).abandoned = room.game.abandoned
           /\ Capture(room).started_at = room.started_at
BY DEF Capture

LEMMA SameRecordIsSaved ==
    ASSUME NEW room \in Room, NEW old \in Room, SameRecord(room, old)
    PROVE  Durable(Capture(room)) = Durable(Capture(old))
<1>1. Capture(room).users = Capture(old).users
  <2>1. [s \in Sides |-> IF room.seats[s] = None THEN None ELSE room.seats[s].user]
          = [s \in Sides |-> IF old.seats[s] = None THEN None ELSE old.seats[s].user]
    BY DEF SameRecord
  <2>2. \A r : Capture(r).users = [s \in Sides |-> IF r.seats[s] = None THEN None
                                                  ELSE r.seats[s].user]
    BY CaptureFields
  <2> QED
    BY <2>1, <2>2, Zenon
<1>2. Capture(room).joined = Capture(old).joined
  <2>1. Joined(room) = Joined(old)
    BY DEF SameRecord, Joined, Sides
  <2>2. \A r : Capture(r).joined = Joined(r)
    BY CaptureFields, Zenon
  <2> QED
    BY <2>1, <2>2, Zenon
<1>3. SameSaved(Capture(room), Capture(old))
  BY <1>1, <1>2, CaptureFields, Zenon DEF SameRecord, SameSaved
<1> QED
  BY <1>3, CaptureType, SameSavedSameDurable

LEMMA ReadClockSameRecord ==
    ASSUME NEW room \in Room, NEW t \in Nat
    PROVE  /\ SameRecord(Settled(room, t), room)
           /\ SameRecord([room EXCEPT !.game.clock = Tick(@, t)], room)
<1>1. room.game \in GameState /\ room.game.clock \in Clock
  BY DEF Room, GameState
<1>2. ASSUME NEW clock \in Clock, clock.initial = room.game.clock.initial,
             clock.increment = room.game.clock.increment
      PROVE  SameRecord([room EXCEPT !.game.clock = clock], room)
  BY <1>1, <1>2 DEF SameRecord, Room, GameState
<1> QED
  BY <1>1, <1>2, SyncType, TickType, SyncKeepsFlag DEF Settled

LEMMA VacatedSameRecord ==
    ASSUME NEW room \in Room, NEW side \in Sides, NEW c, NEW t \in Nat
    PROVE  /\ Vacated(room, side, c, t) \in Room
           /\ SameRecord(Vacated(room, side, c, t), room)
<1> DEFINE slot == [room.seats[side] EXCEPT !.connection = None, !.disconnected_at = t]
<1>1. CASE Vacated(room, side, c, t) = room
  BY <1>1 DEF SameRecord
<1>2. CASE Vacated(room, side, c, t) # room
  <2>1. room.seats[side] # None
    BY <1>2 DEF Vacated, IsConnected
  <2>2. room.seats[side] \in Slot
    BY <2>1 DEF Room
  <2>3. slot \in Slot /\ slot # None /\ slot.user = room.seats[side].user
    BY <2>2, OptionAssumption DEF Slot
  <2>4. Vacated(room, side, c, t) = [room EXCEPT !.seats = [@ EXCEPT ![side] = slot]]
    BY <1>2, <2>2 DEF Vacated, Room, Slot
  <2> HIDE DEF slot
  <2> QED
    BY <2>1, <2>3, <2>4 DEF SameRecord, Room
<1> QED
  BY <1>1, <1>2

\* A tick that leaves the state clean has only read the clock.
LEMMA UnforfeitedSameRecord ==
    ASSUME NEW room \in Room, NEW t \in Nat, Ended(room),
           Finishes(room, t) => ~IsActive(room)
    PROVE  SameRecord(TickedRoom(room, t), room)
<1> DEFINE ticked == [room EXCEPT !.game.clock = Tick(@, t)]
<1>1. Forfeiters(room, t) = {}
  <2> SUFFICES ASSUME Forfeiters(room, t) # {} PROVE FALSE
    OBVIOUS
  <2>1. IsActive(room) /\ ~IsActive(Enforced(room, t))
    BY EnforcedRoom
  <2>2. Joined(room) /\ room.finished_at = None
    BY <2>1 DEF Ended, IsActive
  <2>3. Finishes(room, t)
    BY <2>1, <2>2 DEF Finishes
  <2> QED
    BY <2>1, <2>3
<1>2. Enforced(room, t) = ticked /\ ticked \in Room /\ SameRecord(ticked, room)
  BY <1>1, EnforcedRoom, ReadClockSameRecord
<1> HIDE DEF ticked
<1>3. TickedRoom(room, t) \in {ticked, [ticked EXCEPT !.finished_at = t]}
  BY <1>2 DEF TickedRoom
<1>4. SameRecord([ticked EXCEPT !.finished_at = t], room)
  BY <1>2 DEF SameRecord, Room
<1> QED
  BY <1>2, <1>3, <1>4

LEMMA RestoredSameRecord ==
    ASSUME NEW saved \in SavedRoom, NEW d \in Nat, NEW t \in Nat,
           ~saved.joined => saved.users["black"] = None
    PROVE  Durable(Capture(RestoredRoom(saved, d, t))) = Durable(saved)
<1> DEFINE room == RestoredRoom(saved, d, t)
           mover == IF Len(saved.moves) % 2 = 0 THEN "white" ELSE "black"
<1>1. /\ room.invite_code = saved.invite_code /\ room.started_at = saved.started_at
      /\ room.game = RestoredGame(saved, d, t) /\ Joined(room) = saved.joined
      /\ \A s \in Sides : saved.users[s] = IF room.seats[s] = None THEN None
                                           ELSE room.seats[s].user
  BY RestoredRoomType
<1> HIDE DEF room
<1>2. mover \in Sides
  BY DEF Sides
<1>3. LET game == RestoredGame(saved, d, t)
      IN  /\ game.moves = saved.moves /\ game.resigned = saved.resigned
          /\ game.draw_offer = saved.draw_offer /\ game.agreed_draw = saved.agreed_draw
          /\ game.abandoned = saved.abandoned /\ game.revision = saved.revision
          /\ game.clock = RestoredClock(saved, mover, d, t)
  BY RestoredGameType
<1> HIDE DEF mover
<1>4. room.game.clock.initial = saved.initial /\ room.game.clock.increment = saved.increment
  <2>1. LET clock == RestoredClock(saved, mover, d, t)
        IN  clock.initial = saved.initial /\ clock.increment = saved.increment
    BY <1>2, RestoredClockType
  <2> QED
    BY <1>1, <1>3, <2>1, Zenon
<1>5. [s \in Sides |-> IF room.seats[s] = None THEN None ELSE room.seats[s].user]
        = saved.users
  <2>1. saved.users \in [Sides -> Users \cup {None}]
    BY DEF SavedRoom
  <2> QED
    BY <1>1, <2>1
<1>6. SameSaved(Capture(room), saved)
  <2>1. /\ Capture(room).invite_code = room.invite_code
        /\ Capture(room).revision = room.game.revision
        /\ Capture(room).moves = room.game.moves
        /\ Capture(room).initial = room.game.clock.initial
        /\ Capture(room).increment = room.game.clock.increment
        /\ Capture(room).resigned = room.game.resigned
        /\ Capture(room).draw_offer = room.game.draw_offer
        /\ Capture(room).agreed_draw = room.game.agreed_draw
        /\ Capture(room).abandoned = room.game.abandoned
        /\ Capture(room).started_at = room.started_at
    BY CaptureFields
  <2>2. Capture(room).users = saved.users
    <3>1. Capture(room).users = [s \in Sides |-> IF room.seats[s] = None THEN None
                                                 ELSE room.seats[s].user]
      BY CaptureFields
    <3> QED
      BY <1>5, <3>1, Zenon
  <2>3. Capture(room).joined = saved.joined
    <3>1. Capture(room).joined = Joined(room)
      BY CaptureFields, Zenon
    <3> QED
      BY <1>1, <3>1, Zenon
  <2> QED
    BY <1>1, <1>3, <1>4, <2>1, <2>2, <2>3, Zenon DEF SameSaved
<1>7. room \in Room
  BY RestoredRoomType DEF room
<1> QED
  BY <1>6, <1>7, CaptureType, SameSavedSameDurable DEF room

-----------------------------------------------------------------------------
(* The steps of the process                                                *)

\* A step of the stores that leaves the hub alone but for its dirty flag.
HubRests ==
    /\ UNCHANGED <<rooms, invites, memberships, identities, finished_games,
                   next_connection_id, sockets, issued, now>>
    /\ dirty' \in BOOLEAN

LEMMA PersistenceSteps ==
    ASSUME IInv, [PersistenceNext]_allVars
    PROVE  \/ [Next]_vars /\ starts' = starts
           \/ HubRests /\ starts' = starts
           \/ HubIsLost
           \/ Start
<1> USE DEF storeVars
<1>1. ASSUME HubStep PROVE [Next]_vars /\ starts' = starts
  BY <1>1 DEF HubStep, Next
<1>2. ASSUME TickerTicks PROVE [Next]_vars /\ starts' = starts
  BY <1>2 DEF TickerTicks, Next
<1>3. ASSUME PersisterEncodes PROVE [Next]_vars /\ starts' = starts
  BY <1>3 DEF PersisterEncodes, Next
<1>4. ASSUME ShutdownEncodes PROVE [Next]_vars /\ starts' = starts
  BY <1>4 DEF ShutdownEncodes, Next
<1>5. ASSUME NEW w \in Writers, WriteLands(w) PROVE [Next]_vars /\ starts' = starts
  BY <1>5 DEF WriteLands
<1>6. ASSUME NEW w \in Writers, WriteFails(w) PROVE HubRests /\ starts' = starts
  BY <1>6 DEF WriteFails, HubRests, IInv, TypeOK
<1>7. ASSUME RecorderTakes PROVE [Next]_vars /\ starts' = starts
  BY <1>7 DEF RecorderTakes, Next
<1>8. ASSUME RecordsLand \/ Stop PROVE [Next]_vars /\ starts' = starts
  BY <1>8 DEF RecordsLand, Stop
<1>9. ASSUME UNCHANGED allVars PROVE [Next]_vars /\ starts' = starts
  BY <1>9 DEF allVars
<1> QED
  BY <1>1, <1>2, <1>3, <1>4, <1>5, <1>6, <1>7, <1>8, <1>9
  DEF PersistenceNext, Exit, Crash

LEMMA NextGrows ==
    ASSUME IInv, IInv', [Next]_vars
    PROVE  Grows
<1>1. now \in Nat /\ now' \in Nat
  BY DEF IInv, TypeOK
<1>2. ASSUME NEW c \in Connections, GameRequest(c)
      PROVE  now <= now' /\ issued \subseteq issued'
  <2>1. ASSUME NEW name_ok \in BOOLEAN, NEW tc \in TimeControls, CreateGame(c, name_ok, tc)
        PROVE  now <= now' /\ issued \subseteq issued'
    BY <1>1, <2>1 DEF CreateGame, Refuse
  <2>2. ASSUME NEW name_ok \in BOOLEAN, NEW k \in Codes, JoinGame(c, name_ok, k)
        PROVE  now <= now' /\ issued \subseteq issued'
    BY <1>1, <2>2 DEF JoinGame, Refuse
  <2>3. ASSUME NEW g \in GameIds, NEW token \in Tokens, Reconnect(c, g, token)
        PROVE  now <= now' /\ issued \subseteq issued'
    BY <1>1, <2>3 DEF Reconnect, Refuse
  <2>4. ASSUME NEW g \in GameIds, NEW ply \in 0..MaxPly,
               NEW move \in MoveKinds \cup {"illegal"},
               NEW later \in now..MaxTime, PlayMove(c, g, ply, move, later)
        PROVE  now <= now' /\ issued \subseteq issued'
    BY <1>1, <2>4, HubAssumption DEF PlayMove, RefuseStranger, Refuse
  <2>5. ASSUME NEW g \in GameIds,
               \/ OfferDraw(c, g) \/ Resign(c, g)
               \/ \E accept \in BOOLEAN : RespondDraw(c, g, accept)
        PROVE  now <= now' /\ issued \subseteq issued'
    <3>1. now' = now /\ issued' = issued
      BY <2>5 DEF OfferDraw, Resign, RespondDraw, RefuseStranger, Refuse
    <3> QED
      BY <1>1, <3>1
  <2> QED
    BY <1>2, <2>1, <2>2, <2>3, <2>4, <2>5 DEF GameRequest
<1>3. ASSUME \/ Connect \/ TickAt \/ TakeFinishedGames \/ EncodeIfDirty \/ AdvanceTime
             \/ \E c \in Connections, user \in Users : SignIn(c, user)
             \/ \E c \in Connections : SignOut(c) \/ Disconnect(c)
             \/ UNCHANGED vars
      PROVE  now <= now' /\ issued \subseteq issued'
  BY <1>1, <1>3 DEF Connect, TickAt, TakeFinishedGames, EncodeIfDirty, AdvanceTime,
                    SignIn, SignOut, Disconnect, vars
<1> QED
  BY <1>1, <1>2, <1>3 DEF Grows, Next

LEMMA RestKeepsHub ==
    ASSUME IInv, FinishedAreOver, HubRests
    PROVE  IInv' /\ FinishedAreOver' /\ Grows
<1>1. FinishedAreOver'
  BY DEF HubRests, FinishedAreOver, OpenGames, Ended
<1>2. TypeOK' /\ Grows
  BY DEF HubRests, IInv, TypeOK, Grows
<1>3. MapsAgree'
  BY DEF HubRests, IInv, MapsAgree, SeatsMatchMemberships, SitsAt, InvitesMatchRooms,
         AbsenceIsDated, HostsAreSeated, RoomsWereIssued, OpenGames
<1> QED
  BY <1>1, <1>2, <1>3 DEF IInv

LEMMA LossKeepsHub ==
    ASSUME IInv, HubIsLost
    PROVE  IInv' /\ FinishedAreOver' /\ Grows /\ OpenGames' = {}
<1>1. /\ rooms' = [g \in GameIds |-> None] /\ invites' = [k \in Codes |-> None]
      /\ memberships' = [c \in Connections |-> None]
      /\ identities' = [c \in Connections |-> None]
      /\ finished_games' = {} /\ next_connection_id' = 1 /\ dirty' = FALSE
      /\ sockets' = {} /\ issued' = issued /\ now' = now
  BY DEF HubIsLost
<1>2. OpenGames' = {}
  BY <1>1 DEF OpenGames
<1>3. TypeOK' /\ Grows
  <2>1. Grows
    BY <1>1 DEF IInv, TypeOK, Grows
  <2>2. /\ rooms' \in [GameIds -> Room \cup {None}]
        /\ invites' \in [Codes -> GameIds \cup {None}]
        /\ memberships' \in [Connections -> Membership \cup {None}]
        /\ identities' \in [Connections -> Users \cup {None}]
    BY <1>1
  <2>3. /\ finished_games' \subseteq FinishedGame /\ next_connection_id' \in Nat \ {0}
        /\ dirty' \in BOOLEAN /\ sockets' \subseteq Connections
    <3>1. dirty' \in BOOLEAN
      BY <1>1, Zenon
    <3>2. finished_games' \subseteq FinishedGame /\ sockets' \subseteq Connections
      BY <1>1
    <3>3. next_connection_id' \in Nat \ {0}
      BY <1>1
    <3> QED
      BY <3>1, <3>2, <3>3
  <2>4. TypeOK'
    BY <1>1, <2>2, <2>3 DEF IInv, TypeOK
  <2> QED
    BY <2>1, <2>4
<1>4. SeatsMatchMemberships'
  <2>1. \A g \in GameIds, side \in Sides : [game_id |-> g, side |-> side] # None
    BY OptionAssumption DEF Membership
  <2> QED
    BY <1>1, <2>1 DEF SeatsMatchMemberships, SitsAt
<1>5. /\ InvitesMatchRooms' /\ AbsenceIsDated' /\ HostsAreSeated' /\ RoomsWereIssued'
      /\ FinishedAreOver'
  BY <1>1, <1>2 DEF InvitesMatchRooms, AbsenceIsDated, HostsAreSeated, RoomsWereIssued,
                    FinishedAreOver
<1> QED
  BY <1>2, <1>3, <1>4, <1>5 DEF IInv, MapsAgree

LEMMA StepKeepsHub ==
    ASSUME PersistInv, [PersistenceNext]_allVars
    PROVE  IInv' /\ FinishedAreOver' /\ Grows
<1> USE DEF PersistInv
<1>1. CASE [Next]_vars
  BY <1>1, NextKeepsInvariant, NextKeepsEnded, NextGrows
<1>2. CASE HubRests
  BY <1>2, RestKeepsHub
<1>3. CASE HubIsLost
  BY <1>3, LossKeepsHub
<1>4. CASE Start
  <2>1. IInv' /\ FinishedAreOver'
    BY <1>4, StartKeepsInvariant
  <2>2. Grows
    BY <1>4 DEF Start, Grows, IInv, TypeOK
  <2> QED
    BY <2>1, <2>2
<1> QED
  BY <1>1, <1>2, <1>3, <1>4, PersistenceSteps

\* Nothing new is written but what the hub encodes.
LEMMA StepKeepsFiles ==
    ASSUME PersistInv, [PersistenceNext]_allVars
    PROVE  FilesAreGood'
<1> USE DEF PersistInv
<1>0. Grows
  BY StepKeepsHub
<1>1. /\ disk \in Files \cup {Torn} /\ \A w \in Writers : writing[w] \in Files
      /\ writing \in [Writers -> Saved \cup {None}]
  BY SavedAssumption DEF Files, FilesAreGood
<1>2. ASSUME disk' \in Files \cup {Torn}, writing' \in [Writers -> Saved \cup {None}],
             \A w \in Writers : writing'[w] \in Files \cup {None}
      PROVE  FilesAreGood'
  <2>1. ASSUME NEW file \in Files, file # None
        PROVE  file \in Saved /\ GoodFile(file, now', issued')
    <3>1. file \in Saved /\ GoodFile(file, now, issued)
      BY <1>1, <2>1 DEF Files, FilesAreGood
    <3> QED
      BY <1>0, <3>1, GoodFileStays
  <2>2. disk' \in Saved \cup {None, Torn}
    BY <1>2, <2>1
  <2> QED
    BY <1>2, <2>1, <2>2 DEF FilesAreGood, Files
<1>3. ASSUME NEW v \in Writers, disk' = disk, now' = now, issued' = issued,
             writing' = [writing EXCEPT ![v] = Encoded(now)]
      PROVE  FilesAreGood'
  <2>1. Encoded(now) \in Saved /\ GoodFile(Encoded(now), now, issued)
    BY EncodedIsGood
  <2>2. \A w \in Writers : writing'[w] \in {Encoded(now), writing[w]}
    BY <1>1, <1>3
  <2>3. \A file \in Files' : file \in Files \cup {Encoded(now)}
    BY <1>3, <2>2 DEF Files
  <2>4. writing' \in [Writers -> Saved \cup {None}]
    BY <1>1, <1>3, <2>1
  <2>5. disk' \in Saved \cup {None, Torn}
    BY <1>3 DEF FilesAreGood
  <2> QED
    BY <1>3, <2>1, <2>3, <2>4, <2>5 DEF FilesAreGood
<1>4. CASE UNCHANGED <<disk, writing>>
  BY <1>1, <1>2, <1>4
<1>5. ASSUME NEW w \in Writers, WriteLands(w) \/ WriteFails(w)
      PROVE  FilesAreGood'
  BY <1>1, <1>2, <1>5 DEF WriteLands, WriteFails, Leaves
<1>6. CASE HubIsLost
  BY <1>1, <1>2, <1>6 DEF HubIsLost
<1>7. CASE PersisterEncodes
  BY <1>3, <1>7 DEF PersisterEncodes, EncodeIfDirty, Writers
<1>8. CASE ShutdownEncodes
  BY <1>3, <1>4, <1>8 DEF ShutdownEncodes, EncodeIfDirty, Writers
<1>9. CASE HubStep \/ TickerTicks \/ RecorderTakes \/ RecordsLand \/ Stop \/ Start
  BY <1>4, <1>9 DEF HubStep, TickerTicks, RecorderTakes, RecordsLand, Stop, Start, storeVars
<1>10. CASE UNCHANGED allVars
  BY <1>4, <1>10 DEF allVars, storeVars
<1> QED
  BY <1>5, <1>6, <1>7, <1>8, <1>9, <1>10 DEF PersistenceNext, Exit, Crash

\* There is no hub while there is no process.
LEMMA StepKeepsDown ==
    ASSUME PersistInv, [PersistenceNext]_allVars
    PROVE  DownMeansEmpty' /\ RunningMeansUntold'
<1> USE DEF PersistInv
<1>0. RunningMeansUntold'
  BY DEF RunningMeansUntold, PersistenceNext, HubStep, TickerTicks, PersisterEncodes,
     ShutdownEncodes, WriteLands, WriteFails, AfterWrite, RecorderTakes, RecordsLand,
     Stop, HubIsLost, Exit, Crash, Start, storeVars, allVars
<1> SUFFICES DownMeansEmpty'
  BY <1>0
<1>1. CASE phase = "down" /\ ~Start
  <2>1. /\ HubIsEmpty /\ dirty = FALSE /\ writing = [w \in Writers |-> None]
        /\ \A w \in Writers : writing[w] = None
    BY <1>1 DEF DownMeansEmpty
  <2>2. /\ UNCHANGED <<rooms, invites, memberships, identities, finished_games,
                       next_connection_id, dirty, sockets>>
        /\ writing' = writing
    <3>1. CASE HubStep
      BY <1>1, <3>1 DEF HubStep, AdvanceTime, storeVars
    <3>2. CASE RecordsLand \/ UNCHANGED allVars
      BY <3>2 DEF RecordsLand, allVars, vars, storeVars
    <3> QED
      BY <1>1, <2>1, <3>1, <3>2
      DEF PersistenceNext, TickerTicks, PersisterEncodes, ShutdownEncodes, WriteLands,
          WriteFails, RecorderTakes, Stop, Exit, Crash
  <2> QED
    BY <2>1, <2>2 DEF DownMeansEmpty, HubIsEmpty
<1>2. CASE HubIsLost
  BY <1>2 DEF HubIsLost, DownMeansEmpty, HubIsEmpty
<1>3. CASE phase # "down" /\ ~HubIsLost
  <2>1. phase' # "down"
    BY <1>3 DEF PersistenceNext, HubStep, TickerTicks, PersisterEncodes, ShutdownEncodes,
       WriteLands, WriteFails, AfterWrite, RecorderTakes, RecordsLand, Stop, Exit, Crash,
       Start, storeVars, allVars
  <2> QED
    BY <2>1 DEF DownMeansEmpty
<1>4. CASE Start
  BY <1>4 DEF Start, DownMeansEmpty
<1> QED
  BY <1>1, <1>2, <1>3, <1>4

-----------------------------------------------------------------------------
\* A step of the running process that leaves the state clean and writes nothing
\* changes no record.
LEMMA SameRecordsStaySaved ==
    ASSUME CleanMeansSaved, TypeOK, TypeOK',
           phase = "running", dirty = FALSE, UNCHANGED <<disk, writing>>,
           \A g \in GameIds : /\ rooms'[g] = None <=> rooms[g] = None
                              /\ rooms[g] # None => SameRecord(rooms'[g], rooms[g])
    PROVE  CleanMeansSaved'
<1>1. ASSUME NEW g \in GameIds
      PROVE  InMemory(g)' = InMemory(g)
  <2>1. CASE rooms[g] = None
    BY <2>1 DEF InMemory
  <2>2. CASE rooms[g] # None
    <3>1. rooms[g] \in Room /\ rooms'[g] \in Room /\ rooms'[g] # None
      BY <2>2 DEF TypeOK
    <3> QED
      BY <2>2, <3>1, SameRecordIsSaved DEF InMemory
  <2> QED
    BY <2>1, <2>2
<1> QED
  BY <1>1 DEF CleanMeansSaved, OnDisk

LEMMA EncodedIsSaved ==
    ASSUME IInv, NEW g \in GameIds
    PROVE  /\ InMemory(g) = OnDisk(g, Encoded(now))
           /\ EncodeIfDirty => InMemory(g)' = OnDisk(g, Encoded(now))
<1>0. Encoded(now) # None
  BY EncodedIsGood, SavedAssumption
<1>1. CASE rooms[g] = None
  <2>1. Encoded(now).rooms[g] = None
    BY <1>1 DEF Encoded
  <2>2. EncodeIfDirty => rooms'[g] = None
    BY <1>1 DEF EncodeIfDirty
  <2> QED
    BY <1>1, <2>1, <2>2 DEF InMemory, OnDisk
<1>2. CASE rooms[g] # None
  <2> DEFINE settled == Settled(rooms[g], now)
  <2>1. rooms[g] \in Room /\ now \in Nat
    BY <1>2 DEF IInv, TypeOK
  <2>2. settled \in Room /\ SameRecord(settled, rooms[g])
    BY <2>1, SettledKeepsSeats, ReadClockSameRecord DEF SameSeats
  <2>3. Encoded(now).rooms[g] = Capture(settled)
    BY <1>2 DEF Encoded
  <2>4. EncodeIfDirty => rooms'[g] = settled
    BY <1>2 DEF EncodeIfDirty
  <2> HIDE DEF settled
  <2>5. Capture(settled) # None /\ settled # None
    BY <2>2, CaptureType, SavedAssumption, OptionAssumption
  <2>6. OnDisk(g, Encoded(now)) = Durable(Capture(settled))
    BY <1>0, <2>3, <2>5 DEF OnDisk
  <2>7. Durable(Capture(settled)) = Durable(Capture(rooms[g]))
    BY <2>1, <2>2, SameRecordIsSaved
  <2> QED
    BY <1>2, <2>4, <2>5, <2>6, <2>7 DEF InMemory
<1> QED
  BY <1>1, <1>2

\* A request leaves the state dirty.
LEMMA RequestDirties ==
    ASSUME NEW c \in Connections, GameRequest(c)
    PROVE  dirty' = TRUE
<1>1. ASSUME NEW code, Refuse(c, code) PROVE dirty' = TRUE
  BY <1>1 DEF Refuse
<1> QED
  BY <1>1 DEF GameRequest, CreateGame, JoinGame, Reconnect, PlayMove, OfferDraw,
     RespondDraw, Resign, RefuseStranger

LEMMA HubStepKeepsClean ==
    ASSUME PersistInv, TypeOK', HubStep
    PROVE  CleanMeansSaved'
<1> USE DEF PersistInv, IInv
<1>1. UNCHANGED <<disk, writing, phase>>
  BY DEF HubStep, storeVars
<1>2. CASE dirty' = TRUE \/ phase # "running"
  BY <1>1, <1>2 DEF CleanMeansSaved
<1>3. CASE ~(dirty' = TRUE \/ phase # "running")
  <2>1. ASSUME dirty' = dirty,
               \A g \in GameIds : /\ rooms'[g] = None <=> rooms[g] = None
                                  /\ rooms[g] # None => SameRecord(rooms'[g], rooms[g])
        PROVE  CleanMeansSaved'
    <3>1. dirty = FALSE
      BY <1>3, <2>1 DEF TypeOK
    <3> QED
      BY <1>1, <1>3, <2>1, <3>1, SameRecordsStaySaved
  <2>2. CASE rooms' = rooms /\ dirty' = dirty
    BY <2>1, <2>2 DEF SameRecord
  <2>3. ASSUME NEW c \in Connections, Disconnect(c)
        PROVE  CleanMeansSaved'
    <3>1. dirty' = dirty
      BY <2>3 DEF Disconnect
    <3>2. CASE memberships[c] = None
      BY <2>2, <2>3, <3>1, <3>2 DEF Disconnect
    <3>3. CASE memberships[c] # None
      <4> DEFINE g == memberships[c].game_id
                 side == memberships[c].side
      <4>1. g \in GameIds /\ side \in Sides /\ rooms[g] \in Room /\ rooms[g] # None
        BY <3>3, MembersHaveRooms DEF IsMember
      <4>2. rooms' = [rooms EXCEPT ![g] = Vacated(rooms[g], side, c, now)]
        BY <2>3, <3>3, <4>1 DEF Disconnect
      <4>3. SameRecord(Vacated(rooms[g], side, c, now), rooms[g])
        BY <4>1, VacatedSameRecord DEF TypeOK
      <4>4. Vacated(rooms[g], side, c, now) # None
        <5>1. Vacated(rooms[g], side, c, now) \in Room
          BY <4>1, VacatedSameRecord DEF TypeOK
        <5> QED
          BY <5>1, OptionAssumption
      <4> HIDE DEF g, side
      <4>5. \A h \in GameIds : /\ rooms'[h] = None <=> rooms[h] = None
                               /\ rooms[h] # None => SameRecord(rooms'[h], rooms[h])
        <5> TAKE h \in GameIds
        <5>1. CASE h = g
          BY <4>1, <4>2, <4>3, <4>4, <5>1 DEF TypeOK
        <5>2. CASE h # g
          BY <4>1, <4>2, <5>2 DEF TypeOK, SameRecord
        <5> QED
          BY <5>1, <5>2
      <4> QED
        BY <2>1, <3>1, <4>5
    <3> QED
      BY <3>2, <3>3
  <2>4. ASSUME NEW c \in Connections, GameRequest(c)
        PROVE  CleanMeansSaved'
    BY <1>3, <2>4, RequestDirties
  <2>5. CASE \/ Connect \/ AdvanceTime
             \/ \E c \in Connections, user \in Users : SignIn(c, user)
             \/ \E c \in Connections : SignOut(c)
    BY <2>2, <2>5 DEF Connect, AdvanceTime, SignIn, SignOut
  <2> QED
    BY <2>3, <2>4, <2>5 DEF HubStep
<1> QED
  BY <1>2, <1>3

LEMMA TickKeepsClean ==
    ASSUME PersistInv, TypeOK', TickerTicks
    PROVE  CleanMeansSaved'
<1> USE DEF PersistInv, IInv
<1>1. TickAt /\ UNCHANGED <<disk, writing, phase>> /\ phase = "running"
  BY DEF TickerTicks, storeVars
<1>2. CASE dirty' = TRUE
  BY <1>2 DEF CleanMeansSaved
<1>3. CASE dirty' # TRUE
  <2> DEFINE gone == Evicted(now)
             ended == {g \in OpenGames : Finishes(rooms[g], now)}
  <2>1. dirty' = (dirty \/ gone # {} \/ \E g \in ended : IsActive(rooms[g]))
    BY <1>1 DEF TickAt
  <2>2. dirty = FALSE /\ gone = {} /\ \A g \in ended : ~IsActive(rooms[g])
    BY <1>3, <2>1 DEF TypeOK
  <2>3. ASSUME NEW g \in GameIds, rooms[g] # None
        PROVE  rooms'[g] # None /\ SameRecord(rooms'[g], rooms[g])
    <3>1. rooms[g] \in Room /\ now \in Nat /\ g \in OpenGames /\ Ended(rooms[g])
      BY <2>3 DEF TypeOK, OpenGames, FinishedAreOver
    <3>2. rooms'[g] = TickedRoom(rooms[g], now)
      BY <1>1, <2>2, <3>1 DEF TickAt
    <3>3. Finishes(rooms[g], now) => ~IsActive(rooms[g])
      BY <2>2, <3>1
    <3>4. SameRecord(TickedRoom(rooms[g], now), rooms[g])
      BY <3>1, <3>3, UnforfeitedSameRecord
    <3>5. TickedRoom(rooms[g], now) # None
      BY <3>1, TickedRoomKeepsSeats, OptionAssumption DEF SameSeats
    <3> QED
      BY <3>2, <3>4, <3>5
  <2>4. \A g \in GameIds : rooms[g] = None => rooms'[g] = None
    BY <1>1 DEF TickAt, OpenGames
  <2> QED
    BY <1>1, <2>2, <2>3, <2>4, SameRecordsStaySaved
<1> QED
  BY <1>2, <1>3

LEMMA StartKeepsClean ==
    ASSUME PersistInv, Start
    PROVE  CleanMeansSaved'
<1> USE DEF PersistInv
<1>1. UNCHANGED <<disk, writing>> /\ writing["persister"] = None /\ now \in Nat
  BY DEF Start, DownMeansEmpty, Writers, IInv, TypeOK
<1>2. ASSUME NEW g \in GameIds
      PROVE  InMemory(g)' = OnDisk(g, disk)
  <2>1. CASE disk = None \/ disk.rooms[g] = None
    <3>1. rooms'[g] = None
      BY <2>1, LoadedRooms
    <3> QED
      BY <2>1, <3>1 DEF InMemory, OnDisk
  <2>2. CASE ~(disk = None \/ disk.rooms[g] = None)
    <3> DEFINE d == SaturatingSub(now, disk.saved_at)
    <3>1. /\ d \in Nat /\ disk.rooms[g] \in SavedRoom
          /\ rooms'[g] = RestoredRoom(disk.rooms[g], d, now) /\ rooms'[g] # None
          /\ ~disk.rooms[g].joined => disk.rooms[g].users["black"] = None
      BY <2>2, LoadedRooms
    <3> HIDE DEF d
    <3>2. Durable(Capture(RestoredRoom(disk.rooms[g], d, now))) = Durable(disk.rooms[g])
      BY <1>1, <3>1, RestoredSameRecord
    <3> QED
      BY <2>2, <3>1, <3>2 DEF InMemory, OnDisk
  <2> QED
    BY <2>1, <2>2
<1> QED
  BY <1>1, <1>2 DEF CleanMeansSaved, OnDisk

LEMMA StepKeepsClean ==
    ASSUME PersistInv, [PersistenceNext]_allVars
    PROVE  CleanMeansSaved'
<1> USE DEF PersistInv
<1>0. TypeOK' /\ writing \in [Writers -> Saved \cup {None}]
  BY StepKeepsHub DEF IInv, FilesAreGood
<1>1. CASE HubStep
  BY <1>0, <1>1, HubStepKeepsClean
<1>2. CASE TickerTicks
  BY <1>0, <1>2, TickKeepsClean
<1>3. CASE PersisterEncodes
  <2>1. EncodeIfDirty /\ writing'["persister"] = Encoded(now)
    BY <1>0, <1>3 DEF PersisterEncodes, Writers
  <2>2. Encoded(now) # None
    BY EncodedIsGood, SavedAssumption
  <2> QED
    BY <2>1, <2>2, EncodedIsSaved DEF CleanMeansSaved, OnDisk
<1>4. CASE Start
  BY <1>4, StartKeepsClean
<1>5. CASE ShutdownEncodes \/ Stop \/ HubIsLost
  BY <1>5 DEF ShutdownEncodes, Stop, HubIsLost, CleanMeansSaved
<1>6. CASE \E w \in Writers : WriteLands(w)
  <2>1. CASE WriteLands("shutdown")
    BY <2>1 DEF WriteLands, AfterWrite, CleanMeansSaved
  <2>2. CASE WriteLands("persister")
    <3>1. /\ phase = "running" => disk' = writing["persister"]
          /\ writing["persister"] # None
          /\ writing'["persister"] = None /\ phase' = phase /\ UNCHANGED vars
      BY <1>0, <2>2 DEF WriteLands, AfterWrite, Leaves, RunningMeansUntold, Writers
    <3> QED
      BY <3>1 DEF CleanMeansSaved, InMemory, OnDisk, vars
  <2> QED
    BY <1>6, <2>1, <2>2 DEF Writers
<1>7. CASE \E w \in Writers : WriteFails(w)
  <2>1. CASE WriteFails("shutdown")
    BY <2>1 DEF WriteFails, AfterWrite, CleanMeansSaved
  <2>2. CASE WriteFails("persister")
    <3>1. phase' = phase /\ dirty' = (dirty \/ phase = "running")
      BY <2>2 DEF WriteFails, AfterWrite
    <3> QED
      BY <3>1 DEF CleanMeansSaved
  <2> QED
    BY <1>7, <2>1, <2>2 DEF Writers
<1>8. CASE RecorderTakes \/ RecordsLand \/ UNCHANGED allVars
  <2>1. UNCHANGED <<rooms, dirty, disk, writing, phase>>
    BY <1>8 DEF RecorderTakes, TakeFinishedGames, RecordsLand, allVars, vars, storeVars
  <2> QED
    BY <2>1 DEF CleanMeansSaved, InMemory, OnDisk
<1> QED
  BY <1>1, <1>2, <1>3, <1>4, <1>5, <1>6, <1>7, <1>8 DEF PersistenceNext, Exit, Crash

-----------------------------------------------------------------------------
(* Results                                                                 *)

\* What a saved result makes of the game that is read back.
LEMMA RestoredResults ==
    ASSUME NEW saved \in SavedRoom, NEW d \in Nat, NEW t \in Nat
    PROVE  LET game == RestoredGame(saved, d, t)
           IN  /\ saved.resigned # None => Outcome(game) = Result("resignation", saved.resigned)
               /\ saved.resigned = None /\ saved.agreed_draw =>
                     Outcome(game) = Result("agreement", None)
               /\ saved.abandoned # None => IsOver(game)
<1> DEFINE game == RestoredGame(saved, d, t)
<1>1. /\ game \in GameState /\ game.resigned = saved.resigned
      /\ game.agreed_draw = saved.agreed_draw /\ game.abandoned = saved.abandoned
  BY RestoredGameType
<1> HIDE DEF game
<1>2. saved.abandoned # None => IsOver(game)
  BY <1>1, DecidedIsOver
<1>3. /\ saved.resigned # None => Outcome(game) = Result("resignation", saved.resigned)
      /\ saved.resigned = None /\ saved.agreed_draw => Outcome(game) = Result("agreement", None)
  BY <1>1 DEF Outcome
<1> QED
  BY <1>2, <1>3 DEF game

-----------------------------------------------------------------------------
(* The first restart                                                       *)

\* A saved game whose clock ran accounts for the time until it was saved.
SavedOnTime(saved, saved_at) ==
    saved.running # None =>
        /\ saved.initial # None
        /\ saved.remaining["white"] + saved.remaining["black"]
             = 2 * saved.initial + saved.increment * Len(saved.moves)
               - (saved_at - saved.started_at)

FilesOnTime ==
    \A file \in Files : file # None =>
        \A g \in GameIds : file.rooms[g] # None => SavedOnTime(file.rooms[g], file.saved_at)

\* Until the first restart every game and every file accounts for its time.
FirstLife ==
    /\ starts \in Nat \ {0}
    /\ starts = 1 => GamesOnTime /\ FilesOnTime

LEMMA EncodedOnTime ==
    ASSUME IInv, GamesOnTime, NEW g \in GameIds, rooms[g] # None
    PROVE  SavedOnTime(Encoded(now).rooms[g], Encoded(now).saved_at)
<1> DEFINE settled == Settled(rooms[g], now)
           clock == settled.game.clock
<1>1. rooms[g] \in Room /\ now \in Nat /\ OnTime(rooms[g])
  BY DEF IInv, TypeOK, GamesOnTime, OpenGames
<1>2. /\ settled.game = [rooms[g].game EXCEPT !.clock = Sync(@, now)]
      /\ settled.started_at = rooms[g].started_at
      /\ settled.game.clock = Sync(rooms[g].game.clock, now)
      /\ rooms[g].game \in GameState /\ rooms[g].started_at \in Nat
  BY <1>1 DEF Settled, Room, GameState
<1>3. GameStep(settled.game, rooms[g].game, Joined(rooms[g]), rooms[g].started_at)
  BY <1>1, <1>2, SyncStep
<1>4. /\ settled.game \in GameState
      /\ Timely(settled.game, Joined(rooms[g]), rooms[g].started_at)
  BY <1>1, <1>3 DEF GameStep, OnTime
<1>5. clock.running # None => clock.running.since = now
  <2>1. CASE rooms[g].game.clock.running = None
    BY <1>2, <2>1 DEF Sync
  <2>2. CASE rooms[g].game.clock.running # None
    <3>1. Charged(clock, rooms[g].game.clock, now)
      BY <1>1, <1>2, <2>2, SyncCharges DEF GameState
    <3> HIDE DEF clock
    <3> QED
      BY <3>1 DEF Charged
  <2> QED
    BY <2>1, <2>2
<1>6. Encoded(now).rooms[g] = Capture(settled) /\ Encoded(now).saved_at = now
  BY DEF Encoded
<1>7. clock \in Clock
  BY <1>4 DEF GameState
<1> HIDE DEF settled
<1>8. /\ Capture(settled).running = IF clock.running = None THEN None ELSE clock.running.side
      /\ Capture(settled).remaining = clock.remaining
      /\ Capture(settled).initial = clock.initial
      /\ Capture(settled).increment = clock.increment
      /\ Capture(settled).moves = settled.game.moves
      /\ Capture(settled).started_at = rooms[g].started_at
  BY <1>2 DEF Capture
<1>9. ASSUME clock.running # None
      PROVE  /\ clock.initial # None
             /\ clock.remaining["white"] + clock.remaining["black"]
                  = 2 * clock.initial + clock.increment * Len(settled.game.moves)
                    - (now - rooms[g].started_at)
  BY <1>4, <1>5, <1>9 DEF Timely, Started, Waiting
<1> HIDE DEF clock
<1> QED
  BY <1>6, <1>8, <1>9 DEF SavedOnTime

LEMMA RestoredOnTime ==
    ASSUME NEW saved \in SavedRoom, NEW saved_at \in Nat, SavedOnTime(saved, saved_at),
           NEW t \in Nat, saved_at <= t
    PROVE  LET game == RestoredGame(saved, SaturatingSub(t, saved_at), t)
           IN  game.clock.running # None =>
                 game.clock.remaining["white"] + game.clock.remaining["black"]
                   = 2 * game.clock.initial + game.clock.increment * Len(game.moves)
                     - (game.clock.running.since - saved.started_at)
<1> DEFINE d == SaturatingSub(t, saved_at)
           game == RestoredGame(saved, d, t)
           left == Left(saved, d)
           side == saved.running
           mover == IF Len(saved.moves) % 2 = 0 THEN "white" ELSE "black"
<1>1. d \in Nat /\ d = t - saved_at
  BY DEF SaturatingSub
<1> HIDE DEF d
<1>2. mover \in Sides
  BY DEF Sides
<1>3. game.moves = saved.moves /\ game.clock = RestoredClock(saved, mover, d, t)
  BY <1>1, RestoredGameType
<1> HIDE DEF mover
<1>4. LET clock == RestoredClock(saved, mover, d, t)
      IN  /\ clock.initial = saved.initial /\ clock.increment = saved.increment
          /\ clock.remaining = left
          /\ clock.running # None =>
                /\ clock.running = [side |-> mover, since |-> t]
                /\ side # None /\ saved.initial # None /\ left[side] > 0
  BY <1>1, <1>2, RestoredClockType
<1> HIDE DEF game
<1>5. ASSUME game.clock.running # None
      PROVE  game.clock.remaining["white"] + game.clock.remaining["black"]
               = 2 * game.clock.initial + game.clock.increment * Len(game.moves)
                 - (game.clock.running.since - saved.started_at)
  <2> DEFINE white == saved.remaining["white"]
             black == saved.remaining["black"]
             earned == saved.increment * Len(saved.moves)
  <2>1. /\ side \in Sides /\ saved.initial \in Nat /\ left[side] > 0
        /\ white \in Nat /\ black \in Nat /\ saved.started_at \in Nat
    BY <1>3, <1>4, <1>5 DEF SavedRoom, Sides
  <2>2. left["white"] + left["black"] = white + black - d
    <3>1. left[side] = saved.remaining[side] - d
      BY <1>1, <2>1 DEF Left, SaturatingSub, Sides
    <3>2. \A s \in Sides : s # side => left[s] = saved.remaining[s]
      BY DEF Left
    <3> HIDE DEF left
    <3> QED
      BY <1>1, <2>1, <3>1, <3>2 DEF Sides
  <2>3. earned \in Int
    BY DEF SavedRoom
  <2>4. white + black = 2 * saved.initial + earned - (saved_at - saved.started_at)
    BY <2>1, NoneAssumption DEF SavedOnTime
  <2>5. /\ game.clock.remaining["white"] + game.clock.remaining["black"]
             = left["white"] + left["black"]
        /\ game.clock.initial = saved.initial /\ game.clock.running.since = t
        /\ game.clock.increment * Len(game.moves) = earned
    BY <1>3, <1>4, <1>5
  <2> HIDE DEF left, white, black, earned
  <2>6. white + black - d = 2 * saved.initial + earned - (t - saved.started_at)
    BY <1>1, <2>1, <2>3, <2>4
  <2> QED
    BY <2>2, <2>5, <2>6
<1> QED
  BY <1>5 DEF game, d

\* Nothing comes into a file but what the hub encodes.
OnlyEncodedComes == \A file \in Files' : file \in Files \cup {None, Encoded(now)}

LEMMA FilesAreEncoded ==
    ASSUME PersistInv, [PersistenceNext]_allVars
    PROVE  OnlyEncodedComes
<1> USE DEF PersistInv
<1>1. /\ disk \in Files \cup {Torn} /\ \A w \in Writers : writing[w] \in Files
      /\ writing \in [Writers -> Saved \cup {None}]
  BY SavedAssumption DEF Files, FilesAreGood
<1>2. ASSUME disk' \in Files \cup {Torn}, \A w \in Writers : writing'[w] \in Files \cup {None}
      PROVE  OnlyEncodedComes
  BY <1>2 DEF OnlyEncodedComes, Files
<1>3. ASSUME NEW v \in Writers, disk' = disk,
             writing' = [writing EXCEPT ![v] = Encoded(now)]
      PROVE  OnlyEncodedComes
  <2>1. \A w \in Writers : writing'[w] \in {Encoded(now), writing[w]}
    BY <1>1, <1>3
  <2> QED
    BY <1>3, <2>1 DEF OnlyEncodedComes, Files
<1>4. CASE UNCHANGED <<disk, writing>>
  BY <1>1, <1>2, <1>4
<1>5. ASSUME NEW w \in Writers, WriteLands(w) \/ WriteFails(w)
      PROVE  OnlyEncodedComes
  BY <1>1, <1>2, <1>5 DEF WriteLands, WriteFails, Leaves
<1>6. CASE HubIsLost
  BY <1>1, <1>2, <1>6 DEF HubIsLost
<1>7. CASE PersisterEncodes
  BY <1>3, <1>7 DEF PersisterEncodes, Writers
<1>8. CASE ShutdownEncodes
  BY <1>3, <1>4, <1>8 DEF ShutdownEncodes, Writers
<1>9. CASE HubStep \/ TickerTicks \/ RecorderTakes \/ RecordsLand \/ Stop \/ Start
  BY <1>4, <1>9 DEF HubStep, TickerTicks, RecorderTakes, RecordsLand, Stop, Start, storeVars
<1>10. CASE UNCHANGED allVars
  BY <1>4, <1>10 DEF allVars, storeVars
<1> QED
  BY <1>5, <1>6, <1>7, <1>8, <1>9, <1>10 DEF PersistenceNext, Exit, Crash

LEMMA StepKeepsFilesOnTime ==
    ASSUME PersistInv, GamesOnTime, FilesOnTime, [PersistenceNext]_allVars
    PROVE  FilesOnTime'
<1>1. ASSUME NEW g \in GameIds, Encoded(now).rooms[g] # None
      PROVE  SavedOnTime(Encoded(now).rooms[g], Encoded(now).saved_at)
  <2>1. rooms[g] # None
    BY <1>1 DEF Encoded
  <2> QED
    BY <2>1, EncodedOnTime DEF PersistInv
<1> QED
  BY <1>1, FilesAreEncoded DEF FilesOnTime, OnlyEncodedComes

LEMMA StepKeepsFirstLife ==
    ASSUME PersistInv, FirstLife, [PersistenceNext]_allVars
    PROVE  FirstLife'
<1>1. CASE Start
  <2>1. starts' = starts + 1
    BY <1>1 DEF Start
  <2> QED
    BY <2>1 DEF FirstLife
<1>2. CASE ~Start
  <2>1. starts' = starts
    BY <1>2, PersistenceSteps DEF PersistInv, HubIsLost
  <2>2. ASSUME starts = 1
        PROVE  GamesOnTime' /\ FilesOnTime'
    <3>1. GamesOnTime /\ FilesOnTime
      BY <2>2 DEF FirstLife
    <3>2. FilesOnTime'
      BY <3>1, StepKeepsFilesOnTime
    <3>3. CASE [Next]_vars
      BY <3>1, <3>2, <3>3, NextKeepsTime DEF PersistInv
    <3>4. CASE HubRests
      BY <3>1, <3>2, <3>4 DEF HubRests, GamesOnTime, OpenGames, OnTime, Joined
    <3>5. CASE HubIsLost
      BY <3>2, <3>5, LossKeepsHub DEF PersistInv, GamesOnTime
    <3> QED
      BY <1>2, <3>3, <3>4, <3>5, PersistenceSteps DEF PersistInv
  <2> QED
    BY <2>1, <2>2 DEF FirstLife
<1> QED
  BY <1>1, <1>2

-----------------------------------------------------------------------------
(* Order across restarts                                                   *)

\* The moves of a game that the board leaves open.
OpenPosition(moves) == moves = <<>> \/ moves[Len(moves)] = "quiet"

\* A game is saved with a running clock only while it is active, and is decided
\* only after its second player came.
SavedOrderly(saved) ==
    /\ saved.running # None \/ ~saved.joined =>
          /\ saved.resigned = None /\ ~saved.agreed_draw /\ saved.abandoned = None
          /\ OpenPosition(saved.moves)
    /\ saved.running # None => saved.joined

FilesOrderly ==
    \A file \in Files : file # None =>
        \A g \in GameIds : file.rooms[g] # None => SavedOrderly(file.rooms[g])

\* In every life of the server, not only in the first.
InOrder == GamesOrderly /\ FilesOrderly

LEMMA OpenBoard ==
    ASSUME NEW game \in GameState
    PROVE  BoardOutcome(game) = None <=> OpenPosition(game.moves)
<1>1. Flip(SideToMove(game)) \in Sides
  BY SideToMoveType, FlipIsOther
<1>2. Result("checkmate", Flip(SideToMove(game))) # None /\ Result("drawn", None) # None
  BY <1>1, OutcomeAssumption DEF Result, Outcomes
<1> QED
  BY <1>2 DEF BoardOutcome, OpenPosition, LastMove

LEMMA EncodedIsOrderly ==
    ASSUME IInv, GamesOrderly, NEW g \in GameIds, rooms[g] # None
    PROVE  SavedOrderly(Encoded(now).rooms[g])
<1> DEFINE settled == Settled(rooms[g], now)
           game == settled.game
           saved == Capture(settled)
<1>1. rooms[g] \in Room /\ now \in Nat /\ Orderly(rooms[g].game, Joined(rooms[g]))
  BY DEF IInv, TypeOK, GamesOrderly, OpenGames
<1>2. /\ GameStep(game, rooms[g].game, Joined(rooms[g]), rooms[g].started_at)
      /\ settled.seats = rooms[g].seats
  BY <1>1, SettledStep
<1>3. /\ game \in GameState /\ Orderly(game, Joined(settled))
  BY <1>1, <1>2 DEF GameStep, OrderStep, Joined
<1>4. /\ saved.running = IF game.clock.running = None THEN None ELSE game.clock.running.side
      /\ saved.joined = Joined(settled) /\ saved.moves = game.moves
      /\ saved.resigned = game.resigned /\ saved.agreed_draw = game.agreed_draw
      /\ saved.abandoned = game.abandoned
  BY DEF Capture
<1>5. Encoded(now).rooms[g] = saved
  BY DEF Encoded
<1> HIDE DEF settled, saved
<1>6. game.clock.running # None => ~IsOver(game) /\ Joined(settled)
  BY <1>3 DEF Orderly
<1>7. ~IsOver(game) \/ Undecided(game) =>
          /\ game.resigned = None /\ ~game.agreed_draw /\ game.abandoned = None
          /\ OpenPosition(game.moves)
  <2>1. ASSUME ~IsOver(game)
        PROVE  /\ game.resigned = None /\ ~game.agreed_draw /\ game.abandoned = None
               /\ BoardOutcome(game) = None
    <3>1. /\ game.resigned = None /\ ~game.agreed_draw /\ game.abandoned = None
          /\ game.clock.flagged = None
      BY <1>3, <2>1, DecidedIsOver
    <3> QED
      BY <2>1, <3>1 DEF IsOver, Outcome
  <2> QED
    BY <1>3, <2>1, OpenBoard DEF Undecided
<1>8. ~Joined(settled) => Undecided(game)
  BY <1>3 DEF Orderly
<1> HIDE DEF game
<1> QED
  BY <1>4, <1>5, <1>6, <1>7, <1>8 DEF SavedOrderly

LEMMA RestoredIsOrderly ==
    ASSUME NEW saved \in SavedRoom, NEW d \in Nat, NEW t \in Nat, SavedOrderly(saved)
    PROVE  Orderly(RestoredGame(saved, d, t), saved.joined)
<1> DEFINE game == RestoredGame(saved, d, t)
           mover == IF Len(saved.moves) % 2 = 0 THEN "white" ELSE "black"
<1>1. /\ game \in GameState /\ game.moves = saved.moves
      /\ game.resigned = saved.resigned /\ game.agreed_draw = saved.agreed_draw
      /\ game.abandoned = saved.abandoned /\ game.clock = RestoredClock(saved, mover, d, t)
  BY RestoredGameType
<1>2. mover \in Sides
  BY DEF Sides
<1> HIDE DEF game, mover
<1>3. game.clock.running # None => saved.running # None /\ game.clock.flagged = None
  <2> DEFINE clock == RestoredClock(saved, mover, d, t)
  <2>1. clock.running # None => saved.running # None /\ clock.flagged = None
    BY <1>2, RestoredClockType
  <2> HIDE DEF clock
  <2> QED
    BY <1>1, <2>1 DEF clock
<1>4. saved.running # None \/ ~saved.joined => Undecided(game)
  BY <1>1, OpenBoard DEF SavedOrderly, Undecided
<1>5. Undecided(game) /\ game.clock.flagged = None => ~IsOver(game)
  BY DEF Undecided, IsOver, Outcome
<1>6. Orderly(game, saved.joined)
  BY <1>3, <1>4, <1>5 DEF Orderly, SavedOrderly
<1> QED
  BY <1>6 DEF game

LEMMA StepKeepsOrder ==
    ASSUME PersistInv, InOrder, [PersistenceNext]_allVars
    PROVE  InOrder'
<1> USE DEF PersistInv, InOrder
<1>1. ASSUME NEW g \in GameIds, Encoded(now).rooms[g] # None
      PROVE  SavedOrderly(Encoded(now).rooms[g])
  <2>1. rooms[g] # None
    BY <1>1 DEF Encoded
  <2> QED
    BY <2>1, EncodedIsOrderly
<1>2. FilesOrderly'
  BY <1>1, FilesAreEncoded DEF FilesOrderly, OnlyEncodedComes
<1>3. CASE [Next]_vars
  BY <1>2, <1>3, NextKeepsOrder
<1>4. CASE HubRests
  BY <1>2, <1>4 DEF HubRests, GamesOrderly, OpenGames, Orderly, Joined, Undecided
<1>5. CASE HubIsLost
  BY <1>2, <1>5, LossKeepsHub DEF GamesOrderly
<1>6. CASE Start
  <2>1. ASSUME NEW g \in GameIds, rooms'[g] # None
        PROVE  Orderly(rooms'[g].game, Joined(rooms'[g]))
    <3> DEFINE saved == disk.rooms[g]
               d == SaturatingSub(now, disk.saved_at)
    <3>1. disk # None /\ saved # None
      BY <1>6, <2>1, LoadedRooms
    <3>2. /\ d \in Nat /\ saved \in SavedRoom /\ rooms'[g] = RestoredRoom(saved, d, now)
          /\ ~saved.joined => saved.users["black"] = None
      BY <1>6, <3>1, LoadedRooms
    <3>3. SavedOrderly(saved) /\ now \in Nat
      BY <1>6, <3>1 DEF FilesOrderly, Files, Start, IInv, TypeOK
    <3> HIDE DEF saved, d
    <3>4. /\ rooms'[g].game = RestoredGame(saved, d, now)
          /\ Joined(rooms'[g]) = saved.joined
      BY <3>2, <3>3, RestoredRoomType
    <3> QED
      BY <3>2, <3>3, <3>4, RestoredIsOrderly
  <2> QED
    BY <1>2, <2>1 DEF GamesOrderly, OpenGames
<1> QED
  BY <1>3, <1>4, <1>5, <1>6, PersistenceSteps

-----------------------------------------------------------------------------
(* The records of finished games                                           *)

\* The hub serves its players: no tick, and no record is made or taken.  A game
\* keeps its mark, and one that comes to be has a new id and no mark.
Serves ==
    /\ finished_games' = finished_games /\ issued \subseteq issued'
    /\ \A g \in GameIds : rooms'[g] # None =>
          IF rooms[g] = None THEN g \notin issued /\ rooms'[g].finished_at = None
          ELSE rooms'[g].finished_at = rooms[g].finished_at

LEMMA SettledKeepsMark ==
    ASSUME NEW room, NEW t, "finished_at" \in DOMAIN room
    PROVE  Settled(room, t).finished_at = room.finished_at
BY DEF Settled

LEMMA OneRoomServes ==
    ASSUME IInv, NEW g \in GameIds, rooms[g] # None, NEW room,
           rooms' = [rooms EXCEPT ![g] = room],
           room.finished_at = rooms[g].finished_at,
           finished_games' = finished_games, issued' = issued
    PROVE  Serves
BY DEF Serves, IInv, TypeOK

LEMMA RefusalServes ==
    ASSUME NEW c, NEW code, Refuse(c, code)
    PROVE  Serves
BY DEF Refuse, Serves

LEMMA CreateGameServes ==
    ASSUME IInv, NEW c \in Connections, NEW name_ok \in BOOLEAN, NEW tc \in TimeControls,
           CreateGame(c, name_ok, tc)
    PROVE  Serves
<1>1. CASE Refuse(c, "InvalidRequest")
  BY <1>1, RefusalServes
<1>2. CASE ~Refuse(c, "InvalidRequest")
  <2> DEFINE game == NewGame("white", tc.initial, tc.increment, now)
             room(k) == [invite_code |-> k,
                         game  |-> [game EXCEPT !.clock = Pause(@, now)],
                         seats |-> [s \in Sides |->
                                      IF s = "white" THEN NewSlot(identities[c], c) ELSE None],
                         started_at  |-> 0,
                         finished_at |-> None]
  <2>1. PICK g \in GameIds \ issued, k \in Codes :
            rooms' = [rooms EXCEPT ![g] = room(k)] /\ issued' = issued \cup {g}
    BY <1>2 DEF CreateGame
  <2>2. room(k).finished_at = None /\ finished_games' = finished_games
    BY <1>2 DEF CreateGame
  <2> HIDE DEF room
  <2>3. rooms[g] = None
    BY <2>1 DEF IInv, TypeOK, MapsAgree, RoomsWereIssued, OpenGames
  <2> QED
    BY <2>1, <2>2, <2>3 DEF Serves, IInv, TypeOK
<1> QED
  BY <1>1, <1>2

LEMMA JoinGameServes ==
    ASSUME IInv, NEW c \in Connections, NEW name_ok \in BOOLEAN, NEW k \in Codes,
           JoinGame(c, name_ok, k)
    PROVE  Serves
<1>1. CASE \E code : Refuse(c, code)
  BY <1>1, RefusalServes
<1>2. CASE ~\E code : Refuse(c, code)
  <2> DEFINE g == invites[k]
             room == [rooms[g] EXCEPT !.seats["black"] = NewSlot(identities[c], c),
                                      !.started_at = now,
                                      !.game = Begun(@, now)]
  <2>1. /\ g # None /\ rooms' = [rooms EXCEPT ![g] = Settled(room, now)]
        /\ finished_games' = finished_games /\ issued' = issued
    BY <1>2 DEF JoinGame
  <2>2. g \in GameIds /\ rooms[g] \in Room /\ rooms[g] # None
    BY <2>1 DEF IInv, TypeOK, MapsAgree, InvitesMatchRooms
  <2>3. "finished_at" \in DOMAIN room /\ room.finished_at = rooms[g].finished_at
    BY <2>2 DEF Room
  <2> HIDE DEF g, room
  <2> QED
    BY <2>1, <2>2, <2>3, SettledKeepsMark, OneRoomServes
<1> QED
  BY <1>1, <1>2

LEMMA ReconnectServes ==
    ASSUME IInv, NEW c \in Connections, NEW g \in GameIds, NEW token,
           Reconnect(c, g, token)
    PROVE  Serves
<1>1. CASE \E code : Refuse(c, code)
  BY <1>1, RefusalServes
<1>2. CASE ~\E code : Refuse(c, code)
  <2>1. PICK side \in Sides :
            /\ rooms[g] # None /\ rooms[g].seats[side] # None
            /\ rooms' = [rooms EXCEPT ![g] = Settled(Reseated(rooms[g], side, c), now)]
    BY <1>2 DEF Reconnect
  <2> DEFINE room == Reseated(rooms[g], side, c)
  <2>2. rooms[g] \in Room /\ finished_games' = finished_games /\ issued' = issued
    BY <1>2, <2>1 DEF Reconnect, IInv, TypeOK
  <2>3. "finished_at" \in DOMAIN room /\ room.finished_at = rooms[g].finished_at
    BY <2>2 DEF Reseated, Room
  <2> HIDE DEF room
  <2> QED
    BY <2>1, <2>2, <2>3, SettledKeepsMark, OneRoomServes DEF room
<1> QED
  BY <1>1, <1>2

LEMMA PublishServes ==
    ASSUME IInv, NEW c \in Connections, NEW g, IsMember(c, g), NEW room \in Room, NEW game,
           NEW t, room.finished_at = rooms[g].finished_at,
           rooms' = [rooms EXCEPT ![g] = Settled([room EXCEPT !.game = game], t)],
           finished_games' = finished_games, issued' = issued
    PROVE  Serves
<1> DEFINE played == [room EXCEPT !.game = game]
<1>1. g \in GameIds /\ rooms[g] \in Room /\ rooms[g] # None
  BY MembersHaveRooms
<1>2. "finished_at" \in DOMAIN played /\ played.finished_at = rooms[g].finished_at
  BY DEF Room
<1> HIDE DEF played
<1> QED
  BY <1>1, <1>2, SettledKeepsMark, OneRoomServes DEF played

LEMMA PlayMoveServes ==
    ASSUME IInv, NEW c \in Connections, NEW g \in GameIds, NEW ply \in Nat,
           NEW move, NEW later \in Nat, PlayMove(c, g, ply, move, later)
    PROVE  Serves
<1>1. CASE RefuseStranger(c, g)
  BY <1>1, RefusalServes DEF RefuseStranger
<1>2. CASE ~RefuseStranger(c, g)
  <2> DEFINE room == [rooms[g] EXCEPT !.game.clock = Tick(@, now)]
  <2>1. /\ IsMember(c, g) /\ finished_games' = finished_games /\ issued' = issued
        /\ \/ rooms' = [rooms EXCEPT ![g] = Settled(room, later)]
           \/ \E game : rooms' = [rooms EXCEPT
                              ![g] = Settled([room EXCEPT !.game = game], later)]
    BY <1>2 DEF PlayMove, Publish
  <2>2. rooms[g] \in Room /\ rooms[g] # None /\ now \in Nat
    BY <2>1, MembersHaveRooms DEF IInv, TypeOK
  <2>3. /\ room \in Room /\ room.finished_at = rooms[g].finished_at
        /\ "finished_at" \in DOMAIN room
    <3>1. room.finished_at = rooms[g].finished_at /\ "finished_at" \in DOMAIN room
      BY <2>2 DEF Room
    <3> QED
      BY <2>2, <3>1, TickedKeepsSeats DEF SameSeats
  <2> HIDE DEF room
  <2>4. CASE rooms' = [rooms EXCEPT ![g] = Settled(room, later)]
    BY <2>1, <2>2, <2>3, <2>4, SettledKeepsMark, OneRoomServes
  <2>5. ASSUME NEW game,
               rooms' = [rooms EXCEPT ![g] = Settled([room EXCEPT !.game = game], later)]
        PROVE  Serves
    BY <2>1, <2>3, <2>5, PublishServes
  <2> QED
    BY <2>1, <2>4, <2>5
<1> QED
  BY <1>1, <1>2

LEMMA RequestServes ==
    ASSUME IInv, NEW c \in Connections, GameRequest(c)
    PROVE  Serves
<1>1. ASSUME NEW name_ok \in BOOLEAN, NEW tc \in TimeControls, CreateGame(c, name_ok, tc)
      PROVE  Serves
  BY <1>1, CreateGameServes
<1>2. ASSUME NEW name_ok \in BOOLEAN, NEW k \in Codes, JoinGame(c, name_ok, k)
      PROVE  Serves
  BY <1>2, JoinGameServes
<1>3. ASSUME NEW g \in GameIds, NEW token \in Tokens, Reconnect(c, g, token)
      PROVE  Serves
  BY <1>3, ReconnectServes
<1>4. ASSUME NEW g \in GameIds, NEW ply \in 0..MaxPly, NEW move \in MoveKinds \cup {"illegal"},
             NEW later \in now..MaxTime, PlayMove(c, g, ply, move, later)
      PROVE  Serves
  <2>1. ply \in Nat /\ later \in Nat
    BY HubAssumption DEF IInv, TypeOK
  <2> QED
    BY <1>4, <2>1, PlayMoveServes
<1>5. ASSUME NEW g \in GameIds,
             \/ OfferDraw(c, g) \/ Resign(c, g)
             \/ \E accept \in BOOLEAN : RespondDraw(c, g, accept)
      PROVE  Serves
  <2>1. CASE \E code : Refuse(c, code)
    BY <2>1, RefusalServes
  <2>2. CASE ~\E code : Refuse(c, code)
    <3>1. /\ IsMember(c, g) /\ finished_games' = finished_games /\ issued' = issued
          /\ \E game : rooms' = [rooms EXCEPT
                                  ![g] = Settled([rooms[g] EXCEPT !.game = game], now)]
      BY <1>5, <2>2 DEF OfferDraw, Resign, RespondDraw, RefuseStranger, Publish
    <3>2. rooms[g] \in Room
      BY <3>1, MembersHaveRooms
    <3> QED
      BY <3>1, <3>2, PublishServes
  <2> QED
    BY <2>1, <2>2
<1> QED
  BY <1>1, <1>2, <1>3, <1>4, <1>5 DEF GameRequest

LEMMA DisconnectServes ==
    ASSUME IInv, NEW c \in Connections, Disconnect(c)
    PROVE  Serves
<1>1. finished_games' = finished_games /\ issued' = issued
  BY DEF Disconnect
<1>2. CASE memberships[c] = None
  BY <1>1, <1>2 DEF Disconnect, Serves
<1>3. CASE memberships[c] # None
  <2> DEFINE g == memberships[c].game_id
             side == memberships[c].side
             room == Vacated(rooms[g], side, c, now)
  <2>1. g \in GameIds /\ side \in Sides /\ rooms[g] \in Room /\ rooms[g] # None
    BY <1>3, MembersHaveRooms DEF IsMember
  <2>2. rooms' = [rooms EXCEPT ![g] = room]
    BY <1>3, <2>1 DEF Disconnect
  <2>3. room.finished_at = rooms[g].finished_at
    BY <2>1 DEF Vacated, Room
  <2> HIDE DEF room, g
  <2> QED
    BY <1>1, <2>1, <2>2, <2>3, OneRoomServes
<1> QED
  BY <1>2, <1>3

LEMMA EncodeServes ==
    ASSUME IInv, EncodeIfDirty
    PROVE  Serves
<1>1. ASSUME NEW g \in GameIds, rooms'[g] # None
      PROVE  rooms[g] # None /\ rooms'[g].finished_at = rooms[g].finished_at
  <2>1. rooms[g] # None /\ rooms'[g] = Settled(rooms[g], now)
    BY <1>1 DEF EncodeIfDirty
  <2>2. "finished_at" \in DOMAIN rooms[g]
    BY <2>1 DEF IInv, TypeOK, Room
  <2> QED
    BY <2>1, <2>2, SettledKeepsMark
<1> QED
  BY <1>1 DEF EncodeIfDirty, Serves

LEMMA HubStepServes ==
    ASSUME IInv, HubStep
    PROVE  Serves
<1>1. ASSUME NEW c \in Connections, Disconnect(c)  PROVE Serves
  BY <1>1, DisconnectServes
<1>2. ASSUME NEW c \in Connections, GameRequest(c)  PROVE Serves
  BY <1>2, RequestServes
<1>3. CASE \/ Connect \/ AdvanceTime
           \/ \E c \in Connections : SignOut(c)
           \/ \E c \in Connections, user \in Users : SignIn(c, user)
  BY <1>3 DEF Connect, AdvanceTime, SignIn, SignOut, Serves
<1> QED
  BY <1>1, <1>2, <1>3 DEF HubStep

\* The records that have not reached the history yet.
Records == finished_games \cup recording

\* Whatever is recorded or on its way was issued once, so a new game finds no
\* record of its own.
RecordsIssued ==
    /\ recording \subseteq FinishedGame
    /\ history \in [GameIds -> Outcomes \cup {None}]
    /\ \A record \in Records : record.game_id \in issued
    /\ \A g \in GameIds : history[g] # None => g \in issued

\* Until the first restart, what is recorded of a game is its result.
FirstRecords ==
    starts = 1 =>
        \A g \in OpenGames :
            /\ \A record \in Records : record.game_id = g =>
                  rooms[g].finished_at # None /\ record.result = Outcome(rooms[g].game)
            /\ history[g] # None =>
                  rooms[g].finished_at # None /\ history[g] = Outcome(rooms[g].game)

RecordsInv == RecordsIssued /\ FirstRecords /\ RecordsAreOnTheirWay

\* In an orderly room a mark stands for a result that no step changes.
LEMMA MarkedResultStays ==
    ASSUME PersistInv, InOrder, NEW g \in GameIds, rooms[g] # None,
           rooms[g].finished_at # None, NEW room, RoomStep(room, rooms[g])
    PROVE  Outcome(room.game) = Outcome(rooms[g].game)
<1>1. Joined(rooms[g]) /\ IsOver(rooms[g].game)
  BY DEF PersistInv, FinishedAreOver, OpenGames, Ended
<1> QED
  BY <1>1 DEF InOrder, GamesOrderly, OpenGames, RoomStep

\* A step that makes no record and takes none.
LEMMA ServesKeepsRecords ==
    ASSUME PersistInv, InOrder, RecordsInv, RoomsStep, Serves,
           UNCHANGED <<recording, history, starts>>
    PROVE  RecordsInv'
<1>1. Records' = Records /\ issued \subseteq issued' /\ history' = history /\ starts' = starts
  BY DEF Serves, Records
<1>2. RecordsIssued'
  BY <1>1 DEF RecordsInv, RecordsIssued
<1>3. ASSUME NEW g \in GameIds, rooms'[g] # None, rooms[g] = None
      PROVE  /\ rooms'[g].finished_at = None /\ history[g] = None
             /\ \A record \in Records : record.game_id # g
  BY <1>3 DEF Serves, RecordsInv, RecordsIssued
<1>4. ASSUME NEW g \in GameIds, rooms'[g] # None, rooms[g] # None
      PROVE  /\ rooms'[g].finished_at = rooms[g].finished_at
             /\ rooms[g].finished_at # None =>
                   Outcome(rooms'[g].game) = Outcome(rooms[g].game)
  BY <1>4, MarkedResultStays DEF Serves, RoomsStep
<1>5. FirstRecords'
  <2> SUFFICES ASSUME starts = 1, NEW g \in GameIds, rooms'[g] # None
               PROVE  /\ \A record \in Records : record.game_id = g =>
                            /\ rooms'[g].finished_at # None
                            /\ record.result = Outcome(rooms'[g].game)
                      /\ history[g] # None =>
                            /\ rooms'[g].finished_at # None
                            /\ history[g] = Outcome(rooms'[g].game)
    BY <1>1 DEF FirstRecords, OpenGames
  <2>1. CASE rooms[g] = None
    BY <1>3, <2>1
  <2>2. CASE rooms[g] # None
    BY <1>4, <2>2 DEF RecordsInv, FirstRecords, OpenGames
  <2> QED
    BY <2>1, <2>2
<1>6. RecordsAreOnTheirWay'
  <2> SUFFICES ASSUME NEW g \in GameIds, rooms'[g] # None, rooms'[g].finished_at # None
               PROVE  \/ history[g] = Outcome(rooms'[g].game)
                      \/ starts > 1 /\ history[g] # None
                      \/ \E record \in Records :
                            record.game_id = g /\ record.result = Outcome(rooms'[g].game)
    BY <1>1 DEF RecordsAreOnTheirWay, Records, OpenGames
  <2>1. rooms[g] # None
    BY <1>3
  <2> QED
    BY <1>4, <2>1 DEF RecordsInv, RecordsAreOnTheirWay, Records, OpenGames
<1> QED
  BY <1>2, <1>5, <1>6 DEF RecordsInv

LEMMA RestKeepsRecords ==
    ASSUME PersistInv, InOrder, RecordsInv, UNCHANGED <<rooms, finished_games, issued>>,
           UNCHANGED <<recording, history, starts>>
    PROVE  RecordsInv'
<1>1. RoomsStep
  BY SameRoomStep DEF RoomsStep, PersistInv, IInv, TypeOK
<1>2. Serves
  BY DEF Serves
<1> QED
  BY <1>1, <1>2, ServesKeepsRecords

\* A tick records what it marks, and it only ticks when nothing is on its way.
LEMMA TickKeepsRecords ==
    ASSUME PersistInv, InOrder, RecordsInv, TickerTicks
    PROVE  RecordsInv'
<1> DEFINE record(g) == FinishedRecord(g, TickedRoom(rooms[g], now))
<1>1. /\ Records = {} /\ recording' = {} /\ history' = history /\ starts' = starts
      /\ TickAt /\ issued' = issued /\ now \in Nat
  BY DEF TickerTicks, Records, storeVars, TickAt, PersistInv, IInv, TypeOK
<1>2. RoomsStep
  BY <1>1, TickAtStays DEF Stays, PersistInv
<1>3. ASSUME NEW g \in GameIds, rooms'[g] # None
      PROVE  /\ rooms[g] # None /\ rooms[g] \in Room
             /\ rooms'[g] = TickedRoom(rooms[g], now) /\ RoomStep(rooms'[g], rooms[g])
  <2>1. rooms[g] # None /\ rooms'[g] = TickedRoom(rooms[g], now)
    BY <1>1, <1>3 DEF TickAt, OpenGames
  <2> QED
    BY <1>2, <1>3, <2>1 DEF RoomsStep, PersistInv, IInv, TypeOK
<1>4. \A r \in Records' : \E g \in OpenGames : Finishes(rooms[g], now) /\ r = record(g)
  BY <1>1 DEF TickAt, Records, TickerTicks
<1>5. \A g \in OpenGames : Finishes(rooms[g], now) => record(g) \in Records'
  BY <1>1 DEF TickAt, Records
<1>6. \A g \in GameIds : record(g).game_id = g
                        /\ record(g).result = Outcome(TickedRoom(rooms[g], now).game)
  BY DEF FinishedRecord
<1> HIDE DEF record
<1>7. RecordsIssued'
  <2>1. \A r \in Records' : r.game_id \in issued'
    BY <1>1, <1>4, <1>6 DEF OpenGames, PersistInv, IInv, MapsAgree, RoomsWereIssued
  <2> QED
    BY <1>1, <2>1 DEF RecordsInv, RecordsIssued
<1>8. ASSUME NEW g \in GameIds, rooms'[g] # None, Finishes(rooms[g], now)
      PROVE  /\ rooms'[g].finished_at # None /\ rooms[g].finished_at = None
             /\ record(g) \in Records' /\ record(g).game_id = g
             /\ record(g).result = Outcome(rooms'[g].game)
  <2>1. Enforced(rooms[g], now) \in Room
    BY <1>1, <1>3, <1>8, EnforcedRoom
  <2>2. rooms'[g].finished_at = now
    BY <1>3, <1>8, <2>1 DEF TickedRoom, Room
  <2>3. g \in OpenGames
    BY <1>3, <1>8 DEF OpenGames
  <2> QED
    BY <1>1, <1>3, <1>5, <1>6, <1>8, <2>2, <2>3, NoneAssumption DEF Finishes
<1>9. ASSUME NEW g \in GameIds, rooms'[g] # None, ~Finishes(rooms[g], now)
      PROVE  /\ rooms'[g].finished_at = rooms[g].finished_at
             /\ rooms[g].finished_at # None =>
                   Outcome(rooms'[g].game) = Outcome(rooms[g].game)
             /\ \A r \in Records' : r.game_id # g
  <2>1. rooms'[g].finished_at = rooms[g].finished_at
    BY <1>1, <1>3, <1>9, EnforcedRoom DEF TickedRoom
  <2>2. \A r \in Records' : r.game_id # g
    BY <1>4, <1>6, <1>9 DEF OpenGames
  <2> QED
    BY <1>3, <1>9, <2>1, <2>2, MarkedResultStays
<1>10. FirstRecords'
  <2> SUFFICES ASSUME starts = 1, NEW g \in GameIds, rooms'[g] # None
               PROVE  /\ \A r \in Records' : r.game_id = g =>
                            /\ rooms'[g].finished_at # None
                            /\ r.result = Outcome(rooms'[g].game)
                      /\ history[g] # None =>
                            /\ rooms'[g].finished_at # None
                            /\ history[g] = Outcome(rooms'[g].game)
    BY <1>1 DEF FirstRecords, OpenGames
  <2>1. history[g] # None =>
            rooms[g].finished_at # None /\ history[g] = Outcome(rooms[g].game)
    BY <1>3 DEF RecordsInv, FirstRecords, OpenGames
  <2>2. CASE Finishes(rooms[g], now)
    <3>1. history[g] = None
      BY <1>8, <2>1, <2>2
    <3>2. \A r \in Records' : r.game_id = g => r = record(g)
      BY <1>4, <1>6 DEF OpenGames
    <3> QED
      BY <1>8, <2>2, <3>1, <3>2
  <2>3. CASE ~Finishes(rooms[g], now)
    BY <1>9, <2>1, <2>3
  <2> QED
    BY <2>2, <2>3
<1>11. RecordsAreOnTheirWay'
  <2> SUFFICES ASSUME NEW g \in GameIds, rooms'[g] # None, rooms'[g].finished_at # None
               PROVE  \/ history[g] = Outcome(rooms'[g].game)
                      \/ starts > 1 /\ history[g] # None
                      \/ \E r \in Records' :
                            r.game_id = g /\ r.result = Outcome(rooms'[g].game)
    BY <1>1 DEF RecordsAreOnTheirWay, Records, OpenGames
  <2>1. CASE Finishes(rooms[g], now)
    BY <1>8, <2>1
  <2>2. CASE ~Finishes(rooms[g], now)
    <3>1. \/ history[g] = Outcome(rooms[g].game)
          \/ starts > 1 /\ history[g] # None
      BY <1>1, <1>3, <1>9, <2>2 DEF RecordsInv, RecordsAreOnTheirWay, Records, OpenGames
    <3> QED
      BY <1>9, <2>2, <3>1
  <2> QED
    BY <2>1, <2>2
<1> QED
  BY <1>7, <1>10, <1>11 DEF RecordsInv

\* A handed-over batch is on its way all the same.
LEMMA TakingKeepsRecords ==
    ASSUME Database = "reliable", PersistInv, InOrder, RecordsInv, RecorderTakes
    PROVE  RecordsInv'
<1>1. /\ Records' = Records /\ recording' = finished_games
      /\ UNCHANGED <<rooms, issued, history, starts>>
  BY DEF RecorderTakes, TakeFinishedGames, Records
<1>2. RecordsIssued'
  BY <1>1 DEF RecordsInv, RecordsIssued, PersistInv, IInv, TypeOK
<1>3. FirstRecords' /\ RecordsAreOnTheirWay'
  BY <1>1 DEF RecordsInv, FirstRecords, RecordsAreOnTheirWay, Records, OpenGames
<1> QED
  BY <1>2, <1>3 DEF RecordsInv

\* A batch that lands is the history of its games, unless there was one before.
LEMMA LandingKeepsRecords ==
    ASSUME Database = "reliable", PersistInv, RecordsInv, starts \in Nat \ {0}, RecordsLand
    PROVE  RecordsInv'
<1>1. /\ history' = WithRecords(recording) /\ recording' = {}
      /\ UNCHANGED <<rooms, finished_games, issued, starts>>
      /\ Records' = finished_games /\ finished_games \subseteq Records
      /\ recording \subseteq Records
  BY DEF RecordsLand, Records, vars
<1>2. ASSUME NEW g \in GameIds
      PROVE  \/ history'[g] = history[g] /\ (history[g] # None \/ \A r \in recording : r.game_id # g)
             \/ /\ history[g] = None
                /\ \E r \in recording : r.game_id = g /\ history'[g] = r.result
  <2>1. CASE history[g] = None /\ \E r \in recording : r.game_id = g
    <3> DEFINE found == CHOOSE r \in recording : r.game_id = g
    <3>1. found \in recording /\ found.game_id = g
      BY <2>1
    <3>2. history'[g] = found.result
      BY <1>1, <2>1 DEF WithRecords
    <3> HIDE DEF found
    <3> QED
      BY <2>1, <3>1, <3>2
  <2>2. CASE ~(history[g] = None /\ \E r \in recording : r.game_id = g)
    BY <1>1, <2>2 DEF WithRecords
  <2> QED
    BY <2>1, <2>2
<1>3. \A r \in recording : r.result \in Outcomes /\ r.result # None
  BY OutcomeAssumption DEF RecordsInv, RecordsIssued, FinishedGame
<1>4. RecordsIssued'
  <2>1. history' \in [GameIds -> Outcomes \cup {None}]
    <3>1. \A g \in GameIds : history'[g] \in Outcomes \cup {None}
      BY <1>2, <1>3 DEF RecordsInv, RecordsIssued
    <3>2. history' = [g \in GameIds |-> history'[g]]
      BY <1>1 DEF WithRecords
    <3> QED
      BY <3>1, <3>2
  <2>2. \A g \in GameIds : history'[g] # None => g \in issued
    BY <1>1, <1>2 DEF RecordsInv, RecordsIssued
  <2> QED
    BY <1>1, <2>1, <2>2 DEF RecordsInv, RecordsIssued
<1>5. FirstRecords'
  <2> SUFFICES ASSUME starts = 1, NEW g \in GameIds, rooms[g] # None
               PROVE  /\ \A r \in finished_games : r.game_id = g =>
                            /\ rooms[g].finished_at # None
                            /\ r.result = Outcome(rooms[g].game)
                      /\ history'[g] # None =>
                            /\ rooms[g].finished_at # None
                            /\ history'[g] = Outcome(rooms[g].game)
    BY <1>1 DEF FirstRecords, OpenGames
  <2>1. /\ \A r \in Records : r.game_id = g =>
              rooms[g].finished_at # None /\ r.result = Outcome(rooms[g].game)
        /\ history[g] # None =>
              rooms[g].finished_at # None /\ history[g] = Outcome(rooms[g].game)
    BY DEF RecordsInv, FirstRecords, OpenGames
  <2> QED
    BY <1>1, <1>2, <2>1
<1>6. RecordsAreOnTheirWay'
  <2> SUFFICES ASSUME NEW g \in GameIds, rooms[g] # None, rooms[g].finished_at # None
               PROVE  \/ history'[g] = Outcome(rooms[g].game)
                      \/ starts > 1 /\ history'[g] # None
                      \/ \E r \in finished_games :
                            r.game_id = g /\ r.result = Outcome(rooms[g].game)
    BY <1>1 DEF RecordsAreOnTheirWay, OpenGames
  <2>1. \/ history[g] = Outcome(rooms[g].game)
        \/ starts > 1 /\ history[g] # None
        \/ \E r \in Records : r.game_id = g /\ r.result = Outcome(rooms[g].game)
    BY DEF RecordsInv, RecordsAreOnTheirWay, OpenGames, Records
  <2>2. Outcome(rooms[g].game) # None
    BY DEF PersistInv, FinishedAreOver, OpenGames, Ended, IsOver
  <2>3. starts = 1 =>
            /\ \A r \in Records : r.game_id = g => r.result = Outcome(rooms[g].game)
            /\ history[g] # None => history[g] = Outcome(rooms[g].game)
    BY DEF RecordsInv, FirstRecords, OpenGames
  <2>4. starts = 1 \/ starts > 1
    OBVIOUS
  <2>5. \A r \in Records : r \in finished_games \/ r \in recording
    BY DEF Records
  <2> QED
    BY <1>1, <1>2, <1>3, <2>1, <2>2, <2>3, <2>4, <2>5
<1> QED
  BY <1>4, <1>5, <1>6 DEF RecordsInv

\* A hub that is gone has no marks, and one that comes back has none yet.
LEMMA RestartKeepsRecords ==
    ASSUME PersistInv, RecordsInv, starts \in Nat \ {0}, HubIsLost \/ Start
    PROVE  RecordsInv'
<1>1. CASE HubIsLost
  <2>1. Records' = {} /\ UNCHANGED <<issued, history, starts>> /\ recording' = {}
    BY <1>1 DEF HubIsLost, Records
  <2>2. OpenGames' = {}
    BY <1>1, LossKeepsHub DEF PersistInv
  <2> QED
    BY <2>1, <2>2 DEF RecordsInv, RecordsIssued, FirstRecords, RecordsAreOnTheirWay
<1>2. CASE Start
  <2>1. /\ Records' = Records /\ UNCHANGED <<issued, history, recording>>
        /\ starts' = starts + 1
    BY <1>2 DEF Start, Records
  <2>2. ASSUME NEW g \in GameIds, rooms'[g] # None
        PROVE  rooms'[g].finished_at = None
    <3> DEFINE saved == disk.rooms[g]
               d == SaturatingSub(now, disk.saved_at)
    <3>1. /\ d \in Nat /\ saved \in SavedRoom /\ rooms'[g] = RestoredRoom(saved, d, now)
          /\ ~saved.joined => saved.users["black"] = None
      BY <1>2, <2>2, LoadedRooms DEF PersistInv
    <3>2. RestoredRoom(saved, d, now).finished_at = None
      BY DEF RestoredRoom
    <3> HIDE DEF saved, d
    <3> QED
      BY <3>1, <3>2
  <2>3. RecordsIssued'
    BY <2>1 DEF RecordsInv, RecordsIssued
  <2>4. starts' # 1
    BY <2>1
  <2> QED
    BY <2>2, <2>3, <2>4 DEF RecordsInv, FirstRecords, RecordsAreOnTheirWay, OpenGames
<1> QED
  BY <1>1, <1>2

LEMMA StepKeepsRecords ==
    ASSUME Database = "reliable", PersistInv, FirstLife, InOrder, RecordsInv,
           [PersistenceNext]_allVars
    PROVE  RecordsInv'
<1>0. IInv /\ starts \in Nat \ {0}
  BY DEF PersistInv, FirstLife
<1>1. CASE HubStep
  <2>1. [Next]_vars /\ UNCHANGED <<recording, history, starts>>
    BY <1>1 DEF HubStep, Next, storeVars
  <2> QED
    BY <1>0, <1>1, <2>1, NextStays, HubStepServes, ServesKeepsRecords DEF Stays
<1>2. CASE TickerTicks
  BY <1>2, TickKeepsRecords
<1>3. CASE PersisterEncodes \/ (ShutdownEncodes /\ EncodeIfDirty)
  <2>1. EncodeIfDirty /\ UNCHANGED <<recording, history, starts>>
    BY <1>3 DEF PersisterEncodes, ShutdownEncodes
  <2> QED
    BY <1>0, <2>1, EncodeStays, EncodeServes, ServesKeepsRecords DEF Stays
<1>4. CASE \/ ShutdownEncodes /\ ~EncodeIfDirty
           \/ \E w \in Writers : WriteLands(w) \/ WriteFails(w)
           \/ Stop \/ UNCHANGED allVars
  <2>1. UNCHANGED <<rooms, finished_games, issued>> /\ UNCHANGED <<recording, history, starts>>
    BY <1>4 DEF ShutdownEncodes, WriteLands, WriteFails, Stop, allVars, vars, storeVars
  <2> QED
    BY <2>1, RestKeepsRecords
<1>5. CASE RecorderTakes
  BY <1>5, TakingKeepsRecords
<1>6. CASE RecordsLand
  BY <1>0, <1>6, LandingKeepsRecords
<1>7. CASE HubIsLost \/ Start
  BY <1>0, <1>7, RestartKeepsRecords
<1> QED
  BY <1>1, <1>2, <1>3, <1>4, <1>5, <1>6, <1>7 DEF PersistenceNext, Exit, Crash

-----------------------------------------------------------------------------
(* The theorems                                                            *)

LEMMA PersistInvHolds == PersistenceSpec => [](PersistInv /\ FirstLife)
<1>1. PersistenceInit => PersistInv /\ FirstLife
  <2> SUFFICES ASSUME PersistenceInit PROVE PersistInv /\ FirstLife
    OBVIOUS
  <2>1. IInv /\ OpenGames = {}
    BY InitEstablishesInvariant DEF PersistenceInit, Init, OpenGames
  <2>2. Files \subseteq {None}
    BY DEF PersistenceInit, Files, Writers
  <2>3. FinishedAreOver /\ GamesOnTime
    BY <2>1 DEF FinishedAreOver, GamesOnTime
  <2>4. FilesAreGood /\ FilesOnTime
    BY <2>2 DEF PersistenceInit, FilesAreGood, FilesOnTime
  <2>5. DownMeansEmpty
    BY DEF PersistenceInit, DownMeansEmpty
  <2>6. CleanMeansSaved /\ RunningMeansUntold
    BY DEF PersistenceInit, Init, CleanMeansSaved, RunningMeansUntold, InMemory, OnDisk,
       Writers
  <2> QED
    BY <2>1, <2>3, <2>4, <2>5, <2>6 DEF PersistInv, FirstLife, PersistenceInit
<1>2. PersistInv /\ FirstLife /\ [PersistenceNext]_allVars => (PersistInv /\ FirstLife)'
  BY StepKeepsHub, StepKeepsFiles, StepKeepsDown, StepKeepsClean, StepKeepsFirstLife
  DEF PersistInv
<1> QED
  BY <1>1, <1>2, PTL DEF PersistenceSpec

\* However often the server crashes, is stopped and comes back, its rooms, invites
\* and memberships agree, seats are dated absent exactly while nobody holds
\* them: Hub::load rebuilds what it does not read from the file.
THEOREM RestartsKeepMaps ==
    PersistenceSpec => [](SeatsMatchMemberships /\ InvitesMatchRooms /\ AbsenceIsDated)
BY PersistInvHolds, PTL DEF PersistInv, IInv, MapsAgree

\* While the state is clean, whatever was changed is in the file or on its way
\* there, through any interleaving of requests, ticks, evictions, slow and failed
\* writes: nothing that clears the dirty flag forgets a change.
THEOREM NothingIsForgotten == PersistenceSpec => []CleanMeansSaved
BY PersistInvHolds, PTL DEF PersistInv

\* A resignation, an agreed draw or a forfeit that reached the file decides the
\* game of the next process too, whatever the clocks and the board say.
THEOREM ResultsComeBack == PersistenceSpec => RestartKeepsResults
<1>1. ASSUME PersistInv, [PersistenceNext]_allVars,
             phase = "down", phase' = "running", disk # None, NEW g \in GameIds
      PROVE  LET saved == disk.rooms[g]
             IN  /\ saved # None => rooms'[g] # None
                 /\ saved # None /\ saved.resigned # None =>
                      Outcome(rooms'[g].game) = Result("resignation", saved.resigned)
                 /\ saved # None /\ saved.resigned = None /\ saved.agreed_draw =>
                      Outcome(rooms'[g].game) = Result("agreement", None)
                 /\ saved # None /\ saved.abandoned # None => IsOver(rooms'[g].game)
  <2> DEFINE saved == disk.rooms[g]
             d == SaturatingSub(now, disk.saved_at)
  <2>1. Start
    BY <1>1 DEF PersistenceNext, HubStep, TickerTicks, PersisterEncodes, ShutdownEncodes,
       WriteLands, WriteFails, AfterWrite, RecorderTakes, RecordsLand, Stop, Exit, Crash,
       HubIsLost, storeVars, allVars
  <2>2. CASE saved # None
    <3>1. /\ d \in Nat /\ saved \in SavedRoom /\ rooms'[g] = RestoredRoom(saved, d, now)
          /\ rooms'[g] # None /\ now \in Nat
          /\ ~saved.joined => saved.users["black"] = None
      BY <1>1, <2>1, <2>2, LoadedRooms DEF PersistInv, IInv, TypeOK
    <3> HIDE DEF saved, d
    <3>2. rooms'[g].game = RestoredGame(saved, d, now)
      BY <3>1, RestoredRoomType
    <3>3. /\ saved.resigned # None =>
                Outcome(rooms'[g].game) = Result("resignation", saved.resigned)
          /\ saved.resigned = None /\ saved.agreed_draw =>
                Outcome(rooms'[g].game) = Result("agreement", None)
          /\ saved.abandoned # None => IsOver(rooms'[g].game)
      BY <3>1, <3>2, RestoredResults
    <3> QED
      BY <3>1, <3>3 DEF saved
  <2> QED
    BY <2>2
<1>2. PersistInv /\ [PersistenceNext]_allVars =>
        (phase = "down" /\ phase' = "running" /\ disk # None =>
         \A g \in GameIds :
            LET saved == disk.rooms[g]
            IN  /\ saved # None => rooms'[g] # None
                /\ saved # None /\ saved.resigned # None =>
                     Outcome(rooms'[g].game) = Result("resignation", saved.resigned)
                /\ saved # None /\ saved.resigned = None /\ saved.agreed_draw =>
                     Outcome(rooms'[g].game) = Result("agreement", None)
                /\ saved # None /\ saved.abandoned # None => IsOver(rooms'[g].game))
  BY <1>1
<1> QED
  BY <1>2, PersistInvHolds, PTL DEF PersistenceSpec, RestartKeepsResults

\* The first restart charges the running clock exactly the time since the state
\* was encoded, for every time control and however long the server was down.
THEOREM DowntimeIsCharged == PersistenceSpec => RestartChargesDowntime
<1>1. ASSUME PersistInv, FirstLife, [PersistenceNext]_allVars,
             phase = "down", phase' = "running", starts = 1
      PROVE  ClockConservation'
  <2> USE <1>1 DEF PersistInv
  <2>1. Start
    BY DEF PersistenceNext, HubStep, TickerTicks, PersisterEncodes, ShutdownEncodes,
       WriteLands, WriteFails, AfterWrite, RecorderTakes, RecordsLand, Stop, Exit, Crash,
       HubIsLost, storeVars, allVars
  <2>2. ASSUME NEW g \in GameIds, rooms'[g] # None, rooms'[g].game.clock.running # None
        PROVE  rooms'[g].game.clock.remaining["white"] + rooms'[g].game.clock.remaining["black"]
                 = 2 * rooms'[g].game.clock.initial
                   + rooms'[g].game.clock.increment * Len(rooms'[g].game.moves)
                   - (rooms'[g].game.clock.running.since - rooms'[g].started_at)
    <3> DEFINE saved == disk.rooms[g]
               d == SaturatingSub(now, disk.saved_at)
    <3>1. disk # None /\ saved # None
      BY <2>1, <2>2, LoadedRooms
    <3>2. /\ d \in Nat /\ saved \in SavedRoom /\ rooms'[g] = RestoredRoom(saved, d, now)
          /\ ~saved.joined => saved.users["black"] = None
      BY <2>1, <3>1, LoadedRooms
    <3>3. disk \in Saved /\ disk.saved_at <= now /\ now \in Nat /\ disk.saved_at \in Nat
      <4>1. disk \in Saved /\ GoodFile(disk, now, issued)
        BY <2>1, <3>1 DEF Start, FilesAreGood, Files
      <4> QED
        BY <4>1 DEF GoodFile, Saved, IInv, TypeOK
    <3>4. SavedOnTime(saved, disk.saved_at)
      BY <2>1, <3>1 DEF Start, FirstLife, FilesOnTime, Files
    <3> HIDE DEF saved, d
    <3>5. /\ rooms'[g].game = RestoredGame(saved, d, now)
          /\ rooms'[g].started_at = saved.started_at
      BY <3>2, <3>3, RestoredRoomType
    <3>6. LET game == RestoredGame(saved, d, now)
          IN  game.clock.running # None =>
                 game.clock.remaining["white"] + game.clock.remaining["black"]
                   = 2 * game.clock.initial + game.clock.increment * Len(game.moves)
                     - (game.clock.running.since - saved.started_at)
      BY <3>2, <3>3, <3>4, RestoredOnTime DEF d
    <3> QED
      BY <2>2, <3>5, <3>6
  <2> QED
    BY <2>2 DEF ClockConservation, OpenGames
<1>2. PersistInv /\ FirstLife /\ [PersistenceNext]_allVars =>
        (phase = "down" /\ phase' = "running" /\ starts = 1 => ClockConservation')
  BY <1>1
<1> QED
  BY <1>2, PersistInvHolds, PTL DEF PersistenceSpec, RestartChargesDowntime

\* A result that the ticker marked is in the history or on its way there, through
\* every hand-over between ticker, database task and shutdown, every crash and
\* every restart, if the database fails no insert; and what the first process
\* recorded of a game is what the game's result stays.
THEOREM ResultsAreOnTheirWay ==
    ASSUME Database = "reliable"
    PROVE  PersistenceSpec => []RecordsAreOnTheirWay
<1>1. PersistenceInit => InOrder /\ RecordsInv
  <2> SUFFICES ASSUME PersistenceInit PROVE InOrder /\ RecordsInv
    OBVIOUS
  <2>1. OpenGames = {} /\ Files \subseteq {None} /\ Records = {}
    BY DEF PersistenceInit, Init, OpenGames, Files, Writers, Records
  <2>2. InOrder
    BY <2>1 DEF InOrder, GamesOrderly, FilesOrderly
  <2>3. RecordsIssued
    BY <2>1 DEF RecordsIssued, PersistenceInit
  <2> QED
    BY <2>1, <2>2, <2>3 DEF RecordsInv, FirstRecords, RecordsAreOnTheirWay
<1>2. PersistInv /\ FirstLife /\ InOrder /\ RecordsInv /\ [PersistenceNext]_allVars
        => (InOrder /\ RecordsInv)'
  BY StepKeepsOrder, StepKeepsRecords
<1>3. RecordsInv => RecordsAreOnTheirWay
  BY DEF RecordsInv
<1> QED
  BY <1>1, <1>2, <1>3, PersistInvHolds, PTL DEF PersistenceSpec
==============================================================================
