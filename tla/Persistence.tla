----------------------------- MODULE Persistence -----------------------------
(***************************************************************************)
(* The hub beside its two stores: the state file that persist() writes and *)
(* Hub::load reads back (crates/chess-server/src/server.rs and hub.rs),    *)
(* and the games table of the history database (store.rs).                 *)
(*                                                                         *)
(* A write of the state file is two steps: the rooms are encoded under the *)
(* hub lock, and land on disk after it is released.  Here landing is one   *)
(* step; module StateFile models the file operations it is made of.        *)
(*                                                                         *)
(* A process that crashes loses the hub and whatever is in flight.  One    *)
(* that is told to stop aborts its ticker and persister, writes the state  *)
(* and the history once more and exits, while the tasks of its sockets go  *)
(* on serving requests until it does.  The write that the persister had    *)
(* begun goes on too, over the same temporary file as the final one: the   *)
(* two can leave a torn file, from which no process starts.                *)
(***************************************************************************)
EXTENDS Hub

CONSTANTS
    Torn,           \* a file that is not one whole state
    MaxStarts,      \* bound: processes started in one run
    MayStop,        \* bound: whether a run has graceful stops
    Database        \* the history database: absent, reliable or failing

ASSUME PersistenceAssumption ==
    MaxStarts \in Nat /\ MayStop \in BOOLEAN /\ Database \in {"none", "reliable", "fails"}

VARIABLES
    disk,       \* the state file: None until the first write
    writing,    \* per writer, the encoded state it is writing
    recording,  \* finished games handed to the database task
    history,    \* the games table: the result first recorded for a game
    phase,      \* where the process is in its life
    starts,     \* processes started so far
    stop        \* whether this process was told to stop, and its two writers met

storeVars == <<disk, writing, recording, history, phase, starts, stop>>
allVars == <<vars, storeVars>>

Writers == {"persister", "shutdown"}

\* The phases of serve_with: serving, then after the stop signal the final
\* persist before and while it writes, then the final record; down is no process.
Phases == {"running", "flushing", "writing", "recording", "down"}

\* Whether the process has been told to stop, and whether its final persist then
\* began while the persister's last write was still under way.
Stops == {"none", "told", "overlapping"}

-----------------------------------------------------------------------------
(* The saved form of a room *)

SavedRoom == [invite_code : Codes,
              revision    : Nat,
              moves       : Seq(MoveKinds),
              initial     : Nat \cup {None},
              increment   : Nat,
              remaining   : [Sides -> Nat],
              running     : Sides \cup {None},
              users       : [Sides -> Users \cup {None}],
              joined      : BOOLEAN,
              resigned    : Sides \cup {None},
              draw_offer  : Sides \cup {None},
              agreed_draw : BOOLEAN,
              abandoned   : Sides \cup {None},
              started_at  : Nat]

Saved == [saved_at : Nat, rooms : [GameIds -> SavedRoom \cup {None}]]

ASSUME SavedAssumption ==
    None \notin SavedRoom /\ None \notin Saved /\ Torn \notin Saved \cup {None}

\* PersistedRoom::capture of a room whose clock is settled.  Neither the flag
\* nor who is connected is saved.
Capture(room) ==
    LET game == room.game
    IN  [invite_code |-> room.invite_code,
         revision    |-> game.revision,
         moves       |-> game.moves,
         initial     |-> game.clock.initial,
         increment   |-> game.clock.increment,
         remaining   |-> game.clock.remaining,
         running     |-> IF game.clock.running = None THEN None
                         ELSE game.clock.running.side,
         users       |-> [s \in Sides |-> IF room.seats[s] = None THEN None
                                          ELSE room.seats[s].user],
         joined      |-> Joined(room),
         resigned    |-> game.resigned,
         draw_offer  |-> game.draw_offer,
         agreed_draw |-> game.agreed_draw,
         abandoned   |-> game.abandoned,
         started_at  |-> room.started_at]

Encoded(t) ==
    [saved_at |-> t,
     rooms |-> [g \in GameIds |-> IF rooms[g] = None THEN None
                                  ELSE Capture(Settled(rooms[g], t))]]

\* Mutant: the time the server was down is not charged.
LeftUncharged(saved, downtime) == saved.remaining

\* What the running side has left after downtime.
Left(saved, downtime) ==
    [s \in Sides |-> IF saved.running = s
                     THEN SaturatingSub(saved.remaining[s], downtime)
                     ELSE saved.remaining[s]]

RestoredClock(saved, side, downtime, t) ==
    LET left  == Left(saved, downtime)
        clock == Restore(NewClock(saved.initial, saved.increment, side, t), left, side,
                         saved.running # None /\ \A s \in Sides : left[s] > 0, t)
    IN  IF saved.running # None /\ left[saved.running] = 0 /\ saved.initial # None
        THEN [clock EXCEPT !.flagged = saved.running, !.running = None]
        ELSE clock

\* Mutant: only what a player asked for is restored, not a forfeit.
RestoredGameUnforfeited(saved, downtime, t) ==
    LET replayed == [NewGame("white", saved.initial, saved.increment, t)
                        EXCEPT !.moves = saved.moves]
    IN  [replayed EXCEPT
            !.clock = RestoredClock(saved, SideToMove(replayed), downtime, t),
            !.resigned = saved.resigned,
            !.draw_offer = saved.draw_offer,
            !.agreed_draw = saved.agreed_draw,
            !.revision = saved.revision]

RestoredGame(saved, downtime, t) ==
    LET replayed == [NewGame("white", saved.initial, saved.increment, t)
                        EXCEPT !.moves = saved.moves]
    IN  [replayed EXCEPT
            !.clock = RestoredClock(saved, SideToMove(replayed), downtime, t),
            !.resigned = saved.resigned,
            !.draw_offer = saved.draw_offer,
            !.agreed_draw = saved.agreed_draw,
            !.abandoned = saved.abandoned,
            !.revision = saved.revision]

\* Mutant: a restored seat is not dated absent.
RestoredSlotUndated(saved, side, t) ==
    IF side = "black" /\ ~saved.joined THEN None
    ELSE NewSlot(saved.users[side], None)

RestoredSlot(saved, side, t) ==
    IF side = "black" /\ ~saved.joined THEN None
    ELSE [user |-> saved.users[side], connection |-> None, disconnected_at |-> t]

RestoredRoom(saved, downtime, t) ==
    [invite_code |-> saved.invite_code,
     game        |-> RestoredGame(saved, downtime, t),
     seats       |-> [s \in Sides |-> RestoredSlot(saved, s, t)],
     started_at  |-> saved.started_at,
     finished_at |-> None]

-----------------------------------------------------------------------------
PersistenceInit ==
    /\ Init
    /\ disk = None
    /\ writing = [w \in Writers |-> None]
    /\ recording = {}
    /\ history = [g \in GameIds |-> None]
    /\ phase = "running"
    /\ starts = 1
    /\ stop = "none"

(***************************************************************************)
(* The state file                                                          *)
(***************************************************************************)
\* encode_if_dirty under the hub lock.  The persister holds persist_lock until
\* its write has landed or failed.
PersisterEncodes ==
    /\ phase = "running"
    /\ writing["persister"] = None
    /\ EncodeIfDirty
    /\ writing' = [writing EXCEPT !["persister"] = Encoded(now)]
    /\ UNCHANGED <<disk, recording, history, phase, starts, stop>>

\* The final persist.  Aborting the persister releases its lock, but not the
\* write it may have begun.
ShutdownEncodes ==
    /\ phase = "flushing"
    /\ \/ /\ EncodeIfDirty
          /\ writing' = [writing EXCEPT !["shutdown"] = Encoded(now)]
          /\ phase' = "writing"
          /\ stop' = IF writing["persister"] = None THEN stop ELSE "overlapping"
       \/ /\ ~dirty
          /\ phase' = "recording"
          /\ UNCHANGED <<vars, writing, stop>>
    /\ UNCHANGED <<disk, recording, history, starts>>

\* What a write leaves in the state file.  Two writers share the temporary file:
\* one may truncate what the other has filled and is about to rename, or fill what
\* the other has renamed.
Leaves(w) == IF stop = "overlapping" THEN {writing[w], Torn} ELSE {writing[w]}

AfterWrite(w) == IF w = "shutdown" THEN "recording" ELSE phase

\* Mutant: the state is marked clean when the write lands, not when it is encoded.
WriteLandsAndCleans(w) ==
    /\ writing[w] # None
    /\ disk' \in Leaves(w)
    /\ writing' = [writing EXCEPT ![w] = None]
    /\ phase' = AfterWrite(w)
    /\ dirty' = FALSE
    /\ UNCHANGED <<rooms, invites, memberships, identities, finished_games,
                   next_connection_id, sockets, issued, now, deliveries,
                   recording, history, starts, stop>>

WriteLands(w) ==
    /\ writing[w] # None
    /\ disk' \in Leaves(w)
    /\ writing' = [writing EXCEPT ![w] = None]
    /\ phase' = AfterWrite(w)
    /\ UNCHANGED <<vars, recording, history, starts, stop>>

\* The task that failed marks the state dirty again, unless it was aborted.
WriteFails(w) ==
    /\ writing[w] # None
    /\ writing' = [writing EXCEPT ![w] = None]
    /\ dirty' = (dirty \/ w = "shutdown" \/ phase = "running")
    /\ deliveries' = {}
    /\ phase' = AfterWrite(w)
    /\ UNCHANGED <<rooms, invites, memberships, identities, finished_games,
                   next_connection_id, sockets, issued, now,
                   disk, recording, history, starts, stop>>

(***************************************************************************)
(* The history database                                                    *)
(***************************************************************************)
\* The ticker takes the finished games after its tick, and shutdown once more;
\* the batch is the database task's from then on, if there is a database.
RecorderTakes ==
    /\ phase \in {"running", "recording"}
    /\ recording = {}
    /\ TakeFinishedGames
    /\ recording' = IF Database = "none" THEN {} ELSE finished_games
    /\ UNCHANGED <<disk, writing, history, phase, starts, stop>>

\* Mutant: a game a guest played in is not recorded.
WithRecordsOfMembers(batch) ==
    [g \in GameIds |->
        IF history[g] = None
           /\ \E r \in batch : r.game_id = g /\ \A s \in Sides : r.players[s] # None
        THEN (CHOOSE r \in batch : r.game_id = g).result
        ELSE history[g]]

\* INSERT OR IGNORE keeps the first record of a game.
WithRecords(batch) ==
    [g \in GameIds |->
        IF history[g] = None /\ \E r \in batch : r.game_id = g
        THEN (CHOOSE r \in batch : r.game_id = g).result
        ELSE history[g]]

\* The first insert that fails ends the batch; what is left of it is dropped.
RecordsLand ==
    /\ recording # {}
    /\ \E written \in SUBSET recording :
          /\ written = recording \/ Database = "fails"
          /\ history' = WithRecords(written)
    /\ recording' = {}
    /\ UNCHANGED <<vars, disk, writing, phase, starts, stop>>

(***************************************************************************)
(* The life of a process                                                   *)
(***************************************************************************)
\* The stop signal: the listener closes; ticker and persister are aborted.
Stop ==
    /\ MayStop
    /\ phase = "running"
    /\ phase' = "flushing"
    /\ stop' = "told"
    /\ UNCHANGED <<vars, disk, writing, recording, history, starts>>

HubIsLost ==
    /\ rooms' = [g \in GameIds |-> None]
    /\ invites' = [k \in Codes |-> None]
    /\ memberships' = [c \in Connections |-> None]
    /\ identities' = [c \in Connections |-> None]
    /\ finished_games' = {}
    /\ next_connection_id' = 1
    /\ dirty' = FALSE
    /\ sockets' = {}
    /\ deliveries' = {}
    /\ writing' = [w \in Writers |-> None]
    /\ recording' = {}
    /\ phase' = "down"
    /\ UNCHANGED <<issued, now, disk, history, starts, stop>>

\* Leaving main waits for the writes that have begun.
Exit ==
    /\ phase = "recording"
    /\ finished_games = {} /\ recording = {}
    /\ \A w \in Writers : writing[w] = None
    /\ HubIsLost

Crash == phase # "down" /\ HubIsLost

\* Mutant: the invite codes of restored rooms are forgotten.
LoadRoomsOnly(saved, t) ==
    /\ rooms' = [g \in GameIds |-> IF saved.rooms[g] = None THEN None
                   ELSE RestoredRoom(saved.rooms[g], SaturatingSub(t, saved.saved_at), t)]
    /\ UNCHANGED invites

\* Hub::load
Load(saved, t) ==
    /\ rooms' = [g \in GameIds |-> IF saved.rooms[g] = None THEN None
                   ELSE RestoredRoom(saved.rooms[g], SaturatingSub(t, saved.saved_at), t)]
    /\ invites' = [k \in Codes |->
           IF \E g \in GameIds : saved.rooms[g] # None /\ saved.rooms[g].invite_code = k
           THEN CHOOSE g \in GameIds :
                    saved.rooms[g] # None /\ saved.rooms[g].invite_code = k
           ELSE None]

\* A process does not start from a file it cannot read.
Start ==
    /\ phase = "down"
    /\ disk # Torn
    /\ starts < MaxStarts
    /\ starts' = starts + 1
    /\ phase' = "running"
    /\ stop' = "none"
    /\ IF disk = None THEN UNCHANGED <<rooms, invites>> ELSE Load(disk, now)
    /\ UNCHANGED <<memberships, identities, finished_games, next_connection_id,
                   dirty, sockets, issued, now, deliveries,
                   disk, writing, recording, history>>

\* The ticker ticks again when what its last tick finished has been recorded.
TickerTicks ==
    /\ phase = "running"
    /\ finished_games = {} /\ recording = {}
    /\ TickAt
    /\ UNCHANGED storeVars

\* Only a running process accepts connections; its sockets are served until it
\* is gone; time always passes.
HubStep ==
    /\ \/ phase = "running" /\ Connect
       \/ /\ phase # "down"
          /\ \/ \E c \in Connections : Disconnect(c) \/ SignOut(c) \/ GameRequest(c)
             \/ \E c \in Connections, user \in Users : SignIn(c, user)
       \/ AdvanceTime
    /\ UNCHANGED storeVars

PersistenceNext ==
    \/ HubStep
    \/ TickerTicks
    \/ PersisterEncodes
    \/ ShutdownEncodes
    \/ \E w \in Writers : WriteLands(w)
    \/ \E w \in Writers : WriteFails(w)
    \/ RecorderTakes
    \/ RecordsLand
    \/ Stop
    \/ Exit
    \/ Crash
    \/ Start

PersistenceSpec == PersistenceInit /\ [][PersistenceNext]_allVars

\* compose.yaml, restart: unless-stopped.  A server that dies is started again; one
\* that was told to stop is, only if somebody asks.
StartAgain == stop = "none" /\ Start

\* The loops of the server keep running, a shutdown that has begun goes on, and a
\* supervisor restarts a server that crashed.
FairPersistenceSpec ==
    /\ PersistenceSpec
    /\ WF_allVars(TickerTicks)
    /\ WF_allVars(RecorderTakes)
    /\ WF_allVars(RecordsLand)
    /\ WF_allVars(ShutdownEncodes)
    /\ \A w \in Writers : WF_allVars(WriteLands(w) \/ WriteFails(w))
    /\ WF_allVars(Exit)
    /\ WF_allVars(StartAgain)

-----------------------------------------------------------------------------
(* Properties *)

\* What a saved room says of its game, its clocks aside: those are re-derived.
Durable(saved) ==
    [saved EXCEPT !.remaining = [s \in Sides |-> 0], !.running = None]

OnDisk(g, file) ==
    IF file = None \/ file.rooms[g] = None THEN None ELSE Durable(file.rooms[g])

InMemory(g) == IF rooms[g] = None THEN None ELSE Durable(Capture(rooms[g]))

\* While the state is not dirty, every room, move, offer and result in memory is
\* in the file or in the write that is on its way to it: the persister cannot
\* sleep on a change, whether it is made by a request, by the ticker, by an
\* eviction or while a write is in flight, and a failed write is tried again.
CleanMeansSaved ==
    phase = "running" /\ ~dirty =>
        LET file == IF writing["persister"] = None THEN disk ELSE writing["persister"]
        IN  \A g \in GameIds : InMemory(g) = OnDisk(g, file)

\* A restart charges the side whose clock was running for the time since the
\* state was encoded and no more: after the first restart, a clock that runs
\* again accounts for all the time since the second player joined.  (A later
\* restart may find a game in which an earlier one forgot that a side had lost on
\* time, and which was played on.)
RestartChargesDowntime ==
    [][phase = "down" /\ phase' = "running" /\ starts = 1 => ClockConservation']_allVars

\* Every room in the file comes back, and a result that reached the disk is the
\* result of the game after a restart: the order in which outcome() looks at a
\* resignation, an agreed draw and a forfeit does not let what a restart derives
\* anew (a flag, a position) take their place.
RestartKeepsResults ==
    [][phase = "down" /\ phase' = "running" /\ disk # None =>
         \A g \in GameIds :
            LET saved == disk.rooms[g]
            IN  /\ saved # None => rooms'[g] # None
                /\ saved # None /\ saved.resigned # None =>
                     Outcome(rooms'[g].game) = Result("resignation", saved.resigned)
                /\ saved # None /\ saved.resigned = None /\ saved.agreed_draw =>
                     Outcome(rooms'[g].game) = Result("agreement", None)
                /\ saved # None /\ saved.abandoned # None => IsOver(rooms'[g].game)]_allVars

\* A resignation that is on disk while the server runs is in the history sooner
\* or later, however often the server crashes in between.  Two things may come
\* first: the end of the last process of the run, and that of a process which was
\* told to stop, whose ticker never got to the game.  Nobody promises to start the
\* server again after that, and the file may be torn; if it is started, the promise
\* is made anew.
SavedResultsReachHistory ==
    \A g \in GameIds :
        (/\ phase = "running"
         /\ disk # None /\ disk.rooms[g] # None /\ disk.rooms[g].resigned # None)
        ~> (history[g] # None \/ (phase = "down" /\ (starts = MaxStarts \/ stop # "none")))

\* A game that the ticker has marked finished is in the history or on its way
\* there: no hand-over between ticker, database task and shutdown drops a record,
\* and in one process none changes the result.  (A crash can take a game back to
\* before its end; the result recorded first then stays, whatever ends it next.)
RecordsAreOnTheirWay ==
    \A g \in OpenGames :
        rooms[g].finished_at # None =>
            \/ history[g] = Outcome(rooms[g].game)
            \/ starts > 1 /\ history[g] # None
            \/ \E record \in finished_games \cup recording :
                  record.game_id = g /\ record.result = Outcome(rooms[g].game)

\* hub.rs, tick_at: a clock-only change is re-derived on restore from the saved
\* remaining time.  A timed game in which a side has no time left is over.
NoTimeLeftMeansOver ==
    \A g \in OpenGames :
        Timed(rooms[g]) /\ Joined(rooms[g])
          /\ (\E s \in Sides : rooms[g].game.clock.remaining[s] = 0)
        => IsOver(rooms[g].game)

==============================================================================
