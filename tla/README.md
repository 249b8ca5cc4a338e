# Three Tunnelers server: a verification project

Formal models in TLA+ of the game server for Three Tunnelers, checked with TLC
and, for the results that should hold for every size of the tables, proved with
TLAPS. Paths are relative to the repository (`src/core/engine.c` and so on are
its `src/` directory). `PROJECT.json` maps every definition to the lines it
models and lists the runs, hazards, findings and theorems.

## 1. The system

The server runs three threads (`main.c`): the **network thread**
(`netadapter_thread_select`) accepts connections, reads them, cuts what it read
into commands and puts those into a queue; the **engine thread** (`engine_run`)
works in ticks: look for clients that lost their connection, process all
commands in the queue, update every game room; the **console thread** lists the
tables and stops the engine. All of them share one set of tables
(`core/resources.c`) made at start: connections (indexed by file descriptor),
`con_to_cli` (descriptor to client), clients, and game rooms. Only the ring
buffer has a lock.

| Component | State | Operations | Interacts with |
|---|---|---|---|
| Command queue (`structures/cmd_queue.c`) | `commands`, `put_index`, `get_index`, mutex | `is_full`, `is_empty` (no lock), `put`, `get` | written by the network thread, read by the engine |
| Network adapter, connections (`networks/netadapter*.c`) | `connections[]`, `con_to_cli[]`, `client_socks`, adapter status | accept, select, read, close, send | closes from both threads; the engine binds connections to clients |
| Network adapter, framing (`netadapter_in.c`, `my_strings.c`) | receive buffer and its fill, `invalid_counter` | read, split at line feeds, drop the connection | passes commands to the queue |
| Engine, clients and rooms (`core/engine*.c`, `game/game_room.c`, `networks/net_client.c`) | `clients[]`, `game_rooms[]`: seats, players, colors, leader, ready states, phase | authorize, reconnect, create, join, leave, disconnect, ready, the tick | reads connections the network thread may clear; begins and ends battles |
| Battle (`core/engine_run_game_room.c`, `game/warzone.c`, `model/`) | tanks, projectiles, energy, cooldown, pending block changes | controls, move, shoot, hit, block changes | one room of the engine; map |
| Map and its generator (`map/`, `map_generator/`) | chunks of blocks, bases | block access, generation of bases and rock | battle |
| Command codec (`networks/network_command*.c`, `core/str_scanner.c`) | none | hexadecimal fields, length limits | all handlers |
| Shapes, directions, colors (`game/entity_shape.c`, `model/direction.c`, `game/colors.c`) | constant tables; colors in use per room | - | battle, rooms |
| Start-up, shutdown, console (`main.c`, `core/engine_cli.c`) | `keep_running`, adapter status | start, stop, join | all |
| Logger, statistics, localisation, settings | counters, text | - | none that matters here |

What makes each component correct:

- *Queue*: a command is delivered at most once and in order; one is refused or
  lost only when the ring is full; one that was accepted is delivered.
- *Connections*: what is open is watched; the map, the clients and the kernel
  agree on who has which connection, descriptors being reused; a lost connection
  is noticed; a handler never uses a connection that is not there.
- *Clients and rooms*: seats and clients agree; every client in a room plays,
  with a color of its own; a room in use has a leader that is there; a room is
  closed when, and only when, nobody in it is connected.
- *Battle*: whoever holds the trigger shoots, and nobody else; damage is paid for
  by a projectile; a battle ends exactly when a tank is destroyed, and the next
  starts afresh; the buffer of block changes holds what a tick adds.
- *Map, shapes*: a tank stays on the map and out of rock; a shot that reaches a
  tank hits it; every shot ends.
- *Framing*: lines come out as they went in, however TCP cuts them, and no buffer
  overflows.
- *Shutdown*: both threads end.

What is hard here is concurrency without locks (unlocked tests of the ring;
tables that two threads change; descriptors the kernel reuses in between),
commands that outlive their connection in the queue, long legal sequences of
room commands with losses and returns between them, bytes that arrive while a
buffer is worked on, and arithmetic at the boundaries (ring, tank list, block
changes, shapes and map). `PROJECT.json` lists each hazard at
its line.

## 2. The modules

| Module | Models | Kind |
|---|---|---|
| `CommandChannel` | what the queue promises | abstract specification |
| `CmdQueue` | the ring and its producer and consumer | implements `CommandChannel` |
| `CmdQueueProofs` | theorems about `CmdQueue` | proofs |
| `LineChannel` | what a connection promises its peer, in lines | abstract specification |
| `Framing` | the receive buffer and its loops | implements `LineChannel` |
| `FramingProofs` | theorems about `Framing`, its refinement among them | proofs |
| `Sessions` | connections, descriptors, `con_to_cli` and clients, both threads, shutting down | component |
| `SessionsProofs` | theorems about `Sessions` | proofs |
| `GameRooms` | clients, rooms, players, leaders, readiness, the engine's tick | component |
| `GameRoomsProofs` | theorems about `GameRooms`: types and seats | proofs |
| `RoomLeadersProofs` | the same: leaders, battles, closing; what a step may do to a room and to a client | proofs |
| `RoomPlayersProofs` | the same: players and colors | proofs |
| `Battle` | one room's tanks, projectiles, triggers and block changes, tick by tick | component |
| `BattleProofs` | theorems about `Battle` | proofs |
| `Driving` | where a body can go: shapes, directions, the generated map and its accessors | component and pure algorithms |
| `DrivingProofs` | theorems about `Driving` | proofs |
| `MCDriving` | the rock `Driving` is checked with | constants of a run |

### CmdQueue and CommandChannel

State: the slots, both indices and where each thread is. `cmd_queue_put` and
`cmd_queue_get` hold the mutex and are one step each (`NetPut`, `EngGet`); the
tests without it are steps of their own (`NetCheck`, `EngTest`), so whatever
they saw may be stale. A command is the number of its arrival. `CRem` is the
remainder of C, negative for a negative dividend: `(get_index - 1) %
QUEUE_SIZE` is -1 when `get_index` is 0, so the full test cannot hold there.

`CommandChannel` has no ring, only the sequence of waiting commands. Its
promise is as weak as the code's: commands are delivered in order and at most
once, and only while `Capacity - 1` or more wait may one be refused (`Refuse`) or
everything be forgotten (`Overrun`). The refinement mapping (`Pending`) takes
the slots from `get_index` to `put_index`; an engine already past its test of an
empty ring will take a slot even if the writer has lapped it, so it has the
whole ring before it.

### Framing and LineChannel

State: what was sent and not read, whether the peer has hung up, the receive
buffer, `a2read`, where in its loops the network thread is, and `invalid_counter`.
`Select` takes the value of FIONREAD; the peer may send and hang up between any
two steps. `ReadSome` is `_netadapter_ts_process_raw_connection` and the search
for a line feed behind it: without one the outer loop is left whatever is still
to be read, and the next `select` comes round. `LinePassed`, `LineInvalid` and
`LineTooShort` are one round of the inner loop; `AfterLine` is where the two
conditions send it. Bytes are of four kinds, those the code tells apart: a digit
of a type, anything else, a line feed, a NUL (`strstr` sees no line feed behind
one, so a connection that sent one can only end as too long or gone).

`LineChannel` has one text and no buffer: the first line of it, if it fits, is
passed on, refused or the end of the connection; a text without such a line
ends the connection when it is longer than a buffer, or when the peer has gone.
The refinement mapping joins the buffer and what is unread.

`Framing` counts the invalid lines of the network thread only; the engine counts
on the same connection too, and closes it as in `Sessions`. NETCMD_DATA_TOO_LONG
has no action: a line that fits the buffer fits a command.

### Sessions

State: the descriptors the kernel has open, the live connection records,
`client_socks` (`watched`), what `select` returned (`ready`), `con_to_cli`, each
client's status and connection, the queue, and where each thread is in its
handler. A connection record's index is its descriptor; the kernel gives the
lowest free one to the next connection. `netadapter_close_connection` is three
steps (`CloseSocket`, `Unlink`, `Forget`), by either thread; accepting is two,
authorizing is two (`con_to_cli`, then the client), and a command is looked up
and then acted upon. A connection that is closed when its record already says -1
reads and overwrites `con_to_cli[-1]`: `beforeMap` is that memory, which may hold
anything at the start. Its `FD_CLR(-1)` (`networks/netadapter.c:194`) is carried out
by glibc on bit 63, which is a descriptor of the table when the server has 11 rooms
or more: `WrapFd` is that descriptor, or 0 for a table that ends before it, and
`ClearedSet` takes it out of `watched` whether or not it is open. A NULL connection that is used ends the process
(`Crashed`).

Shutting down is part of it. The console's `exit` lets the engine leave its loop
(`EngExit`); `netadapter_shutdown` then goes through the descriptors one by one and
closes those whose record is in use (`EngShut`, with the steps of every close),
while the network thread still accepts and reads, and changes the status only at
the end; the network thread leaves its loop when it sees that (`NetEnd`). A
connection accepted on a descriptor the loop has passed is not closed by it and
stays open until the process ends, so that the log line "shutting down all remaining
connections" (`networks/netadapter.c:105`) is not quite true.

The constant `Overlap` chooses the granularity. With FALSE, a thread begins a
handler only while the other is between two of its own: that isolates what the
handlers do in every *order* and is the setting of the passing run and of the
theorems. The network thread standing between its copy of the set and `select` counts
as between handlers, so the engine may close one of the descriptors `select` is about
to be given, and `select` then fails. With TRUE the single steps interleave, as they do in the program; there
few of the properties survive, which the violation run records.

### GameRooms

State: `cli` (status, connection present or not, room number, player RIDs),
`rooms` (phase, leader, seats, ready states, players, colors in use) and where
in its tick the engine is. Every handler of a command that changes this state is
one action, with all it calls: `CmdLeave` runs
`engine_game_room_client_disconnected` and then removes the client again, as the
code does. `engine_game_room_cleanup` clears the seats before it looks at them,
so in the model too it wipes nobody (`ClosedRoomWipesClients` is said of the step that
closes a room, and of the clients that have a seat in it before). Connections go away at any point of the tick
(`ConnLost`). Refused commands change nothing and have no action. `BackToLobby`
stands for the two reasons a room goes back: the every-sixteenth-tick look at
connections while a battle is starting, and the end of a battle. `GameRooms` lets
both happen at any time; when a battle ends is `Battle`'s matter.

### Battle

State: the room's phase, which player RIDs are attached and which of them hold
the trigger, the tanks by RID and `tanks_size`, the slots of projectiles in use,
`map_change_count`, and where the update of the room is. Players are attached and
detached and triggers pressed between ticks; a tick goes through the first
`tanks_size` tanks every third time (`SkipTank`, `MoveTank`, `ShootTank`) and
through all projectiles every time (`UpdateProjectile`). The variable `clear` is
modelled as it is: set for one projectile and not reset for the next, so every
later projectile of the tick disappears too, although each still does its damage.
`tanks_size` is the number of players while tanks stand at their RID, so with RID 0
free the tank of RID 1 neither moves, shoots, nor is hit; `HeldFireShoots` and
`BattleEndsByDestruction` are said of the tanks the loops reach (`Driven`). The hit
that destroys a tank changes the phase in the middle of the loop, which goes on.

Where things are is abstracted: a move breaks up to `MaxBreaks` blocks, a
projectile meets a block, a tank of another player or nothing. The random loss of
energy is a choice.

### Driving

The geometry `Battle` leaves out, for one body: the real shape tables with their
rotations, `G_DIRECTIONS` and `direction_get_by_d`, the bounds and addressing of
`tunneler_map_get_block`, rock along the rim as three smooth lines leave it (one for
top and bottom, one each for left and right: `across`, `left`, `right`), and the
walls and gates of a base. `Move` tests the shapes of the direction the tank
still has and then turns it, as `_engine_uwz_move_tank` does. Three oddities of
the code are kept and what follows from them is checked:

- `shape_is_solid_o` keeps no column inside its row and lets the offset one past
  the last pixel through. That pixel is never written, so whether it is solid is a
  choice of each move. A move of a tank that faces north or south therefore covers
  up to 22 cells of body, not 17.
- `get_block` lets the column and the row one past the map through: the column is
  the first of the next row of chunks, the row a row of chunks never made, which
  reads as empty.
- A turn is never tested, so parts of a tank may stand in rock, and a tank may be
  wedged for good. Its core of three by three cells never is (`CoreFree`).

The vertical offset of a hit is computed from the horizontal one; `CoreHit` shows
that this misses only at the ends of a tank. It is said of the projectiles of another
player: `_engine_uwz_find_tank_hit` passes the shooter's own tank and EMPTY tanks over.
`ShotEnds` is said of a room that stays in battle. One still in flight when the battle
ends stands still until the next begins, which clears it (`FreshBattle` of `Battle`).

## 3. The runs

| Run | Shows | Bounds |
|---|---|---|
| `cmdqueue_burst` | the ring implements the channel (`ImplementsChannel`), the engine never gets a command twice or out of order (`InOrder`), nothing is refused or lost until a command arrives while `QueueSize - 1` are outstanding (`Lossless`), and what was accepted arrives (`EveryCommandDelivered`) | ring of 4, 11 commands: the indices go round more than twice and the writer laps the reader from every position of `get_index` |
| `cmdqueue_overrun` (violation) | a burst drops the whole ring without a log line | as above |
| `sessions_handlers` | `OpenWatched`, `ConnKnown`, `HandlersFindConnection`, `LossNoticed` for every order of handlers, and shutting down: `ExitEnds` | 2 descriptors and 2 clients, 2 connections accepted, 2 commands waiting: a descriptor is reused while commands of its last owner wait, and both clients compete for it; descriptor 2 is the one a second close takes out of the set (393,867 states) |
| `sessions_stale` (violation) | a client is bound to a connection that was closed while its introduction waited | same |
| `sessions_overlap` (violation) | the engine's close and the network thread's accept of the same descriptor leave a connection nobody reads | same, steps interleaving |
| `gamerooms_table` | seats, players, colors, leaders and statuses agree, and a room is closed only by a client that gives it up, when every other member has lost its connection | 2 clients, 2 rooms of 2 seats, 2 players per client, 3 colors (9.9 million states) |
| `gamerooms_abandoned` | a room everybody lost is closed | 2 clients, 1 room |
| `gamerooms_ready` (violation) | a seat keeps the last client's ready state | 2 clients, 2 rooms |
| `gamerooms_closed` (violation) | a client that is DISCONNECTED in a room in battle is not wiped when the room is closed | 2 clients, 2 rooms |
| `framing_lines` | the buffer implements the line channel (`ImplementsLines`, with its fairness: nothing complete is left lying) and is never overfilled (`TypeOK`) | header of 2, buffer of 4, 1 invalid line allowed, 7 bytes (1,296,668 states) |
| `battle_rounds` | `BlockChangesFit`, `ControlsOwned`, `BattleEndsByDestruction`, `FreshBattle`, `DamageSpends`, `HeldFireShoots`, over any number of battles | 2 players, 2 projectiles each, 2 hitpoints, energy to 1, cooldown 2, a move breaks 0 or 1 block, buffer of 5 (582,796 states) |
| `driving_map` | `CoreFree`, `BreaksBounded`, `CoreHit`, `ShotEnds` | 3 by 3 chunks of the real size 21, one base, bare rims, and rims with rugged and thick rock that differs from side to side (128,170 states) |

Why the bounds are enough: rooms have two seats in the code, so two clients fill
one; the second room is where a client goes that left the first, which is what
`SeatsAgree` could fail on. Three colors are one more than the players a room can
hold, so a color is given back and given again. A third client adds only another
outsider. A ring of 4 slots has every relation of the two indices the code
distinguishes. A receive buffer of 4 with a header of 2 has lines that are too
short, that just fit and that do not; 7 bytes are a full buffer and a piece of
another line. What 7 do not reach is a line too long behind one that was passed
on; the theorem has it. Two players are all a room has in the code; two
projectiles and two hitpoints are one more than the last, so that a slot is free
while another flies, one hit is not the end, and a second projectile of the tick
that ends a battle still lands. A buffer of 5 is what four projectiles in flight
and one block of a move need; the theorem says the same of all sizes. The chunks,
shapes and gates of `Driving` have their real sizes, because its properties are
about these numbers; 3 by 3 chunks have one inside chunk for the base and a rim of
every kind around it. `MaxBreaks` is 22 there, what `BreaksBounded` finds least:
with the 40 projectiles of a full room, 62 changes are the most that can wait,
against the 200 of the buffer. The theorems below lift the bounds for the
properties they name.

Deadlock is checked everywhere except in `Sessions`, where the program really
stops when it uses a NULL pointer and when it shuts down, and in `Framing`, where
a connection ends.

### Fairness

- `CmdQueue`: weak fairness of the engine thread and of `NetPut`. Both are
  threads of a preemptive scheduler, and neither blocks outside a short critical
  section. The network thread need not receive anything.
- `Sessions`: weak fairness of the network thread; strong fairness of the engine
  and of `EngTick`, because with `Overlap` FALSE its turn comes and goes with the
  handlers of the other thread; a real scheduler gives it more. `LossNoticed`
  assumes besides that the engine finds its queue empty again and again
  (`CatchesUp`): the code itself puts no limit on how long commands can keep it
  from the rest of its tick, which is listed as a hazard.
  `ExitEnds` needs no more than the same fairness.
- `GameRooms`: weak fairness of `Tick`, under the same assumption.
- `Framing`: weak fairness of the network thread: `select` reports a socket as
  readable for as long as it is, and the loop serves every socket it reports.
- `Battle`: weak fairness of the update: the engine ticks for ever. `Driving`: weak
  fairness of a projectile's flight, as a room in battle is updated at every tick.

## 4. What is proved

For every value of the constants:

| Theorem | Module | Says |
|---|---|---|
| `TypeCorrect` | all proof modules | the type invariants |
| `DeliveryInOrder` | `CmdQueueProofs` | `InOrder`, even when the ring overruns |
| `RingIsAChannel` | `CmdQueueProofs` | `ImplementsChannel`: the ring implements `CommandChannel`, at any load |
| `NothingLostUnderLightLoad` | `CmdQueueProofs` | `Lossless`: until a command comes while `QueueSize - 1` are outstanding, for every ring |
| `SeatsAlwaysAgree` | `GameRoomsProofs` | `SeatsAgree` for any number of clients, rooms, seats |
| `LeadersPresent` | `RoomLeadersProofs` | `LeaderPresent` |
| `BattlesPlayed` | `RoomLeadersProofs` | `BattleMembersPlay` |
| `RoomsClosedWhenAbandoned` | `RoomLeadersProofs` | `ClosedOnlyWhenAbandoned`: whoever gives the room up, no other member is connected |
| `MembersAlwaysPlay` | `RoomPlayersProofs` | `MembersPlay`, if a client's list of players has a place for every player of a room |
| `ColorsAlwaysAccounted` | `RoomPlayersProofs` | `ColorsAccounted`, if there is a color for every player of a room |
| `ConnectionsKnown` | `SessionsProofs` | `ConnKnown` while handlers do not overlap |
| `ConnectionsFound` | `SessionsProofs` | `HandlersFindConnection` while handlers do not overlap |
| `OpenAlwaysWatched` | `SessionsProofs` | `OpenWatched` while handlers do not overlap, whatever descriptor `WrapFd` is |
| `LinesImplemented` | `FramingProofs` | every behaviour of the receive buffer is one of `LineChannel` (its safety part) |
| `TriggersOwned` | `BattleProofs` | `ControlsOwned` |
| `BlockChangesAlwaysFit` | `BattleProofs` | `BlockChangesFit`, if the buffer holds one change for each projectile and those of one move |
| `BattlesStartFresh` | `BattleProofs` | `FreshBattle` |
| `DamageAlwaysSpends` | `BattleProofs` | `DamageSpends` |
| `BattlesEndByDestruction` | `BattleProofs` | `BattleEndsByDestruction` |
| `CoreAlwaysFree` | `DrivingProofs` | `CoreFree` for every size of map and chunk, every base and every rock |
| `CoreAlwaysHit` | `DrivingProofs` | `CoreHit` |
| `BreaksAlwaysBounded` | `DrivingProofs` | `BreaksBounded`, if `MaxBreaks` is 22 or more |
| `CellOnMap` | `DrivingProofs` | on the map a location is read in its own cell |

The assumptions are the named ones on the constants (`QueueAssumption`,
`RoomsAssumption`, `SessionsAssumption`, `FramingAssumption`, `BattleAssumption`,
`DrivingAssumption`): positive sizes, a ring of two slots or more, a buffer longer
than a header, a map with an inside and chunks a base fits in; they are evaluated by
the runs. Hypotheses of the theorems that need them, because the code would be wrong
without: that handlers do not overlap (`SessionsOverlap.cfg` shows what happens when
they do); that the buffer of block changes is large enough; `RoomSize <= NumColors`
(2 and 13 in the code); `RoomSize <= PlayersPerClient` (2 and 2); a bound on the
blocks of one move that is not below the 22 the shapes have.

The arguments:

- *Order.* `InOrder` is not inductive. What is: the numbers in the ring grow
  from `get_index` on, all are greater than the last one delivered and none
  exceeds `handled`; when the engine is committed to a slot and the writer has
  met it, this holds of the whole ring.
- *The channel.* `Waiting` is the distance from `get_index` to `put_index`, or the
  whole ring for an engine already past its test, and `Slot(k)` the place of the
  k-th command that waits. A put that does not make the indices meet appends; one
  that does, with nobody committed to get, empties what was `QueueSize - 1` long;
  one on top of a full ring leaves only itself. The broken full test is false too
  often, never true too often (`FullIsCrowded`), so that what it refuses may be
  refused.
- *Light load.* The number of commands waiting is `(put_index - get_index) %
  QueueSize` and equals `handled - taken`, which stays below `QueueSize`; then
  the full test is false whether or not the negative remainder breaks it, and no
  overrun happens. The lemmas on remainders (`RemainderUnique` and the two after
  it) carry the arithmetic.
- *Seats.* `SeatsAgree` needs `InUse`: a client that has a connection is not
  EMPTY. Otherwise a command could seat a free record. Handlers only take clients
  out of rooms (`Shrinks`) except creating and joining, which seat the client
  once, in the room it is then told it is in.
- *Leaders and battles.* Two lemmas say once what a step may do: to a room
  (`RoomSteps`: nothing, lose a client, be created, be joined, be restated) and to a
  client (`ClientSteps`). `LeaderPresent` and `BattleMembersPlay` follow from them
  with the seats and with `Present`: a client that has a connection is neither free
  nor away, so that a leader picked among the connected is not away. That a room is
  closed only when abandoned (`ClosingStep`) is the part of `RoomSteps` about losing a
  client: the step that closes a room is one that a client leaves it in, and with that
  client left out nobody was eligible to lead (`LeftAlone`).
- *Players and colors.* A room always has a free color and a joining client a free
  place in its list by counting: with a seat to give away, fewer colors are used and
  fewer numbers are in the list than there are. As the list is never cleared, what
  has to be kept is not that it is empty but that its numbers are distinct
  (`RidsDistinct`).
- *Connections.* `SessionsInv` adds to `ConnKnown`: at most one thread is inside
  a handler; the client being bound is in the map and not yet in use; and, until
  some connection is closed twice, every entry of the map is right except the one
  being bound, clients not in use have no connection, and a handler's client has
  the connection the handler works on. The last part is lost for good with the
  first double close, which is why the property is stated up to that.
- *Open and watched.* Within a handler the three sets differ by at most the
  descriptor being worked on; `TablesAt` says at each place of a handler which of
  them still has it, and `TablesFollow` that this is so of the thread that is inside
  one. What is not told to `select` although it is live is at most `WrapFd`, and that
  only after a connection has been closed twice (`Deaf`): a close clears either its own
  bit or, on a dead record, that one.
- *Lines.* `FramingInv` says that a complete line is in the buffer exactly while
  the inner loop runs, and that nothing is found to read only when the peer has
  hung up and everything has been read. `BufferLine` and `PrefixLineEnds` carry the
  refinement: bytes behind a string do not change where its first line ends, so the
  first line of the buffer is the first line of everything sent. A full buffer
  without a line means that no line fits.
- *Block changes.* `BlockChangesFit` is not inductive: what is pending has to be
  counted together with what may still come. Together, the changes and the
  projectiles in flight never exceed the slots for projectiles, plus the blocks of
  one move while a tank is between moving and shooting (`Budgeted`); a projectile
  that changes a block is gone, and the shot that takes a slot again comes with
  the announcement that empties the buffer.
- *Battles.* That a battle goes on while all tanks live needs that a room is in
  battle only with tanks that were made whole, and that the hit which takes the
  last hitpoint is the one that changes the phase.

- *Driving.* Turning a shape by quarters keeps the three by three cells in its
  middle (`RotatedCore`), so these are tested in whatever direction the tank has,
  and every belt has a cell in the second column and one in the second row
  (`BeltReaches`): they meet the bounds of `get_block`, which are one too wide, while
  the core is still inside. On the map the addressing by chunks is the identity
  (`CellOnMap`). The rock is thinner than a chunk (`PaddingThin`) and bases keep off
  the rim, so a battle begins in the open. The cells a move breaks are numbered from
  1 to 22, those read from a neighbouring row and past the last pixel included
  (`UprightNumber` and the two after it).

Every safety property of the passing runs is proved. What is about liveness
(`EveryCommandDelivered`, `AbandonedRoomCloses`, `LossNoticed`, `ExitEnds`,
`HeldFireShoots`, `ShotEnds`, and the fairness in `ImplementsLines`) is out of the
prover's reach and only model-checked.

## 5. What was found

Each is a run of kind `violation`, with the line it contradicts in
`PROJECT.json`.

1. `cmd_queue_is_full` is never true while `get_index` is 0 (negative
   remainder): the ring is lapped and everything waiting is dropped silently.
2. A seat's `ready_state` survives its client, so a client that just joined can
   count as ready.
3. `engine_game_room_cleanup` clears the seats before the loop that should wipe
   the clients in them. A client that lost its connection while a battle starts still
   has its seat; when the leader leaves then, the room is closed and the client keeps
   its record, DISCONNECTED, with no room to return to. (One that is lost in the lobby
   gives up its seat at once and is kept likewise; the loop could not reach that one in
   either order.)
4. Authorization binds a client to a connection that was closed while the
   introduction was in the queue. The client is never noticed as lost. If a
   goodbye was queued behind, its close is a second one, the map entry stays, and
   the next connection on that descriptor is taken for a client without a
   connection: the invariant `HandlersFindConnection` is stated up to this case.
5. Closing before unlinking lets an accept on the other thread get the descriptor
   in between; the new connection is then taken out of the set.

Other things seen while modelling, which no line of the repository contradicts or
which no run states:

- Closing a record that is already dead clears bit 63 of the watched set (`FD_CLR(-1)`
  of glibc), so a live connection on that descriptor is never read again. The passing
  run and `OpenWatched` have it as the one exception, so that `AcceptedWatched`, the
  property of finding 5, can fail without overlapping handlers too.
- A connection accepted behind the loop of the shutdown stays open
  (`networks/netadapter.c:105` and `:112`).
- An introduction that waits in the queue when its peer goes, and the commands behind
  it, are carried out for the next peer on that descriptor.
- A client that returns to its room is told BATTLE whatever the room's phase
  (`core/engine_game_room.c:92`). A DISCONNECTED player's pressed controls stay
  pressed until it returns or is removed.
- `core/engine_cmd_exec_gameroom.c:108` tests a pointer the wrong way round and
  then uses the NULL. The handler for tank information is never registered.
  `core/engine_run.c:36` admits a command type one past the table.
- Any bytes renew `last_active`, where the comment at
  `networks/netadapter_in.c:23` says a valid message does. The `@return` of
  `networks/network_command.h:85` is not what the function returns.
- Block changes of a battle's last tick are never announced.

## 6. What is not modelled

- The command codec (hexadecimal fields, the factory and the scanner): text in,
  text out, and no state. `Framing` has what decides whether a line is a command.
- A room number equal to `game_rooms_length`, an `accept` that fails or returns
  a number past the table: they read or write past an array, and what is there
  is not the program's state. They are listed as hazards.
- The idle check (`_engine_check_client_for_idling`) is never called. MARCO and
  POLO are not registered. Names, latency, statistics and texts change nothing
  else.
- Sending: a write to a closed socket fails and nobody looks. `sync_tanks`, every
  ninth tick, only sends; so do the messages about blocks and projectiles, and the
  overwritten count of a second message about blocks is listed as a hazard.
- Which dirt has been dug: it stops nobody. What the generator draws, beyond the
  rock of the run and every place of one base; that two bases are not planted on
  one chunk is the condition of its loop.
- Start-up, which is sequential, is the initial state of the modules.
- Weak memory: a step's reads and writes are those of sequential consistency.

## 7. Plan

1. `Battle` and `GameRooms` composed, so that the players of the one are the seats
   of the other.
2. Two tanks in one `Driving`, with dirt.
3. The codec's limits as operators over short texts.
