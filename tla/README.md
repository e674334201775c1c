# Verification of the game server

TLA+ specifications of the asynchronous HTTP game server in `src/`, model-checked
with TLC and, for its core, proved with TLAPS. Paths below are relative to the root
of the repository's sources; `app.cpp:325` is `src/src/app.cpp`, line 325.

## 1. The system

The server is one process with one `io_context` run by as many threads as the machine
has processors. API requests and ticks are handled one at a time on a *strand*; files,
accepts, reads, writes and the signal handler run on any thread.

| Part | State it keeps | Operations | Talks to |
|---|---|---|---|
| Application (`app.cpp`) | tokens, retirement list, time since the last save | join, a tick, save, load, records | players, sessions, database, checkpoint |
| Players (`app_model.cpp`) | id → player, the next id | add, find by token or dog, delete | application, API |
| Game, sessions, dogs (`model.cpp`) | sessions, dogs, bags, scores, trophies, times; the roads of a map | add a dog, a session, a trophy; delete a dog; move along roads | application |
| Collision detector (`collision_detector.cpp`) | none | what a move meets, in order | application |
| Loot generator (`loot_generator.cpp`) | the time without loot, one for all sessions | number of new trophies | application |
| Checkpoint contents (`model_serialization.h`) | none | what is saved of a player, what is restored | application, file |
| Checkpoint file (`serializator.cpp`) | two names on the disk | write and rename, read | tick, signal handler |
| Records database (`database.cpp`) | rows of retired players | insert, query | retirement, API |
| Connection pool (`db_connector.h`) | connections, number in use | get, return | database |
| API (`api_handler.*`) | none | nine targets, with checks of method, headers, body, token | application |
| Request handler, HTTP server (`request_handler.*`, `http_server.*`) | connections, one request each | accept, read, handle, write, close | clients, API, files |
| Ticker (`ticker.h`) | a timer | tick, arm again | strand, application |
| Process (`main.cpp`) | – | load, run, stop by a signal | all |
| Configuration (`json_loader.cpp`) | fixed after the start | load the maps, or refuse to start | game, loot generator |
| Logging, tagged types | none | print | – |

What is hard in it:

* a **tick is long and can throw in the middle** (database, `DeleteDog`), the exception
  is swallowed by the ticker or answered with 400, and the next tick goes on with what
  the last one left;
* the **signal handler is not on the strand** and saves whatever it finds, piece by piece
  while ticks and joins go on;
* **restarts** rebuild players, tokens, sessions, ids and trophies from a checkpoint
  that does not hold all of them;
* the **checkpoint file** may be written by two threads, on a full disk, in a process
  that dies;
* **movement and collisions** decide by arithmetic at borders: a dog that left all roads
  would be looked up in an empty map, and what is met at once is sorted in any order;
* **one loot generator** counts the time of all sessions;
* **connections** can be reset, silent, pipelining or late, with one deadline for a
  read and the write after it, and an exception outside the strand leaves the event loop
  of its thread;
* a **wakeup** in the pool comes after the unlock.

What makes each part correct is listed with its module in section 2; every hazard, at
its line, with the properties that cover it, is in `PROJECT.json`.

## 2. The modules

Modules are written for reading beside the code: variables, actions and helpers have
the names of the code. Where a comment says *Mutant*, the definition below it is a
wrong variant of the next one, used by nothing; replacing the right one by it must make
a property fail.

### Application – who plays, retirement, saving, restarts (the core)

A request is one action: it runs on the strand without a break. A tick
(`Application::UpdateWorldState`) is a sequence of actions, one for each call whose
effect another party can see or that can throw:

| Action | Code |
|---|---|
| `JoinGame`, `ChangeMoveDirection` | `app.cpp` JoinGame, `api_handler.cpp:225` |
| `Tick`, `UpdatePlayerState`, `NextSession` | the loops of `app.cpp:84` and `app.cpp:133` |
| `SendDogToRetirement`, `SaveDogRecord`, `DeleteDog`, `EndRetirement` | `app.cpp:325-351` |
| `WriteToBDFails`, `DeleteDogThrows`, `NullPlayer` | the same lines, when they throw or read through null |
| `SaveIfDue` | `app.cpp:92-105`, with the arithmetic of `int` |
| `Signal`, `Exit`, `Crash`, `Start`, `UploadPlayer`, `EndUpload` | `main.cpp`, `app.cpp:288` |

`players_table`, `count_players`, `player_tokens`, `sessions`, `dogs`,
`count_add_dogs`, `to_retirement`, `current_time` are the members of those names;
`ptr_to_id` of a session is the inverse of its `dogs`. `records` and `file` are what
survives the process. `issued` and `unsaved` are history.

Its properties: tokens, players, dogs and sessions agree in every state
(`PlayersAgree`, part of the inductive `Consistent`); retirement (`RetireesExist`,
`RecordsOnlyIdle`, `LeavesWithRecord`, `IdleLeave`); checkpoints (`SavedInTime`,
`CheckpointRestored`, `JoinsRequestedMap`); and those that documents promise and the
code does not keep under every fault or configuration (section 6).

`LivesOnce` says that Application implements **PlayerLife**: a player is out, plays, is
recorded once, is gone, and does not come back. The refinement mapping is `Life`. It
holds where no retirement throws and the process is neither stopped nor crashes; a
restart brings back who has been recorded since the last save, and a retirement that
throws records again.

### GameSession implements TrophyLedger – trophies, bags, scores

One session with its trophies, bags and scores, through ticks, checkpoints, crashes and
restarts. Positions are left out: `FindGatherEvents` may report any dog at any item or
office, in any order, each pair once in a tick, which covers every order of
simultaneous events. Which dogs retire is the matter of Application; here any dog may
that met nothing in the tick.

`SaveGameState` lists the players, copies the trophies and then reads each dog through
the pointer of its player (`serializator.cpp:36`). On the strand that is one step
(`SaveGameState` in `EndTick`). The signal handler is on another thread: `Signal`,
`CopyTrophies`, `CopyDog` and `WriteAndStop` are its steps, `saving` is what it has read,
and ticks, joins and retirements come between them. The history variable `torn` tells
whether the game comes from a checkpoint in which a trophy can be both in a bag and on
the map, because the map was copied between a collection and its removal, or before a
dog that had not been read yet took something. `TrophiesOnce` says that nothing else
brings a trophy to two places, and `BagsRestorable` that no mixture of old and new makes
a bag too full to be loaded. `TrophyLedger` says what players rely on: a trophy is in
one place, is delivered once, and a score outlives its dog. The refinement mapping is
`Where` and `Score`.

### World, Roads, Collisions – a session on its map

`Roads` has the arithmetic of a step: the borders of a road, the roads at a point, how
far a dog gets on one of them and which of the ways it takes (`GetMaxMovePosition`,
`GetDogNewPosition`). `Collisions` has the projection of a thing on a way, the test of
the reach and the order of the events. Lengths are whole twentieths of a unit of the
map, in which the widths of the code (0.4, 0.3, 0.25) are whole; fractions of a way are
compared by cross-multiplication and never divided. A tick takes one unit of time, so
that a speed is the way of a tick.

`World` is GameSession (`Session == INSTANCE GameSession`) with what it leaves open
filled in: an action of World is the action of GameSession of that name (`Gather` is either
of two; `ChangeMoveDirection` is new) and the conditions that the map sets on it.

| World | Code |
|---|---|
| `JoinGame`, `ChangeMoveDirection` | start position, `api_handler.cpp:225` |
| `Tick` | `UpdatePlayerState` (`app.cpp:168`): move, or stand longer |
| `Gather`, `EndGather` | `app.cpp:218`, `FindGatherEvents`: the events in the order of their times; the collected trophies leave the map |
| `UpdateTrophyState` | `app.cpp:240`: shortage, `LootGenerator::Generate`, places for the new trophies |
| `Retire`, `EndTick` | `app.cpp:325`: exactly the dogs that have stood long enough |

`DogsOnRoads` is what makes `route.rbegin()` safe; `KeepsToRoads` that a tick never takes
a dog across what is not road. `TakesWhatItPasses` and `MetInOrder` say what a player
sees, in terms of how far ahead and how far beside a thing lies (`Ahead`, `Beside`)
rather than of the projection the code uses. `TakesWhatItPasses` looks at a tick when it
has gathered and says two things of every dog: with room in its bag, it has left no trophy
that it passed after its last office, or none at all if it came to no office
(`LeavesNothing`; what it passed earlier with a full bag stays, although the office has
emptied the bag since); and if it came to an office, it has nothing in its bag that it
passed before (`KeepsNothing`). Where a trophy and an office are passed at one and the same
place, either may come first, as `std::sort` leaves it open. The time of an event is the part of each
dog's *own* way: of two dogs with ways of unlike length the one that is farther away may
be asked first, which is why `MetInOrder` compares dogs that go at full speed only.

### Loader – the configuration

What `json_loader.cpp` makes of a file, given as nested functions on keys: roads,
offices, speeds, bag capacity, retirement time, loot; and which files are refused
(`Refused`). `MCWorld` writes the map of its run as such a configuration and loads it
through `LoadGame`; its `ASSUME`s, which TLC evaluates, say that a road is loaded as one
whatever keys it has, that this file loads, and that two others do not. `LoadedMapsFit`,
a theorem, says of *every* file that is accepted that its maps are such as `World`
assumes: horizontal and vertical roads, and each office where it was written.

### CheckpointFile implements AtomicCheckpoint – the file on the disk

`WriteGameDate` step by step: open or truncate `<path>.bak`, write chunks, the last of
them in `close()`, rename. Writers are a tick and the signal handler. Files have an
identity apart from their names, because a writer may go on with a file that was
renamed under it. What a process has written stays when it crashes (the crash is of
the process; a crash of the machine is not modelled).

Two writers that meet, and a full disk that shows only in `close()`, spoil a checkpoint
(section 6, 13). The history variables `overlapped` and `lossy` record these two, so that
the properties hold with all faults and both writers: `WholeUnlessSpoiled` and
`SavesAtomically` until one of the two has happened, `NeverEdited` until writers meet.

### ConnectionPool implements ConnectionOwners

Each critical section of the mutex is an action, `NotifyOne` another one. The server
itself uses the pool from the strand only; the module checks it as the class it is,
for any number of threads.

### HttpServer implements Conversation

Listener, sessions, strand, ticker and the stop by a signal. Each connection has its
outstanding operation, deadline and unread requests. An exception of a handler on the
strand is answered (`SendErrorResponse`); the others leave `ioc.run()`: `OnAcceptThrows`
(`remote_endpoint()`), `CloseThrows` and `OnWriteThrows` (`shutdown()`), and
`OnReadThrows`, where `RequestHandler` decodes a target, before the strand and outside every
`try` (`request_handler.h:37`). On a worker thread that ends the process (`Dies`). On the main
thread, which the workers are joined on (`main.cpp:34`), the process goes on without it, and
what the handler held is gone (`MainLeaves`); an exception after that is one of a worker.
`Conversation` says what a client
relies on: requests are answered one at a time, in order, once. `OneUnderWay` is the
reason: an open connection has one operation under way, never two, never none, and
there is one tick at most.

### Api

Every target with the checks of the code in the code's order, for every method,
authorization, content type and class of body, with ticks of the ticker between the
arrival of a request and its turn on the strand. `self_update` never changes: its
initial value is either way of moving time.

A handler is a list of steps (`Handlers`), checks and effects in the order of its code, and
`at` is the step it has come to: a check lets the request `Pass` or makes the handler
`Refuse` it, an effect (`JoinGame`, `ChangeMoveDirection`, `SetTick`) changes the game when
its turn comes. So a check behind an effect would show: `found` is the game as the request
found it, and `RefusedChangesNothing` compares the two when the answer is made. An unknown
target has the one step `no_target` and is 400 for every method (`api_handler.h:139`).

`cp` and `ep` are the two tables of `api_handler_static_name.h`, the methods a target takes and
what it answers to others, with the text of `Allow`; `api_handler.h:111` pairs them by hand.
`AllowTellsTruth` compares them: the methods that `Allow` names are those that the check
lets pass, no more and no fewer.

### MC modules

`MCApplication`, `MCGameSession`, `MCCheckpointFile`, `MCConnectionPool`,
`MCHttpServer`, `MCApi` and `MCWorld` name the instances; each `.cfg` is one run.

## 3. The runs and their bounds

| Run (`.cfg`) | Distinct states | What it shows |
|---|---|---|
| AppOneMap | 205 418 | three players, one map, no faults: only idle dogs are retired, through existing players; every player implements `PlayerLife`; saves are in time; idle players leave |
| AppFaults | 585 498 | two maps, every fault: tokens, players and dogs agree, joins go to the map asked for, nobody leaves without a record, a restart rebuilds the checkpoint |
| GameLedger | 774 438 | no faults: the session implements `TrophyLedger` |
| GameRestarts | 4 543 829 | crashes at any step and signal handlers that save beside ticks and joins: trophies in one place unless `torn`, bags that Restore takes, checkpoints restored whole |
| OnRoads | 768 263 | two dogs on a corner of two roads with an office: dogs stay on roads, take what they pass, in order, leave it at the office, and loot comes |
| PoolOfTwo | 4 914 | five threads, two connections: owners, counts, wakeups, `ConnectionOwners` |
| HttpClients | 278 244 | two clients, resets, failing accepts, targets that throw, a stop, exceptions on a worker or the main thread: one operation per connection, one tick, `Conversation`, progress |
| ApiRequests | 481 155 | every class of request in both modes, step by step: refusals change nothing, players turn their own dog, only players are served, `Allow` is true |
| FileBoth | 242 989 | both writers, full disk, crashes: a checkpoint is replaced and never edited, and until it is spoiled whole and an `AtomicCheckpoint` |
| AppTwoMapsSaves, GameIds, FileTwoWriters | – | a promise of a document that the code breaks, section 6 |

Bounds, and why they are enough for the interesting cases:

* *Application*: two or three tokens, one or two maps. Two players are needed for a
  list with something behind its cursor, two maps for a session without the dog.
  `RetirementTime = 2` with steps 1 and 2 makes dogs that retire at once, after two
  ticks, and just in time. `SavePeriod` 2 or 3 against the same steps saves on, before
  and after the period. `IntSpan` (half the range of `int`) is 4 or 8, so that overflow
  is reached in a few ticks where it can be reached at all. A token is drawn once, so
  there are at most as many joins as tokens. `MaxPending` stops ticks when the
  retirement list has grown longer than it; `MaxRecords` counts rows up to itself; the
  `stay` of a dog is counted up to the retirement time, beyond which nothing differs,
  and `unsaved` up to the save period.
* *GameSession*: two dogs, two or three trophies, bags of one or two: a trophy met by
  two dogs, a full bag, a trophy made after a restart. Times are counted up to `MaxTime`,
  which is 0 where no property looks at them (GameRestarts, the longest run: over two
  minutes). `TornBound`: a game that comes from a torn checkpoint is not stopped by a
  signal again, as each time could multiply its trophies and raise its scores.
* *World*: two dogs, two trophies, two roads that meet in a corner and an office in the
  corner: dogs that pass each other, one that turns, one that stops at a border, trophies
  met by two, and ways with a trophy before the office and with one after it. With a
  speed of 16 twentieths a dog stops at the border behind the corner in its second tick, and
  may turn onto the other road from there or from the tick before.
  `Capacity` is 1, so that bags are full soon; the loader always gives 3. `SlowLoot` makes
  a trophy likely only in the second tick of shortage, `Longest = 2` counts up to there.
  `Spots` are the points that chance may choose, one of them beside all roads and one at
  the very end of a reach; `Turns` the directions asked for, `"0"` is a text that names none.
* *CheckpointFile*: three files (one checkpoint, two being written), two or three
  chunks, three or four changes: a first, a middle and a last chunk, and a state older
  than the checkpoint in a stale temporary file.
* *ConnectionPool*: five threads and two connections: sleepers, woken and using threads
  together. The module has no other bound.
* *HttpServer*: two clients, one with two requests and one with one; the strand holds at most
  one handler more than there are connections when the timer expires, which the code
  keeps anyway as a client has one request at a time.
* *Api*: two tokens, three time steps; the enumeration of requests is complete for the
  classes.

Players, files and trophies of one type are interchangeable where the cfg says
`SYMMETRY`; no run with symmetry checks liveness. HttpClients has
`CHECK_DEADLOCK FALSE` because its server may end or be stopped, after which nothing
is left to do.

## 4. Fairness

* `Application!LiveSpec`: a handler that has begun goes on and `main` goes on loading
  (threads run), and a tick starts again and again (`Ticker::OnTick` arms the timer in
  every case). `IdleLeave` is checked without faults: a failing database or a second
  session does keep idle players for ever.
* `HttpServer!LiveSpec`: the event loop runs what is ready (`Strand`, `OnRead`,
  `OnReadEnds`, failed writes), timers expire. Nothing makes a client send, leave, or
  take its response: `OnWrite` and the actions of clients are not fair, so
  `AskedIsAnswered` says that a request is answered, *or* its connection closed, or the
  server ended: a request whose target throws is never answered. Exceptions are not fair.
* World has no liveness property: `LootInTime` bounds the number of ticks in which a
  session stays short of trophies, which is safety.

## 5. What is proved

TLAPS checks the theorems for every value of the constants.

* **ApplicationProofs**, from the assumptions of Application only, with all faults:
  `TypeCorrect`, `AlwaysConsistent` and from it `PlayersAlwaysAgree`. The inductive
  invariant is `Consistent`: the type invariant; `RosterInv` (tokens are unique in memory
  and in the checkpoint, all were issued, and a process that is loading has loaded the
  players below its cursor: without this a restored token could meet itself); `DogInv`
  (dogs are in listed sessions and have exactly one player of that session; players with
  a token have a dog); `GhostInv` (players behind the cursor of a retirement are gone;
  players without a token are on the list). Each part has an initial lemma and a step
  lemma with one case per action. `NobodyLeavesUnrecorded` (`LeavesWithRecord`) needs only
  that the player being deleted has a row. `JoinsAlwaysHonoured` assumes that no two maps
  have one name (`DistinctNames`; point 5 of section 6) and adds that the checkpoint
  holds the map each player asked for.
  `CheckpointAlwaysLoadedAlike` (`CheckpointRestored`) holds for any maps, those of one
  name included, because `AddSession` merges a map into the *first* session of its name and
  the checkpoint then names that map: `Reloads` says that sessions, in memory and in the
  checkpoint, differ in the names of their maps, and that a process that loads would save
  just the players below its cursor.
* **RetirementProofs**, with every fault and any maps, for as long as no retirement throws:
  their hypothesis is `NeverThrows` (no step is `WriteToBDFails` or `DeleteDogThrows`), a
  condition on the behaviour and not on the constants. `AlwaysOrderly`,
  `RetireesAlwaysExist` and `RecordsAlwaysIdle` rest on `Orderly`: the list is empty between
  ticks, has no token twice, none of a dog that moves or has a player no more, and while a
  tick fills it only tokens behind the cursor over sessions and dogs (`ListedBelow`, which
  needs that no session is listed twice, `SessionsOnce`). Points 1 and 2 of section 6 show
  what happens after an exception. `QuietNeverThrows` says where there is none: where all maps
  have one name and the database works (`Quiet`), with crashes, signals and failing saves;
  `QuietIsInOrder` states the properties of the run AppOneMap there without a condition.
  `AlwaysSavedInTime` also assumes `Saves`: there is a state file, saves do not fail,
  the period is not 0, no tick is longer than it, and twice the period fits an int;
  `Punctual` says that `current_time` counts the unsaved time. Points 3 and 4 of
  section 6 show why. `PlayersLiveOnce`, the refinement of `PlayerLife`, also assumes that
  the process goes on (`NeverDisturbed`); `Counted` says how many rows each
  player has at each point of a retirement.
* **GameSessionProofs**, for any number of dogs, trophies and offices and any capacity,
  with crashes and signals: `SessionTypeCorrect`, `BagsAlwaysRestorable`,
  `TrophiesAlwaysOnce` and `CheckpointAlwaysRestored`. The inductive
  invariant is `Shaped` (what dogs, copies and files look like, and that no bag of any of
  them is too full), `Phases` (where the handlers on and off the strand are), `Once`
  (every trophy that is somewhere has been made, `MadeSoFar`, it is once in the game and
  once in the file, and what a save has read stays apart from what it is going to read)
  and `Typed`. That a score, a fold over a bag, is a number, and that the scores of a session
  add up, is proved without induction over data: a sum is the number of its units
  (`Total`, a cardinality), and the library's theorems on finite sets do the rest
  (`BagScoreIsTotal`, `SumIsTotal`). `SessionKeepsLedger`, the refinement of
  `TrophyLedger`, and `TrophiesOnlyTaken` (`TrophyTaken`) hold until the process ends
  (`NeverDown`), while a signal handler saves as well: in the first process ids are fresh
  (`FreshIds`), so that a new trophy hides none, which point 8 of section 6 shows to be lost
  with a restart.
  `FaultlessGoesOn` says that without faults nothing ends the process.
* **WorldProofs**, for every list of horizontal and vertical roads, however they cross,
  overlap or end, every speed and every place.
  *Movement*: `DogsAlwaysPlaced`, `DogsAlwaysOnRoads`, `DogsKeepToRoads`. A step
  stays within the border of one road (`StaysOnRoad`), and there is a longest way of
  those over the roads at a point, which is where the least-number principle is needed.
  *The session*: every step of World is one of GameSession without faults, so that the
  theorems of GameSessionProofs are cited through `INSTANCE`: `WorldKeepsLedger`, and part of
  `WorldTypeCorrect`. *A tick*: a way lies along an axis (`WaysStraight`), where the
  projection and the distance of `TryCollectPoint` are how far ahead and how far beside a thing
  lies (`OnAxis`). `EventsAlwaysSorted`: the comparison by cross-multiplied fractions is a
  strict weak order on what is met, and some event is next until all are handled.
  `ThingsMetInOrder` (`MetInOrder`); `DogsTakeWhatTheyPass` (`TakesWhatItPasses`), by the
  invariants `HandledInOrder` (the nearer before the farther), `TakenOrFull` (what was
  handled is collected, or its dog is full, or has come to an office there or later) and
  `BagSinceOffice` (what a dog has that was at an office, it has met there or later). *Loot*: `LootAlwaysInTime` (`LootInTime`), whose
  hypothesis `LootIsSure` is that after the longest time the probability is a half at
  least: a shortage of one then rounds up to a trophy. Every probability above 0 comes
  there in time. *The map*: `LoadedMapsFit` (section 2, Loader).
* **ConnectionPoolProofs**, for any finite set of threads and any capacity: the
  inductive invariant `IInv` (types, `UsedCounted`, `Stacked`), that the pool
  implements `ConnectionOwners`, and `NoLostWakeup` by counting sleepers, notifiers and
  woken threads.
* **HttpServerProofs**, for any set of connections and number of requests, with resets,
  failing accepts, targets that throw, a stop and exceptions on any thread: `HttpTypeCorrect`, `AlwaysOneUnderWay` and
  `ServerConverses`. The inductive invariant `HttpInv` says where the operation of each
  connection is rather than how many there are: `Apart` (no connection is in two of the
  queue, the strand, the reads and the writes, nor twice in one), `OpenUnderWay` (the open
  connections are those that are somewhere) and `InTurn` (what is under way is the last
  request that was read, and the only one not answered). The numbers of `OneUnderWay`
  follow by counting sets of at most one element.
* **ApiProofs**, for any set of tokens: `ApiTypeCorrect`, `RefusedAlwaysChangesNothing`,
  `OnlyOwnersTurn`, `PlayersAloneAreServed` and `AllowAlwaysTrue`. The inductive invariant
  (`ApiInvariant`) says of a request under way that the checks behind it hold
  (`ChecksHold`) and that the game is as it was found while no effect is behind it
  (`NotYetChanged`). `HandlersWellOrdered` says of the lists of steps that an effect is
  the last one, and `ChecksOfPlayers` that the handlers which serve or move a player look for
  its token; `TablesAgree` compares `cp` with `ep` target by target.
* **CheckpointFileProofs**, for both writers and all faults: types, `NamesDiffer`,
  `NeverEdited`, `CheckpointAlwaysWhole` and `FileImplementsCheckpoint`. The inductive
  invariant says that, until writers have met, the temporary file belongs to the writer
  (`OwnTemp`), and until a write was lost as well, that what it has written is of the one
  state it saves, which is no older than the checkpoint (`FileInv`).

Every property of a passing run except four is a theorem. Only model-checked are the
liveness properties `IdleLeave`, `AskedIsAnswered`, `IdleIsClosed` and `TicksGoOn`, as fairness
is out of the prover's reach; and of Loader what the `ASSUME`s of MCWorld say beyond
`LoadedMapsFit`. The properties that section 6 names fail, and `TrophyTaken` is proved as far
as it holds.

The assumptions on constants are those the modules name. `TimeAssumption`,
`SessionAssumption` and `WorldAssumption` say of data only what it is: numbers are numbers,
the ids of offices are not those of trophies (`DOMAIN OfficeAt \cap Nat = {}`: the code keeps
the two in separate lists), `Tokens` has none of the names that `TrophyLedger` gives to places,
and there are finitely many trophies and offices. `Speed` may be any integer, as the loader
takes what is written.

## 6. Where the code breaks a promise

Three are runs that TLC refutes, with the line quoted in `PROJECT.json` "findings".
The others were met while modelling. Their properties are in the modules, and the last
column tells the instance on which TLC refutes them: the cfg to start from, what to
change in it (constants and names of the MC module), and the property to check.

| | The code | Where | How to see it |
|---|---|---|---|
| 1 | With players on two maps the first retirement throws: records are written on every tick and nothing is saved any more | `model.cpp:301` | run AppTwoMapsSaves |
| 2 | After a failed database write a dog is listed twice and its second retirement reads through null | `app.cpp:327` | AppTwoMapsSaves, one map, `Faults <- DbFaults`: `RetireesExist` |
| 3 | Without a save period every tick saves; the README (line 76) says only a stop does | `app.cpp:94` | AppTwoMapsSaves, one map, `SavePeriod = 0`: `SavedOnlyByHand` |
| 4 | With ticks longer than the period `current_time_` runs away and overflows | `app.cpp:103` | AppTwoMapsSaves, one map, `Deltas <- LongSteps`: `SavedInTime` |
| 5 | Maps of one name share a session | `model.cpp:336` | AppTwoMapsSaves, `MapName <- SharedName`: `JoinsRequestedMap` |
| 6 | A restart renumbers players; a test (`state-serialization-tests.cpp:128`) expects the saved id | `app.cpp:310` | AppTwoMapsSaves, one map, `Faults <- CrashFaults`: `PlayerIdsKept` |
| 7 | A stop in the middle of a tick saves a state that is not the last, and may save a trophy twice | `main.cpp:84` | AppTwoMapsSaves, one map, `Faults <- StopFaults`: `StopSaved`; GameIds, `Faults <- StopFaults`: `NoTrophyTwice` |
| 8 | After a restart a new trophy may take the id, and the place, of a restored one | `app.cpp:319` | run GameIds |
| 9 | Played time before a restart is lost | `model_serialization.h:56` | GameIds, `MaxTime = 2`: `PlayTimeRecorded` |
| 10 | A client that resets its connection ends the process | `http_server.cpp:44` | HttpClients, `Clients <- OneClient`, `Faults <- ResetFault`: `ServerSurvives` |
| 11 | One error of accept and no connection is taken any more (the `return` lacks its semicolon; it is read as `return;`) | `http_server.h:143` | HttpClients, `Clients <- OneClient`, `Faults <- AcceptFault`: `KeepsAccepting` |
| 12 | The example of a tick by PUT (README, line 158) is refused | `api_handler_static_name.h:95` | ApiRequests: `TickExampleWorks` |
| 13 | Two writers tear the checkpoint; a full disk cuts it | `serializator.cpp:16`, `:48` | run FileTwoWriters; FileTwoWriters, `Writers <- TickOnly`, `Faults <- DiskFaults`: `CheckpointWhole` |
| 14 | A session that is short of trophies gets none while others take the time of the one generator | `loot_generator.cpp:9` | OnRoads, `OtherSessions = TRUE`: `LootComes` |
| 15 | A dog that the border has stopped keeps its speed: it counts as moving and is never idle | `app.cpp:201` | OnRoads: `StoppedStands` |
| 16 | A target that ends in a cut `%` escape or in `+` is decoded outside every `try`: its request is never answered, and the exception ends the process | `request_handler.h:37`, `api_handler.cpp:263` | HttpClients, `Clients <- OneClient`, `Faults <- TargetFault`: `ServerSurvives` |

"One map" is `Maps <- OneMap` and `MapName <- TownName`.

Three more belong to the loading of the configuration, a single step, and are definitions
of `Loader`: a bag capacity is passed over when it is a whole number and refused when it
is not, so that it is 3 always (`json_loader.cpp:33`); the period of the loot generator is
taken as milliseconds where the retirement time is in seconds; a road without `x1` and
`y1` is a point at the origin. And a dog on two roads in one line, one after the other,
stops at the border of the first in one tick and goes on in the next (`GetDogNewPosition`
looks at the roads at its present place only): it is slower there, which no document
promises otherwise.

## 7. What is not modelled

* Floating point: positions and speeds are whole twentieths, a tick is one unit of time.
  A rounding error at a border or at the end of a reach is not seen.
* The probability of loot, a power of a real number: `Percent` gives the part of the
  shortage after each time without loot. Where a random number is used, every value is
  possible, within the bounds named.
* The rest of the configuration (buildings, trophy descriptions, the logger's file) and
  the command line: constants of the modules.
* SQL and the order of records in it, UUIDs, JSON, paths, MIME types, file bodies,
  logging, tagged types: data.
* A save that walks a container while the strand changes that very container: the
  behaviour is undefined, and there is no state to go on with. The steps of the signal
  handler in GameSession lie between such accesses.
* A crash of the machine, in which written data may be lost or reordered on the disk.
* An upload that fails in the middle. `BagsRestorable` shows that bags do not make it
  fail; the configuration is taken to be the same after a restart.

## 8. Plan

Done: Application with its proofs and `PlayerLife`; GameSession, its ledger and the save
beside ticks; Roads, Collisions, Loader and World; ConnectionPool, HttpServer, Api and
CheckpointFile, each with its abstract specification where it has one, and proofs about
every one of them.

The runs are kept few, one per question: a new one takes the place of one it contains.

What could follow, in order of importance:

1. The save of the signal handler composed with CheckpointFile: which mixture of two
   saves a torn file can hold.
2. The theorems of RetirementProofs after an exception: what of `Orderly` remains, with
   which a record could be written twice but not of a player that never was idle.
3. The order and the pages of the records (`database.cpp`), if anything ever writes them
   beside the strand.
