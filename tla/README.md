# Verification of the Sector Control simulator

TLA+ models, TLC configurations and TLAPS proofs for the discrete-event airport
simulator in this repository. Paths below are relative to the repository's root;
`src/sim.c` is the file of that name under it.

## 1. The system

The simulator is one single-threaded program around one struct, `Simulation`
(`include/sim.h:66-104`). Nothing in it runs in parallel and nothing is stored:
what is hard is the *order of events*. Handlers push events that fire much
later, when the flight they are about may have moved on, left, been given
another runway, or been dropped from a full ring; between any two of them the
controller may give a command that changes the same flights and runways.

| Component | State | Operations | Interacts with |
|---|---|---|---|
| Simulation core, `src/sim.c` | clock, flights, runways, gates, weather, statistics | `sim_init`, `sim_step`, `sim_run_to_end`, one handler per event type | pops and pushes the queue; calls the ring and resource helpers |
| Event queue, `src/pqueue.c` | binary heap, `seq_counter` | `pq_push`, `pq_pop`, `pq_peek` | order decides which handler runs next |
| Contention rings, `src/sim.c:155-226,356-368` | `holding`, `taxi_wait` with head, tail, length | push, pop, pop by priority, remove | a full holding ring drops the flight, a full taxiway refuses it |
| Controller commands, `src/sim.c:655-752` | none of their own | Expedite, Hold, Divert, Go-around and `sim_can_*` | change flights, release runways, push events between steps |
| Application loop, `src/render.c:801-949` | selection, pause, speed | `run_app`: a frame reads keys, gives commands, fires the events that are due, moves the clock to its end, draws and offers buttons; `run_snapshot` | drives the core, replaces it on reset |
| Event log, `src/sim.c` (`sim_log`, `sim_log_at`) | circular buffer | append, read newest first | written by handlers, read by drawing |
| Random numbers, `src/rng.c` | four 64-bit words | seeding, `rng_next`, ranges, doubles, exponentials | every draw of the core |
| Flight identities, `src/dataset.c` | constant tables | picks | wake category of a new flight |
| Drawing, `src/render.c` | display fields | `update_visuals`, panels | reads the core |
| Command line, `src/main.c` | the settings | parsing, scenarios, dispatch to help, sweep, headless run, snapshot or window | `sim_init`, `sim_run_to_end`, `run_app`, `run_snapshot` |

### What is hard here, and what makes each component correct

* **Core.** Stale events (a touchdown planned for a flight that was diverted
  since), self-re-arming polls (fuel checks, departure polls, taxi retries), a
  runway that is released and given away inside the handler that released it.
  Correct when a runway or gate has one occupant and that occupant knows it,
  nobody waits beside an idle resource, each flight always has exactly what
  will move it on, a flight that has left is never touched again, the clock
  does not go back, the queue drains, and the statistics add up.
* **Queue.** Correct when it serves by time, then weight, then insertion, through
  every growth of its array, and every call returns.
* **Rings.** Correct when every member waits, is a member once, and keeps its
  place; when full, the flight must survive outside. The arrays behind them are
  correct when head, tail and length agree after every compaction.
* **Log.** Correct when a reader sees the latest lines, newest first.
* **Commands.** Correct when they keep all of the above at any moment they are
  offered.
* **Application loop.** Correct when every event that is due in a frame fires
  before the clock moves past it, when it does to the core nothing but steps,
  commands and starting anew, when the selection is always a flight that is
  there, and when a simulation left running drains.
* **Command line.** Correct when options in any order mean what they say and no
  simulation begins without a runway or a gate.
* **Generator.** Correct when no step loses state, so that the all-zero state,
  which it would never leave, is never reached.
* **Narration.** Correct when the log, the counters and the colours agree.

`PROJECT.json` lists the hazards at their lines, with the properties aimed at
each; a hazard that no property covers yet says why.

## 2. The modules

| Module | What it is |
|---|---|
| `EventQueue` | The queue as `pqueue.h` promises it: the sequence of pending events in the order they will be served. `seq` only breaks ties, so it is the position. |
| `Sector` | The core: state, helpers, one action per handler and per command, and the specifications. |
| `SectorProperties` | What the core promises. |
| `MCSector` | For TLC; also the statements of documentation and comments that the code does not keep. |
| `CountingLemmas` | Lemmas about counting positions, inserting, summing over a table and wrapping indices, used by all proofs. |
| `SectorProofs` | Types and timing; the inductive invariant of the core, and what follows from it about runways, gates, rings, events and flights that have left; proved. |
| `SectorSteps` | Who is served in which order, how the fuel checks go on, and what is counted, proved. |
| `PriorityQueue` | The queue as a specification: its calls, and what they deliver. |
| `BinaryHeap` | `pqueue.c`: the array, its growth, and every turn of the loops of `sift_up` and `sift_down`; implements `PriorityQueue`. |
| `MCHeap` | For TLC: four events that tie and beat each other. |
| `BinaryHeapProofs` | The heap order, what the root is, and that the heap implements `PriorityQueue`, proved. |
| `WaitingLine` | A bounded line, as `Sector` sees its rings. |
| `RingBuffer` | The arrays of `holding` and `taxi_wait` with head, tail, length and compaction; implements `WaitingLine`. |
| `RingBufferProofs` | That implementation, proved. |
| `RecentLines` | What a reader of the log expects: the latest lines. |
| `LogSize` | The capacity of the log and its assumption. |
| `EventLog` | `sim_log` and `sim_log_at`; implements `RecentLines`. |
| `Narration` | `Sector` composed with `EventLog`: what each handler and command logs, and the colours of lines and of aircraft. |
| `App` | `Sector` in the frame loop of `run_app`, and in that of `run_snapshot`: keys, pause, reset, selection, the events of a frame and their limit, buttons. |
| `ScreenProofs` | What `App` does to the core and what `Narration` tells of it, the implementation of `RecentLines` by the log included, proved. |
| `CommandLine` | `main`: the options, the scenarios, what they lead to, the seeds of a sweep, and the clamping in `sim_init`. |
| `MCCommandLine` | For TLC: the options it builds command lines from. |
| `CommandLineProofs` | Options mean what they say, and a sweep is complete, proved. |
| `Rng` | xoshiro256** seeded by splitmix64, and draws from a range, over words of any width. |
| `MCRng` | For TLC: the constants of a word of four bits. |
| `RngProofs` | The generator loses no state and never reaches the all-zero state, proved. |

`Sector` uses the queue and the rings by what they promise (`EventQueue`, bounded
sequences); `BinaryHeap` and `RingBuffer` show, each by a refinement mapping checked
as a property, that the data structures of the code keep these promises.
`App` and `Narration` are built around the actions of `Sector`: every one of their
steps that touches the core is one of its actions, and `App` is shown to refine its
next-state relation (`KeepsCoreRules`), with one exception named `ClockAlone`:
the run to the minute of the snapshot moves the clock on with nothing pending,
which no operation of the core does on its own.

### How the state and the actions correspond

Every variable of `Sector` is the field of `Simulation` with its name;
`holding` and `taxi_wait` are the sequences that the ring arrays hold, from the
head. A handler is one action (two or three where it first chooses, as
`on_touchdown` does between landing and going around, and `on_emergency` among a
flight that moved on, a flight lost and a flight still waiting), with every call
it makes that changes state: `free_runway` with the landing it may grant is
inside `on_touchdown`, `on_takeoff_clear` and `sim_cmd_divert`. Helpers that the
code calls on a half-updated struct take the updated parts as arguments and say
what the variables become. `sim_step` is the disjunction of all of them;
`drop_stale` is its filter for flights that have left, and `queue_exhausted` its
return of false, kept as a stuttering step so that the deadlock check stays on
and would report an event that no handler accepts.

In `BinaryHeap` the loops are not atomic: `sift` says which one runs, `hole` is
its index and `tmp` its held event, so the properties also speak of the array in
the middle of a loop. A call that returns false is a step that changes nothing
(`pq_empty`, `push_full`, `pop_empty`). `RingBuffer` removes from any position,
which covers every choice that `holding_pop_priority` can make; `holding_remove`
of a flight that is not in the ring is included, because a full ring refuses
flights that are removed later.

In `App` a frame is a sequence of steps: `at` says how far it has come, each key
is asked for once and in the code's order, `fire` is one turn of the event loop,
`end_events` its end, `end_frame` the buttons that were drawn. So a command meets
exactly the states that the loop can be in when it reads a key, not any state
between two steps as in `Spec`. `mode` tells `run_app` from `run_snapshot`. `cut` is a
history variable that no action reads: since the simulation began, a frame has ended at its
limit with events still due. In
`Narration` a line is its kind and its flight, and `told` counts lines by kind.
In `CommandLine` a command line is a sequence of options, each a word or a word
with a value, and a step reads one option; a numeral that is none reads as 0.
In `Rng` a word is the set of its one bits, so that xor is a symmetric difference.

### The specifications

* `BatchSpec` is `sim_run_to_end`; `FairBatchSpec` adds `WF_vars(sim_step)`.
  Fairness is what the `while (sim_step(s))` loop is: it calls until false.
* `Spec` is the interactive program: the steps of the simulation, the three
  commands that a running program can issue with effect, and `AdvanceClock`, the
  end of a frame. Commands may come between any two steps, which allows more
  than the loop (it reads keys once a frame) and is what the header allows.
* `HoldSpec` is `sim_step` with `sim_cmd_hold` at any moment: the library as its
  header describes it. It is apart from `Spec` because the program never reaches
  a moment at which Hold is accepted (`NobodyInbound`): a flight is inbound
  only during the minute in which it appears, and every event of that minute
  fires before a frame ends, unless the frame is cut by its limit of 100000 events.
  `App` has the key H and its button, and Expedite of inbound flights, for that case;
  otherwise they do nothing.
* A flight that has been held can be cleared or parked twice. Its second
  `TOUCHDOWN`, `TAKEOFF_CLEAR` or `GATE_RELEASE` then writes to the index -1 of the
  runways or gates (`src/sim.c:417`, `src/sim.c:491`), which has no defined effect.
  `on_touchdown`, `on_touchdown_go_around`, `on_takeoff_clear` and `on_gate_release`
  are not enabled there, so a behaviour ends where the effect of the code is undefined,
  and what is said of `HoldSpec` and of `AppSpec` with Hold is said up to there.
  `IndicesDefined`, checked and proved of `Spec`, says that without Hold it never comes
  to that.
* `FairAppSpec` of `App` asks weak fairness of the frames and of the snapshot's
  loop: the window stays open and the loop turns. Nothing is asked of the keys: the
  player may do nothing or interfere for ever, and `Unpaused` therefore speaks of
  behaviours in which the pause is at last left off, and of a simulation of which no
  frame is cut, since the flights that Hold can then catch may wait for ever. Resets are
  bounded by
  `MaxResets`, since a player who resets for ever lets nothing drain.

### Abstractions

* Time is in ticks and fuel in units per tick, so `double`s are integers. The
  order of events, all comparisons and the clamping of fuel at zero are kept;
  rounding is not.
* A random draw is any member of a finite set. A wave-off may happen at any
  touchdown, whatever the weather makes of its probability.
* `on_touchdown` and `on_takeoff_clear` push their follow-up event after
  `free_runway` has pushed its own; the model pushes it before. The two have
  different weights, so the order of service is the same.
* Callsign, route, type and radar fields and `events_processed` are left out of the
  core; nothing reads them back. The log is in `Narration` only, for the same reason.
* An exhausted queue stops the clock: nothing reads it afterwards.
* `sim_init` clamps the numbers of runways and gates; `Sector` takes them as
  positive parameters, `CommandLine` clamps them (`SweepComplete`).
* The speed keys are any length of frame in `FrameTicks`; a key that would change
  nothing counts as not pressed.
* Words of the generator have `W` bits instead of 64, and its shifts, rotations and
  factors are parameters. `rng_double` and `rng_exp` turn a draw into a double and
  change nothing else.
* Seeds are numbers modulo `SEEDS` instead of 2^64, so that a sweep runs over the
  largest.
* Expedite of a holding flight adds one more chain of fuel checks and the code
  has no bound on that. `MaxPending` bounds the model: the command is not offered
  to a holding flight while that many events are pending. Nothing else in `Sector` is
  bounded: the statistics and the clock are finite because the flights and the
  horizon are.

## 3. What the runs check

| Run | What it asks |
|---|---|
| `batch` | Four flights, some of which arrive at the emergency threshold, for two runways, one gate, a holding ring of two slots and a taxiway of two, in calm and storm: does it end, clean, with emergencies first, the one with the least fuel before the others, and otherwise in order, on the taxiway too; is a flight watched that a full ring dropped, and does the stream of arrivals last to the horizon? |
| `controller` | Three flights and a player who expedites, diverts and waves off at any moment: is any runway, event, account or departed flight damaged, or an index of -1 released? |
| `frames` | The frame loop with pause, reset, selection, keys and buttons, and the loop of a snapshot: does a frame fire all that is due, keep the rules of the core, act only on flights that are there, and let the traffic drain; and when its limit of events cuts a frame, does what it leaves due stay in front of the queue? |
| `heap` | Six pushes with pops and peeks between them, in an array that starts with two slots: is the heap order kept around the hole, and does the heap serve as promised? |
| `ring` | A ring of four slots in every position, full and empty: does it hold the line that `Sector` works with? |
| `ticker` | Two flights, a holding ring of one slot, changing weather and all commands, in a log of three lines: do the log, the counters and the colours agree, and does a reader see the latest lines? |
| `arguments` | Every command line of up to three options: do options mean what they say in any order, does a sweep run its seeds, are the resources within limits? |
| `generator` | Every seed of a generator of four-bit words: does a step lose state, or reach zero? |

and four runs whose counterexample is a disagreement between the code and its
documentation:

| Run | Statement | What the code does |
|---|---|---|
| `api_hold` | `README.md:36`: runways are exclusive resources; `include/sim.h:126`: Hold sends an inbound flight to the holding pattern | Hold leaves the flight's `RUNWAY_REQUEST` pending, so it is cleared while it stays in the ring, and later cleared again, and parks at a gate while it owns a runway. A caller of the library can do this, and the player after a frame that was cut. |
| `undeclared` | `README.md:49`: below a threshold an aircraft declares an emergency | A go-around brings the flight back to the ring below the threshold without declaring; until its next check it does not count as an emergency. |
| `departure_wait` | `include/sim.h:47`: the sum of all queue waits | Every poll of a departure sets `queue_enter_time`, so its recorded wait is always zero. |
| `expedite` | `README.md:189`: Expedite bumps a holding aircraft to the front; the next runway to open serves it first | An expedited flight goes to the end of the ring, and the first expedited flight in the ring is served first: of two flights expedited one after the other, the second is served second. |

The properties of the passing runs, by what they guard against:

* *Resources*: `RunwaysExclusive`, `GatesExclusive` (occupant and owner name each
  other, states agree), `RingsHoldWaiting` (no duplicate, no member that does not
  wait), `NothingIdleWhileWanted`, `SeparationKept` (a runway changes hands only
  at its occupant's own touchdown, take-off or diversion), `IndicesDefined` (what
  an event is to release, its flight has).
* *Events*: `NothingOverdue`, `FlightsDriven` (each flight has exactly the event
  that will move it on, or a place on the taxiway, and none of another state),
  `OneFuelCheck`, `FuelWatched`, `GoneForGood`, `ChecksGrowByExpedite` (chains of
  fuel checks multiply by one command only), `ArrivalPlanned` (there is one stream of
  arrivals, and only the horizon or a full table ends it).
* *Frames*: `FrameComplete`, `KeepsCoreRules`, `SelectionLive`, `NobodyInbound`, and of
  frames that are cut `LeftoversKept`.
* *Order*: `HoldingInOrder`, `EmergencyPreempts`, `ExpeditePreempts`,
  `TaxiwayInOrder` (no gate past the flights on the taxiway), `LeastFuelFirst` (the
  stale fuel that `holding_pop_priority` compares misleads it by no more than is burnt
  between two checks).
* *Data structures*: `HeapOrder` and `ServesInOrder` (the heap implements the queue);
  `KeepsTheLine` (the ring implements the line); `ShowsLatest` (the log implements
  the latest lines).
* *Around the core*: `LastOptionWins`, `SweepComplete` (its seeds, and resources
  within the limits);
  `NeverStuck`, `NothingLost` (the step of the generator is one to one);
  `LinesMatchCounters` (each emergency, loss, wave-off, departure and
  diversion told once), `RedTogether`, `LastWords` (no line about a flight that
  has left).
* *Accounts and the end*: `AccountsBalance`, `DrainedClean`, and the liveness
  properties `Drains` (a headless run empties its queue for good), `Unpaused` (so
  does the interactive program, once it is left running) and `SnapshotTaken`.

### Bounds, and why they are enough

Contention needs more flights than resources. Three flights are enough for a runway
released by one flight to be claimed both by a flight in the ring and by a
departure; the fourth, in `batch`, keeps two runways busy while the ring of two
slots fills. A go-around that meets a full ring is dropped from it in `batch` and
in `controller` (ring of two slots, three flights, one runway), and a flight that
meets a full taxiway is refused in both. The delays and fuels are scaled, in an
order that follows the shipped constants where it decides something (a fuel check
is shorter than an approach, an approach shorter than a turnaround, the emergency
re-check shorter than the ordinary one), and let fuel run out within two or three
holds, so that losses, emergencies, go-arounds with and without fuel and re-entries
all happen. `batch` spawns flights at the emergency threshold too, which takes the
emergency branch of `on_runway_request`. `controller` has one length of frame and
one spawn fuel, because commands multiply its states; its player may expedite a
holding flight while fewer than five events are pending. Between them the runs take
every action, the drop of stale events included (only a player's diversion makes
one) and the arrival that finds the table full.

`frames` has two flights, one runway, rings of one slot, frames of 10 and of 45
ticks (shorter and longer than most gaps between events), one reset, and a limit of
`FRAME_EVENTS` = 3 instead of 100000. No frame of 10 ticks meets more than three events
unless one before it was cut, so a player with short frames sees the whole traffic
uncut; a frame of 45 ticks is cut when it is busy. One that is
cut just after the second arrival leaves an inbound flight to the keys: it can be held,
cleared as well, and be in the ring when it is diverted (`sim_cmd_divert_ringed`).
The snapshot is taken at minute 60, in the midst of the traffic.

`arguments` takes up to three of the options in `MCCommandLine`: each kind of
option, values in and out of range, an option whose value is missing, an option
that takes another as its value, an unknown one, a known scenario and an unknown
one. Three are
enough for an option before and an option after a scenario that sets it.
`generator` has words of four bits, with a shift of 1 and rotations by 3 and 2, and
all sixteen seeds.

`heap` starts with two slots instead of sixteen, so that six pushes make the array
grow twice and the heap reach three levels, with nodes that have one child and
two; `MaxPushes` is its only bound. `ring` has four slots and three ids, so that
the line begins at every slot, wraps, is full and empty, and a flight that is not
in a full ring is removed from it. The log of `ticker` has three lines, which are
overwritten from every position.

`CHECK_DEADLOCK FALSE` stands where the program ends or its effects do:
in `Arguments.cfg` (`main` returns) and in `Frames.cfg` (the snapshot is saved, and an
index of -1 is released after Hold).

Each property was seen to fail on a faulty variant of the code: the operators
whose name carries a suffix (`holding_push_Front`, `free_runway_NotOffered`, ...)
make one plausible mistake each and stand before the operator they resemble. No
specification uses them.

## 4. What is proved

The theorems hold for arbitrary constants. Those about `Sector` assume only `SizeAssumption`, `FuelAssumption`, `TimeAssumption` and
`DrawAssumption` (positive sizes and delays, natural fuels, known wake categories
and weathers), which TLC evaluates in every run; `OneCheckAtATime` also assumes
`ApproachAssumption`, and those about the loop `FrameAssumption`, both below.

* `TypeCorrect`, `TypeCorrectBatch`, `TypeCorrectHold` (`SectorProofs`): `TypeOK`
  is inductive; of `HoldSpec` this is said up to the first index of -1. It is less shallow than it looks: it includes that both rings stay
  within their arrays, that fuel never goes below zero, and that the choice inside
  `holding_remove` always finds a flight (lemma `Rank`: counting the members of a
  finite set of positions reaches every number up to its size). The lemmas follow
  the helpers: each takes parts of the state of the right types (`Parts`) to
  parts of the right types, so each action is a short composition.
* `HandedOver`, `HandedOverBatch` (`SectorProofs`): `NothingIdleWhileWanted` is
  inductive given the types. The argument: if the ring is not empty all runways
  are busy, so a released runway is the only idle one, and the flight that
  `free_runway` takes from the ring takes exactly it; if the ring was empty, a
  go-around puts one flight in it and the release takes that one out again. The
  same of gates and the taxiway.
* `NeverOverdue`, `NeverOverdueBatch`, `NeverBack` (`SectorProofs`):
  `NothingOverdue` is inductive given the types. `pq_push` inserts behind all
  events that the new one does not beat; in an ordered queue these are a prefix
  (`Prefix`, `AheadPush`), so the result is ordered, and since no handler plans an
  event before the clock, the head is never behind it. Hence the clock never goes
  back. The limit of events per frame in `run_app` is outside `Spec`; it is in `App`.

* `AlwaysTied` (`SectorProofs`) is the inductive invariant of the core, for any
  numbers of flights, runways and gates and any delays. None of the invariants below
  is inductive alone: whether a runway is leaked by a touchdown depends on the
  touchdown being the event of a flight that has one, and whether a flight is
  ever driven on depends on its place in the ring being taken out with its
  clearance. `AllTied` therefore says for every flight at once which runway, gate,
  places and pending events go with its state (`RunwaysTied`, `GatesTied`,
  `RingsTied`, `DriveTied`). It counts pending events, since two of a kind are as wrong as
  none. A handler breaks it half-way through (a runway released and not yet given
  on, a flight cleared and not yet on its way), so the statement `Tied` takes the
  parts of the state and a set `H` of flights *in hand*, which are exempt; each
  helper has a lemma that says what it does to `Tied`, and each handler is a
  composition that begins and ends with nobody in hand. TLC found the invariant to hold
  with the constants of `controller` before it was proved. From it follow
  - `RunwaysStayExclusive`, `GatesStayExclusive`, `RingsStayWaiting`,
    `EveryoneDriven`: the parts of it that the runs check;
  - `IndicesStayDefined`: the flight of a touchdown, a take-off or a gate release is in
    the state that awaits it, so it has a runway or a gate;
  - `DrainsClean`: with no event pending, nobody can be in the sector;
  - `GoneStaysGone`, `SeparationStays`: of every step, since only the flight an
    event is about, and the one that a released runway or gate goes to, change.

  `BatchIsSpec` says that the headless program takes only steps of the interactive one,
  so that what holds of `Spec` holds of both; what is told of a step is stated for `Spec`.
* `DeparturesAlwaysYield`, `ExpeditesAlwaysPreempt`, `EmergenciesAlwaysPreempt`,
  `ChecksOnlyByExpedite`, `AlwaysWatched`, `RingStaysInOrder` (`SectorSteps`). Each step
  has one of a few shapes (`Shape`: `Quiet`, `Joins`, `Declared`, `Rechecked`,
  `TakesIdle`, `Offered`, `Requeued`), shown once for each handler and command from
  `AllTied` (`StepShape`); each property follows by cases over the shapes. The
  preference among waiting flights is that of `holding_pop_priority`, applied to
  the ring as the handler left it, which may have lost a flight or gained one
  since the step began. Three need an invariant of their own, each of which TLC
  checked first: `EmergenciesLow` (whoever has declared an emergency is at or below
  the threshold, since fuel never rises and nothing else declares; `AllLow` says in the
  same breath which flights stay declared), `Watched` (a
  flight that waits has a check pending no later than the longest delay after its
  last update), and `InLine` (the flights of the ring entered it in their order,
  and a flight that has not yet joined it will enter with the time of its request). The
  last holds of `BatchSpec` only: Expedite moves a flight to the end of the ring.
* `LeastFuelAlwaysFirst` (`SectorSteps`): in an emergency `holding_pop_priority` takes a
  flight whose recorded fuel is the least. Its fuel left is no more than that, and that
  of another flight in the ring is less than recorded by what it has burnt since its last
  update. The other still waits after the step, so by `FuelWatched` then that update is no
  older than the longest delay between two checks (`BurntSince`).
* `TaxiwayStaysInOrder` (`SectorSteps`): a flight that comes to a gate was not its occupant
  before, so the gates have changed (`GatesExclusive`), and only two events change them
  (`GateEvents`). A taxi event finds no gate vacant while the taxiway is in use
  (`NothingIdleWhileWanted`), and a gate release serves its head.
* `OneCheckAtATime` (`SectorSteps`): in a headless run no flight has two fuel checks
  pending. Only a go-around could give it a second one, since it plans a check while
  that of the last wait may still be pending. `OneCheck` therefore adds *when* the checks
  are due: none later than the longest delay between two checks, and a flight's check
  before its touchdown, so that it has been spent by then. This needs the shortest approach
  to take longer than that delay (`ApproachAssumption`: 1.7 minutes against 1.0 with the
  shipped constants). What a handler may push is listed once (`StepPushes`), so each part
  of `OneCheck` is about the events of that list. Expedite adds checks, so the theorem is
  of `BatchSpec`.
* `AccountsStayBalanced` (`SectorSteps`): `AccountsBalance` is inductive given the types
  and `AllTied`. `Balanced` states it of any table of flights and any counters, so that
  it can be followed through the helpers of a handler. Each helper changes one flight
  and pays into the counters what that flight brings in (`Paid`): one landing when it
  leaves its approach, its wait when it gets a runway, its points when it departs. What
  a flight was in before an event comes from `AllTied` (the flight of a touchdown is
  landing, so it was not counted yet). The sums over the table are the library's folds;
  `CountingLemmas` shows that a sum exists and does not depend on the order of adding
  (`SumExists`, `SumsAgree`, from well-foundedness of the naturals), and that it changes by
  what one entry changes (`SumChanges`), respectively gains (`SumAdds`).

* `HeapTyped`, `HeapOrdered`, `RootServed` (`BinaryHeapProofs`): for any set of
  events, any capacity and any sequence of calls. The order of the heap alone is
  not inductive, because a running loop breaks it at the hole; `HeapOrder`
  therefore says which pairs may be out of order (the hole and its parent while
  sifting up, the hole and its children while sifting down) and that the children
  of the hole are in order with its parent, which is what the next turn needs. The
  root comes first by the least index among the slots that beat it: its parent
  would beat it too. They assume `EventAssumption` and `CapacityAssumption`.
* `HeapServesInOrder` (`BinaryHeapProofs`): the heap implements `PriorityQueue`, step by
  step. The mapping lists the pending nodes by their rank, the number of nodes that
  precede each. `seq` tells equal events apart (invariant `Numbers`: no two pending nodes
  share a number and none has reached `seq_counter`), so the ranks of n nodes are exactly
  1 to n. A turn of a loop only moves nodes, so it is a stutter (`SiftNodes`); `pq_push`
  adds a node that no other follows at equal time and weight, which lands where
  `PriorityQueue` inserts it (`SortedPush`); `pq_pop` takes out the node of rank 1
  (`SortedPop`), which is the root by `RootIsFirst`. It assumes also `UnsetAssumption`: the
  mark of a slot never written is no node.
* `RingTyped`, `RingCounters`, `RingKeepsTheLine` (`RingBufferProofs`): the array
  ring implements `WaitingLine`, for any number of slots and any flights. The
  argument is index arithmetic modulo the capacity (lemma `Wrap`): the slot of
  position k + 1 is the slot after that of position k, distinct positions have
  distinct slots, and the compaction copies the kept positions to slots 0, 1, ...
  They assume `RingAssumption`.
* `LogTyped`, `LogShowsLatest` (`ScreenProofs`): the circular log that `Narration` writes
  implements `RecentLines`, for any capacity: after `sim_log` each line is one place
  further from the newest, in the slot where it was (`Shifted`), and the slot that is
  overwritten is that of the line which falls out. They assume `LogAssumption`.

* `GeneratorTyped`, `GeneratorNeverStuck` (`RngProofs`): for words of any width, any
  shift and rotation and from every seed, the generator never reaches the all-zero
  state. Seeding: the first two words are the finalised successors of two states of
  splitmix64 that differ, and differ since the finaliser is one to one, so not both
  are zero. Stepping: the step is built from xors of words and a rotation, and if
  all four results are zero so are the four words before. They assume
  `WordAssumption`, `SeedAssumption` and `FinaliserAssumption`; the last says that
  the finaliser of splitmix64 is one to one, which needs the arithmetic of
  multiplication modulo 2^W and which TLC evaluates for the width it runs.
* `GeneratorLosesNothing` (`RngProofs`): the step can be undone, for any width, shift and
  rotations. The inverse (`Before`) is written out: a word rotated on by the rest of its
  width is back (`RotatedBack`), and a word is found from its exclusive or with itself
  shifted, bit by bit from the lowest (`LowBits`, by the lowest bit that would differ).
* `GeneratorKeepsRange` (`RngProofs`): a word stands for an integer, the sum of the powers
  of its bits (`SumType`), so the remainder is one, and a draw stays in any range
  (`RangeType`), of which `RangeKept` lists a few.

* `SelectionStaysLive`, `FramesKeepResources` (`ScreenProofs`): every step of the loop of
  `run_app` and of `run_snapshot` is a step of the core, a command, a new beginning, one
  that only moves the clock, or, after a frame that was cut, Hold or the diversion of a
  flight that has been held (`StepOfFrame`, `Held`). All of them keep the types, and the
  selection is a flight of the table in use (`Chosen`), since only a reset takes flights out
  of it; so `SelectionLive` holds in every frame, however long, however early its limit
  stops it, and whatever the keys. Hold breaks the ties of the core, as `api_hold` shows.
  `FramesKeepResources` is therefore stated of behaviours in which Hold is not given; the
  clock plays no part in the ties, so cut frames are included. No flight then lands while
  it is in the ring, so no diversion is the unusual one (`NoneRinged`).
* `FramesComplete`, `NobodyLeftInbound`, `LoopKeepsCoreRules` (`ScreenProofs`): commands
  and drawing see a simulation in which everything due has fired, no flight among it is
  still inbound, and the loop does to the core only what `Sector` allows, the clock
  included. These are what the guard of 100000 events can break, so they are said of a
  simulation until a frame of it is cut (`~ cut`). The code has no bound on the events of a
  frame, so a theorem cannot do without that. A reset begins a new simulation, which is
  uncut whatever became of the last one. The invariant is `UncutInv`: `ChosenInv` always,
  and `LoopInv` until a frame is cut. A step that leaves `cut` false is a reset or starts
  uncut, and ends a frame only with nothing due (`StaysUncut`). Of `LoopInv`:
  - `Complete` and `Underway`: while events fire the end of the frame is ahead, and
    between frames nothing is due. A command must not undo that: it plans only for
    minutes to come (`CommandLater`), and so does a reset (`InitLater`). The first arrival
    of a new simulation comes after a gap drawn by `rng_exp`, which must not be empty
    (`FrameAssumption`); the code guarantees it for any positive mean, so not for `--rate 0`.
  - `Asked`: an inbound flight has an event due that moves it on, its request of a runway
    or the fuel check that took its place when it declared an emergency. With nothing
    due there is thus no such flight (`NoneInbound`), so Hold is never accepted and no
    flight is ever held (`NothingHeld`).
  - `NothingOverdue` and `NothingIdleWhileWanted` of the core, which clock steps keep
    for the same reason.

  `KeepsCoreRules` speaks of `Core`, an instance of `Sector` with longer frames; that the two
  have the same steps is shown action by action (`SameStep`, `SameCommand`). The longest
  frame exists by `FrameAssumption`.
* `OptionsUnderstood`, `SweepsComplete` (`CommandLineProofs`): for command lines of any
  length. argv is the concatenation of the options, so first it is shown where each option
  is in it (`Starts`, by the least number of options for which the library's `FlattenSeq`
  would differ from joining them one by one). Then `ParseInv`: reading stands at the
  beginning of an option, and of the options before it the last about each setting has set
  it. A word used as a value is passed over with its option, so `--gates --csv` and the
  like are no exception. `RowsInv` does the same for the rows of a sweep; that the clamped
  number is the nearest is arithmetic. They assume `LimitAssumption` and
  `ArgumentAssumption` (`atoi` and the like make a number of every word).
* `LinesAlwaysMatch`, `AlwaysRedTogether`, `LastWordsKept` (`ScreenProofs`): each handler
  and command raises one counter or none (`Tallied`, `Untallied`; granting a runway or a
  gate raises none) and logs the line for it. A flight in danger stays so
  (`DangerStays`): a lost one is not touched again, and a declared emergency is taken back
  by Divert alone, which logs a newer line. That the line just logged is the newest is index
  arithmetic modulo the capacity (`NewestLine`). They assume `LogAssumption`.

Only model-checked: `Drains`, `Unpaused` and `SnapshotTaken`. They are liveness
under weak fairness, which needs `ENABLED` and is out of the prover's reach. Of the safety
properties of the passing runs all are proved but `ArrivalPlanned` and `LeftoversKept`,
which are new and only model-checked so far. What a recursive definition computes
for every input is proved only where a least counterexample leads to a contradiction (sums,
the values of words, the joining of options).

## 5. Observations

* `holding_pop_priority` compares fuel as last recorded, up to a check interval
  old, so among emergencies the flight it serves need not have the least left;
  `LeastFuelFirst` bounds the difference.
* A flight refused by a full taxiway asks again later and may be overtaken by a
  flight that lands after it and finds a slot.
* The emergency branch of `on_runway_request` never runs with the shipped spawn
  fuel; `batch` reaches it by spawning at the threshold.
* The guard of 100000 events in `run_app` sets the clock to the end of the frame
  even when it stopped the loop early: commands then act at a later time than what is
  still due, and the next event turns the clock back, although `include/sim.h:111` has
  `sim_step` advance it. That takes thousands of flights that hold and poll and a frame of
  hours of simulated time, as after the window has stalled. The model has it (`cut`).
* A flight that was held, cleared and then diverted before it lands (which needs a frame
  that was cut) is still in the ring while `sim_cmd_divert` releases its runway, may be
  cleared by that release, and leaves with the runway occupied for good.
* `src/sim.c:509` says that departures yield to landings. What the code tests is
  whether a runway is idle, so a flight dropped from a full ring is passed by a
  departure whose poll comes first; the ring itself is never passed
  (`DeparturesYield`).
* `README.md:153-154` says that the log narrates clearances and holds. No handler
  logs either; only the command Hold logs a hold, and it is accepted only after a
  frame that was cut.
* `README.md:129-132` says that `--runs N` never opens a window. `main` tests
  `runs > 1` (`src/main.c:112`), so `--runs 1` without `--headless` opens one.
* `--rate` and `--horizon` are taken as they are. `rng_exp` multiplies by the rate,
  so zero puts all arrivals at one minute and a negative one puts them before the
  clock; `TimeAssumption` supposes positive gaps.

## 6. Plan

Done: `EventQueue`, `Sector` with its properties, runs and first proofs; the heap,
the rings and the log under it, each against its abstract specification; `App`,
`Narration`, `CommandLine` and `Rng` around it; the inductive invariant of the core
and the safety properties that follow from it; the implementation of the queue by the
heap, the generator and the accounts; the frame loop and its clock, the log, the single
fuel check and the command line, proved. What could follow:

1. A bound on the events of a frame in terms of its length and of the number of flights,
   which would replace `~ cut` by a condition on `FRAME_EVENTS`. Without Expedite
   each flight has a bounded number of events pending and each re-arms itself after a
   least delay; with it there is no bound, so it must be of a frame's own events.
2. A decreasing measure of the headless run, the safety part of `Drains`.
3. Proofs of `ArrivalPlanned` (by what each handler pushes) and of `LeftoversKept`.

Not modelled: drawing (output through raylib; `update_visuals` writes display
fields only), the bars of the performance panel, the identity tables (text for the
screen), the formatting of reports and of CSV rows, `rng_double` and `rng_exp` as
arithmetic on doubles (a draw is a choice), and the tests.
