# trip-decider: a TLA+ model

trip-decider plans trips from live evidence.  A host (an MCP client or the web
page) creates a *run*, confirms its travel intent, lets background threads
collect railway, web and map evidence, and gets back a plan or an account of
what is missing.  Many threads, tool calls, reads and a watchdog act on one run
whose state is spread over memory and several JSON files; evidence ages, is lent
between runs and collected again; and a plan is compiled from it and then edited.
These are what the modules model.

Paths below are relative to `src/trip_decider/`.

## Inventory

| Component | State | Operations | Hard behaviour | What makes it correct |
|---|---|---|---|---|
| Action loop, `agent_actions.py` | `_STATES` (evidence, last success, action status, fallback result), `_IN_FLIGHT`, `_TIMEOUT_STRIKES`, `action-loop.json`, `evidence/current.json` | start, restart, resume, offer, claim, dispatch, submit, land plan, block, time out, load | workers without locks, watchdog against late answers, crashes between writes | exclusive claims, kept evidence, consistent status, recoverable blocks |
| Run record and store, `travel_agent.py` | `AgentRun`, sessions, events, `run.json`, `session.json`, `events.jsonl`, plan versions | create, confirm, start, complete, record, resume, revise, block, fail, load, wait for events | guards against calls from several threads, three files per change, streams that break | what was answered is on file, event streams have no gaps, versions stay |
| Application service, `trip_application.py` | `_cancellations`, background threads | execute, select, retry, revise, submit, audit, settle | checks a run and acts on it later | one comparison worker, every comparison settles |
| Verification registry, `verification_registry.py` (with `itinerary_verification.py`) | entries, inboxes, workers | start, read, drain, prune, evict | two critical sections per call, expiry, capacity, dead workers | complete results, no duplicate collection, every id settles |
| Evidence broker, `evidence_broker.py` | records by query, `records.json` | publish, stale fallback, load | two runs publishing, clock, age, failing writes | newest record wins, nothing lent is shown as fresh |
| Evidence kernel and projection, `evidence_core.py`, `evidence_projection.py` | none | support, freshness, token, next action, re-collection | boundaries of time, conflicting facts, failed refreshes | every verdict valid, stale shown as stale |
| Discovery, `guided_discovery.py`, `reachability.py`, `dynamic_discovery.py`, `destination_*.py` | futures, deadlines, cards | compare candidates in parallel, stream, admit, reject | deadlines and cancellation against late futures | one outcome per domain and candidate, nobody vanishes |
| Planning, `planning_input_compiler.py`, `itinerary_planner.py`, `destination_runtime.py` | the draft and the timetable | compile, install, edit | time windows, missing inputs, sequences of edits | sound plans, locks kept, losses and overlaps reported |
| Collectors, `simple_live.py`, `intercity_rail.py`, `amap_parsers.py` | provider sessions | query, parse | network | data, not modelled |
| Process ownership, `runtime_owner.py` | an OS file lock | acquire, release | second process | assumed: one process |
| Read models and adapters, `trip_query.py`, `trip_read_model.py`, `mcp_*.py`, `product_web.py`, `web/app.js` | none | projections, translation of calls, event streams | reads that collect again and write back | covered through the operations they call |

Calls go adapter -> service -> (action loop, comparison, registry) -> store.
The service starts threads; threads call back into the action loop and the
store.  Shared state: the run record (store lock), the loop (run lock), the
in-flight registry (global lock), the registry of verifications (its own lock),
the broker's records (its own lock).  Plan versions have no lock.

## Modules

| Module | Models |
|---|---|
| `RunRecord` | `AgentRun` and the guards and transitions of the store (pure operators) |
| `ActionLoop` | the loop of one direct-planning run with its threads, files and crashes; uses `RunRecord` |
| `CandidateWorker` | the comparison phase of one discovery run: tool calls, comparison threads, retries, selection; uses `RunRecord` |
| `AgentStore` | the store itself: calls, their three files, plan versions, loading, event streams; uses `RunRecord` |
| `VerificationPromise` | what a host may rely on when it asks for verifications (abstract) |
| `VerificationRegistry` | the registry and its workers; implements `VerificationPromise` |
| `EvidenceKernel` | support, freshness, tokens, next actions, projection of stored items (pure operators) |
| `EvidenceBroker` | the evidence of one query shared by several runs: collections, the broker, fallbacks, merging, re-collecting reads; uses `EvidenceKernel` |
| `GuidedDiscovery` | one comparison of candidates by parallel collectors, then selection and later reads; uses `EvidenceKernel` |
| `PlanCompiler` | from evidence to a draft and a timetable (pure operators); uses `EvidenceKernel` |
| `Replan` | the edits of a user applied to a timetable (pure operators); uses `PlanCompiler` |
| `Planning` | compile, install, edit again and again; uses `Replan` |
| `ActionLoop_proofs` | types and exclusive claims of `ActionLoop`, and what it keeps: evidence, results, files, late results |
| `EvidenceKernel_proofs` | what the kernel's verdict is on any item; used by the next two |
| `EvidenceBroker_proofs`, `GuidedDiscovery_proofs`, `CandidateWorker_proofs`, `VerificationRegistry_proofs`, `AgentStore_proofs`, `Planning_proofs` | theorems about the modules they are named after |
| `MCActionLoop`, `MCCandidateWorker`, `MCVerificationRegistry`, `MCAgentStore`, `MCEvidenceBroker`, `MCGuidedDiscovery`, `MCPlanning` | constant values for TLC |

### ActionLoop and the code

* `run` is the run record.  Store calls hold the store lock until `run.json` is
  written, so memory and file are one variable here; `AgentStore` opens them up.
* `loop` is `_STATES[run_id]`; `known` says whether there is one, in memory or
  loadable (`corrupt`: only one of its two files was written).
* `flight[w]` is a thread inside `execute_registered_action`: *claimed* (in
  `_IN_FLIGHT`, waiting for the run lock), *flying* (handler running without
  the lock, with the intent, last success and readiness it copied), *landed* or
  *refused* (about to release), *released* (gone, but its watchdog has expired
  and still wants the lock).
* A section under the run lock is one action that changes memory, followed by
  the queue `ops` of the file writes and store calls it still makes, one action
  each, so that a crash, a settlement (which does not take the run lock) or an
  expiry may fall between any two.  Everything that takes the run lock needs
  `ops = <<>>`.  `store.start` asks for CONFIRMED again: when an edit has started the run since the
  section tested it, the start raises and the section ends (`StartRefused`).
* `driver[d]` is a thread of `run_until_blocked` that has returned
  NEED_USER_INPUT; deciding and settling are two steps because the code reads
  the run and blocks it without a lock held across.  It may decide at any moment:
  the waiting budget may run out at any moment.
* `reader` is a read of the web deployment that re-collects stale evidence.
* `editor` is a call of `revise_run` that edits the plan a run shows: the store
  calls it makes (prepare, start, install, complete, or fail) are one action each,
  because it never takes the run lock.  `Edited` marks what an edit produced.

Evidence is `Absent`, `Missing` or `Usable(F)` with the intents `F` it was
collected for; an intent is a destination and the rest of what the railway query
depends on.  Which follow-up actions a plan lacks depends on its content; the
model offers all of them (`MayBeOffered`) where the code may, and refuses only
what it must (`Offered`).  A planner may always return an unfinished draft, and
a finished plan only from usable evidence in all domains.

### CandidateWorker and the code

A discovery run has no action loop until a candidate is selected; one thread
(`_candidate_comparison_background`) compares candidates for it, and
`_cancellations` says whether this process has one.  `caller[c]` is a tool call
between two of its reads, tests and store calls (no lock spans two of them):
*polled* has read RUNNING, *settling* has found no worker, *starting* has found the
run startable, *registering* has set it RUNNING, *spawning* has registered a worker,
*selected* has read a card, *continued* has turned the run into a direct plan; *asked* is
a `revise_trip` that has read the run, *prepared* one that has made it CONFIRMED,
*revising* one that has made it RUNNING.
`worker[t]` is a comparison thread between two of its steps; each is used once.
`RunRecord` is instantiated with the two task modes as intents; `run.code` is
`error_code`, which `start` and `complete` leave as it was.  Guided and open
discovery differ in the wording of events only and are one mode.  What a direct
plan does once its loop exists is `ActionLoop`; what the comparison itself does is
`GuidedDiscovery`.

`revise_trip` and `revise_run` ask for no task mode, so a comparison that has ended can be
revised like a plan.  It has no plan to revise: the executor raises and the run FAILS, from
where only another revision leads on.  Its options stay in `run.result`.  A revision carries
the intent it read first; if a selection comes between that read and `prepare_revision`, the
direct plan is turned back into a comparison.  `FailRevision` looks at no status, as
`store.fail` does, so that it may fail a run another thread has completed meanwhile.  The
branch of `revise_trip` for an intent that changes more than the pace
(`restart_action_loop_for_intent`) needs an action loop and belongs to `ActionLoop`; without
one it raises.

### AgentStore and the code

A store call is one action that changes the record and appends an event, followed by
`Write`, once per file (`session.json`, `run.json`, `events.jsonl`): `op` holds the
lock until the last one.  `Load` reads what the files hold; a directory that has one of
`session.json` and `run.json` without the other makes it raise, and the service does
not start (`up = "refused"`).  `install[i]` is a thread in `persist_plan_version`, which
counts the kept versions, writes the numbered file and then `plan-version.json` without a
lock.  `stream[r]` is an event stream of the web server: `WaitForEvents` takes the events
after the cursor, `Send` sends them and moves it, `Drop` breaks the connection after a
part.  An event's number is its place in the log of all sessions, so that an event lost
in a crash gives its number to the next.  A record is reduced to status, mode, kind of
result and whether it is retryable.

### VerificationRegistry and the code

`entries`, `inbox` and `worker` are `_entries`, the queues of the entries and the
threads; `call[c]` is a call of `verify_itinerary` between its two critical
sections.  Every section drains all inboxes and prunes first (`Pruned`).  The id
of an entry is the call that made it.  The refinement mapping shows an id as
unused until its entry exists, as the entry while it exists, as forgotten after.

### EvidenceKernel, EvidenceBroker and the code

`EvidenceKernel` has one operator per function of `evidence_core.py` that decides
something, and the projection that turns a stored item into the fact it judges.  Stamps
are numbers, `NoTime` one that is absent or does not parse.  An item keeps the three
places a collection time may be in, because the functions that read it disagree on
nothing but are written by different writers.

`EvidenceBroker` follows one query of one domain (railway or map; queries do not
interact) through the runs that ask it.  `attempt[r]` is a collection between its steps:
*asked* (the handler runs), *answered*, then *settled* (usable, published),
*degraded* or *disputed* (replaced by the last success or by what the broker lends),
and submitted under the run lock.  `reader[r]` is a read of a page that collects stale
evidence again and writes back what came of it, or what it had copied.  `landed` and
`failedRead` are history.  A clash of stamps within one second is excluded: `Ask` and
`StartRead` start later than what is there.

### GuidedDiscovery and the code

The collector threads answer at any moment or never (`Collector`); the loop of
`build_guided_comparison` is one action per step between two looks at shared state:
`Look` (cancelled, or nothing pending), `Wait`, `Handle` for each completed future,
`Deadlines` (one look at the clock), `GiveUp` for each late one, `Emit` and `End`.
`card` is what was streamed, `check` what is returned.  What railway evidence says is
reduced to whether the trip is near enough, too far, untimed or estimated; evidence of
other domains to whether there is any.  `Select` and `ReadCandidates` are what happens to
the selected run afterwards.

### PlanCompiler, Replan, Planning and the code

`PlanCompiler` gives the days, events, meals, blockers and the planning state that
`PlanningInputCompiler.compile` comes to, and the timetable it sorts them into;
`Replan` the steps of `replan_itinerary` in its order: locked events put back, later starts
of days with the meals they push, removals, visits forced to a day and days that change
places, durations, and the review of pace and overlaps.  Times are minutes from midnight of
the first day.  Costs, wording, references, the report of changes and the overall status of
an edit are left out.
`Planning` installs what the compiler makes, edits it with every combination of up to
`MaxChanges` changes, of which the pace is one, and loads it again.

Both were validated against the program: the days, times, conflicts, unscheduled places and
planning states of the model equal those of `PlanningInputCompiler.compile` and
`revise_destination_plan` (with the plan written to JSON and read back where the model
reloads) on every one of 86,227 states, which are all sequences of edits and reloads within
the bounds of `planning` over its twelve complete trips, and on 1,189 more with evidence
missing.  The comparison found one error, since corrected: the window of lunch is tested on
any day a lunch is listed on, not only on its own.

Loops of the code are `Loop`, which is a recursive function of the round, and not folds: a
proof can then follow them round by round.  An id is a tuple of the kind of event and what it
is about; only free time after a removed attraction has four parts, which is how the proofs
know that it is new.  `MealSlot` takes the meal's window and gives the id of the train a meal
is eaten on.

A place is matched by its name, and a route serves every attraction whose name is contained
in the name it leads to, or from: `to` and `from` of a route are the sets of these
attractions.  Attractions come from the map item and from the web item, each one once.  That
names are not empty and that a trip has fewer than ten days (ids are compared as text) is
assumed.

A route from one attraction to another is the way from the first and again the way to the
second (`planning_input_compiler.py:891` and 1011).  Such routes are the collector's
default: `_web_route_segments` (`agent_actions.py:2062`) chains base and attractions where
the web evidence names no routes of its own.  The event of such a ride is listed twice, and
is one object: what moves one listing moves the other, and a day that shifts shifts it as
often as it is listed there (`ShiftListed`).  The key of an event in the model is its id
while its listings are one object.  They come apart where the code copies them one by one:
a swap copies two days each on its own (`Swaps`), a lock puts back a copy of the last listing
(`Restored`), and a restart reads every listing from the file (`Reload`).  From then on each
has a key of its own (`Separated`), and `IdOf` gives the id that both still have, which is
what edits, locks and reports speak of.

## Runs

| Run | Shows | Bounds |
|---|---|---|
| `flights` | claims stay exclusive, a completed run shows the installed plan, types | 2 workers, 1 driver, no slow or failing action |
| `revise` | evidence through revisions and restarts: kept, dropped and reported as the intent requires | 1 worker, 3 intents (2 destinations, and one that changes only the rail inputs), seeded and empty loops, a failing railway collector |
| `crash` | runs that ended can be restarted, files equal memory | 1 worker, 1 crash at any point, malformed web values, read-time re-collection |
| `edits` | runs that ended can be restarted although plans are edited and actions time out; late results are taken in | 1 worker, 1 edit, a slow railway collector, 3 strikes |
| `comparison` | one comparison at a time, options backed and kept, every comparison settles | 2 tool calls, 2 starts, 2 comparison threads, 1 revision, 1 crash |
| `polling` | complete results, sparing capacity, no needless refusal, every receipt settles, refinement of `VerificationPromise` | 3 calls, 3 request shapes, 2 slots, 1 tick, retention 0 |
| `evidence` | freshness, verdicts, the broker's record, throttled reads | 2 runs, 1 of them on a page, railway and map, 2 collections each, 3 instants, tolerance 0, throttle 2, 1 fault |
| `discovery` | streamed cards are returned, nobody vanishes, reasons are told, the comparison ends | 2 candidates, 2 configured domains, 5 railway answers, deadlines of 1, 3 instants, a cancellation |
| `planning` | plans are sound when installed, locks hold, losses and overlaps are told | 7 trips of two and three days, each complete and broken in 6 ways, and 5 of two to four days with a ride listed twice, a route that serves both visits or attractions from the map; evidence of age 0 and 1, 2 changes, 1 pace, 2 lengths, 2 clocks, reloads |
| `store` | what was answered is on file, streams are whole, versions stay, watchers are told | 1 run, 1 installer, 5 events, 2 plans, 1 fault |
| `train_moved`, `wrong_trains` | disagreements, see below | as `planning` and `discovery` |

Why the bounds suffice.  A conflict over a claim needs two workers; an eviction between
another call's two sections while a third verification runs needs three calls; a retry
that meets the worker it replaces, a poll or a selection needs two calls and two starts.
One crash is enough for durability because the invariant is inductive over the state a
crash leaves (and proved).  Three strikes are the code's own number; `flights` and
`revise` leave time-outs out, and exclusive claims under the watchdog are proved for any
number of strikes.  `flights` leaves edits out because with one the plan a run serves
need not be the installed one (see below).  In `evidence`, tolerance 0 makes fresh,
expired and lent evidence meet within three instants.  The trips of `planning` are those
at which the compiler's times meet: arrival late or overnight, departure early, with dinner on
the train or just after midnight, and days without trains, on which alone days can change
places; two changes are one edit of two or
two of one, so that the second meets what the first left.

Larger instances that were explored once and are too long to keep as runs: the store's
inductive invariant with two runs and one installer (324,095 states) and with one run
and two installers (928,171); `evidence` with one run on a page, four collections, seven
instants, tolerance 1 and one fault, for each domain (544,645 and 511,373); map alone with two
runs, one of which collects only once, three collections, four instants, tolerance 1 and one
fault, with the parts of the invariant `Mapped` (1,025,337).

Deadlock is not checked where calls, time or faults are finite and the system therefore
comes to an end, where a violation is looked for, and in `crash`, whose corrupt state has
no way out in the code either.

Some statements are kept in the modules although no run checks them, because they do not
hold, or hold only without a part of the system.  They are the last section of their
module, and *Disagreements* names the instance that shows each.  `TypeOK` of
`EvidenceBroker`, `AgentStore` and `GuidedDiscovery` is proved rather than checked by a run; that of
`Planning` was checked on the instance of its run.

### Fairness

* `comparison`: calls and threads that have begun go on, a comparison ends (its futures
  have deadlines, which is what `discovery` shows), and the host polls a RUNNING run, as
  each response tells it to: nobody else notices a lost worker.
* `polling`: workers end because provider queries have time-outs, a call that has begun
  goes on, and hosts poll as the `next_call` of each response tells them.  Without
  polling nothing drains an inbox.
* `store`: the call that holds the lock writes its files, a service that is down is
  started, and a client connects again (strongly fair, because a crash may come between any
  two of its steps).
* `discovery`: the loop goes on and time passes.  Collectors need never answer.

`ActionLoop`, `EvidenceBroker` and `Planning` have safety properties only and assume no
fairness.

## Proved

Everything below holds for every value of the constants that satisfies the named
assumptions of the module, and rests on nothing else.

**`ActionLoop_proofs`.**  `TypeCorrect`, action by action, with lemmas for the records each
action builds.  `NoDoubleExecution` (`SingleFlight`), which is inductive as stated: the
registry equals the set of actions of busy flights, and no two busy flights share one.
Most of the others need to know what waits in `ops`, the queue of writes a section still has
to make; `QueueOK` says so and is proved first.

* `QuiescentIsDurable`: for each file, it equals memory or its write is still in the
  queue (`DurableInv`, `Due`); with an empty queue the first remains.  A section that begins
  with a start, which an edit in between may make the store refuse (`StartRefused`), finds
  memory and files alike.
* `LateResultsCount`: a thread in flight keeps its action's claim until it has landed
  (`FlyingInv`), and the claim opens both gates.
* `EvidenceTracked`, without reads that collect (`TrackInv`): they write evidence
  and no last success.
* `CompletedIsUsable` and `EvidenceSurvives`, without such reads and without crashes
  (`DoneInv`, `SurviveInv`): a crash between the two files of a submission leaves the new
  status with the old evidence.
* `CompletedServes`, without edits (`ServeInv`): while a run is COMPLETED no planner is
  under way and the plan it shows is the one installed last.
* `EndedRestarts`, without crashes (`EndInv`): every way into an ended status leaves a
  result and a loadable loop.

**`CandidateWorker_proofs`.**  `TypeCorrect`; `OneWorkerAtATime`, inductive as stated because a
registration is only made where there was none and only removed by whoever holds it;
`ShownOptionsStay`, because in a COMPLETED run every action but a selection, a revision that
is prepared and one that fails leaves the
record alone, whatever it had decided on, and none of these three touches the result; `CompletedIsBacked`, from `Backed`: a thread
about to complete the run has written the file, and no other thread can have since.

**`VerificationRegistry_proofs`.**  `CompleteHasEveryFinding` is not inductive: a verdict in
an inbox says nothing of what came before it.  `IInv` adds that what is found, what
waits and what the worker has left add up to the request, that no verdict precedes the
last finding, and that a call that has not begun has left no trace.  From it:
`TypeCorrect`, `CompleteIsComplete`, `CapacityIsSparing`, `CollectedOnce` (with `Unique`),
`RefusedWhenAllRun`, and `PromiseKept`, the refinement of `VerificationPromise`: the
abstract state is a function of the registry's (`View`), every drain, prune and insertion
moves each id along the promise or leaves it (`RInv`, `DrainedAdvances`, `InsertView`).
The promise has no fairness, so the whole of it is proved.

**`AgentStore_proofs`.**  `IInv` is the conjunction of `TypeOK` and of what the files hold while
a call is half written (`FilesOK`), after a crash (`CrashedOK`), how events are numbered
(`NumbersOK`), what a stream has sent (`StreamOK`) and what an installer has written
(`InstallOK`).  From it: `TypeCorrect`, `AnsweredStays`, `WholeStreams`, and `KeptVersions` where
one installer is at work at a time.  `RecordFollows` adds `Gap`: the record on file is as many
transitions ahead of the log on file as there were crashes, and one more only between the
two writes of a call; what memory says is what the file says, or what follows it.  That a
record is ahead by one transition whatever happened, as this project first stated, is not
inductive and not true: with two crashes the events of two transitions in a row are lost.

**`EvidenceKernel_proofs`.**  `VerdictValid` goes through the kernel once: the verdict on *any*
item with a known status and reason, under any policies and at any time, passes the
kernel's check of next actions, and what is not verified comes with something to do.
`ConflictVerdict`: sources that disagree are told as such and left to the user.

**`GuidedDiscovery_proofs`.**  `StreamedStays`, from the shapes of the queues and the batch
(`Shapes`, `BatchOK`) and from `CardsOK`: a card exists exactly for an outcome that is final.
`Told` adds what is known of every future: one that is waited for has answered with a reply
of its collector or not at all (`AnswersOK`), an outcome is missing only while it is waited
for, nobody is without an answer unless timed out or cancelled (`OutcomesOK`), and every
candidate has its card when the loop has been left (`EndOK`).  With the kernel's two facts it gives
`TypeCorrect`, `AllAccountedFor` and `ReasonsHold`.

**`EvidenceBroker_proofs`.**  `Typed` is `TypeOK` with at most one source per item, which is
what merging keeps.  From it and `VerdictValid`: `TypeCorrect`, `ReadsRender`, `RecordImproves`.
`ReadsAreSpaced` adds `FailureNoted`: the time of a failed read stays with the evidence until
something else lands.  `LiveIsVerified` and one half of `FreshIsLive` add `Rail`, about railway
queries: a collection began after the last success, so that whatever it falls back on is
marked with a failure that is later than its collection (`Spent`), and only a live answer is
not.  The other half adds `Mapped`, about map queries: no item has a stamp from the future
(`Held`); what is shown with routes and without a failure is the last success itself;
routes a collection settles with are that, or found after all of its stamps
(`FoundSince`), so that merging them makes nothing younger than the answer that landed; and
what lands after a failure says so.  `FreshTells` is what the kernel contributes: "fresh" means
usable, young enough and without a failure since.  Two older readings of the code did not
survive this proof: the failed search for routes is a record of its own
(`routeFailure`), and merging keeps the time of an older failure, so that the property has
an exception for map evidence (see `FailureIsTold` below).

**`Planning_proofs`.**  About any trip and moment, any edits and reloads in any order, which
combine any number of removals, moves, durations, later starts, locks and paces, and all
evidence the three assumptions allow: routes have ids that are theirs alone and lead between
any places, attractions have names, trips begin on their first day and end, trains have times.
Rides that are listed twice, on one day or on two, are covered.

* `PlansAreGood`, the invariant: what is installed lists only events it has, and only rides
  more than once (`Listed`), every
  visit under the id of its attraction and nothing else under it (`GoodEvents`), and free time
  after an attraction only where nothing goes with it any more (`Fresh`).  Without the last a
  second removal of the same attraction could write over free time that the user has locked
  since.  It is proved of the compiler first, stage by stage (`RailwayGood` to `CompileGood`),
  because a plan is what the compiler made of whatever evidence, and kept by a reload, which
  gives each listing a key of its own (`ReloadKeeps`).
* `PlansAreSound`: what the same stages compute.  `Adds` says that a stage leaves the events
  before it as they are, and which kinds it adds; `Timed` that the visits keep to check-in and
  check-out, which each round of the loop over the attractions preserves (`CompileVisitGood`)
  and which no later stage disturbs (`SameTimed`); `Neat` that nothing lies on the meals and the
  free time of a day.  `Neat` survives a new event only if that keeps clear of what is there
  (`PutNeat`), which is what the search for a meal's slot (`MealSlotGood`), the start of the
  night (a meal is over by ten, `Settled`) and the gaps between events (`GapsGood`) are for.
  `Sound` is what is left at the end, and a plan is installed only of a draft with both trains
  (`InstalledOnly`).  No plan is edited back to `NoEdits`, so that the invariant is inductive.
* `LocksHold` and `NobodyLost`: first what is locked is put back where it was last listed
  (`Restored`), whatever else was put back before, and stays there through the rest of that
  round; from then on it is listed once, and each edit keeps `GoodPlan` and what `Keeps` says: what
  is locked stays unless what it goes with is removed, nothing comes back, an attraction is lost by
  removal or reported (`StartLaterKeeps`, `RemoveAttractionKeeps`, `ForceKeeps`, `SpendKeeps`).
  `Keeps` is transitive (`KeepsTransitive`), which carries it over the loops over days and names
  and from one kind of edit to the next.  The removal of an attraction is the one edit that is not
  good between its rounds; `RemovedBefore` says what the days before a round have lost.
* `OverlapsReported`: of the listings of a day in the order of their starts (`Agenda`,
  `DaySorted`), of two events that lie on each other the earlier overlaps its neighbour, unless a
  meal is tied to one of them (`ClashOverlaps`); such a pair overlapped in no plan in which nothing
  listed began while something else lasted (`CalmOverlaps`), and
  a pair that is new is told (`ToldOverlaps`).

A loop is followed by induction on its rounds: `UpTo` and `NatSet` are induction for a *set*
of naturals, from the well-foundedness of their order.  The assumptions are
`NamesAssumption`, `CasesAssumption` and `BoundsAssumption`.

Three statements of this project did not survive these proofs, although an instance of the run
had kept them: that visits lie before the departure whatever day it is on, that *every*
overlap an edit makes is told, and that what is locked stays on every day it is listed on.  The
instance was given a return after midnight, a dinner on
the train and rides from one attraction to the next, the properties say what holds, and the
three statements are among the disagreements
(`VisitsPrecedeReturn`, `EveryOverlapIsTold`, `EveryListingStays`).

### Only model-checked

Liveness (`ComparisonSettles`, `EveryReceiptSettles`, `ComparisonEnds`, `EventsAreTold`) and
whatever needs ENABLED are beyond the prover.  Every invariant and every action property of
the runs that pass is a theorem.

## Disagreements between documents and code

Two are runs of this project.

* `train_moved` (`TrainsStay`): a longer visit shifts every later event of its day, the
  return train included (`itinerary_planner.py:1925`); the plan stays PLANNED and shows a
  train at a time at which none runs, although the code says of these events that their
  times come from the railway's snapshot (526).
* `wrong_trains` (`RailIsOfSelection`): reading the candidates after a selection
  collects the trains of all candidates again and writes them into the selected run by
  domain only (`trip_query.py:360`).  A collection that succeeds asks for the run's own
  intent; one that fails puts back what it was given, and another candidate's trains then
  stand in the run.

The others are statements kept in the modules, with the constants that show each.

| Statement | Shown by | What happens |
|---|---|---|
| `ActionLoop!EvidenceFitsDestination` | two destinations, 1 worker, slow railway | evidence of an action dispatched before a revision lands in the revised run; `agent_actions.py:316` says a restart reuses *still-applicable* evidence |
| `ActionLoop!CompletedServesInstalledPlan` with an edit | 1 worker, 1 driver, 1 edit | a planner completes the run between an edit's start and its installation; `travel_agent.py:2322` calls the installation atomic |
| `ActionLoop!NoSilentStall` | 1 worker, no driver, malformed web | a malformed web submission leaves the run RUNNING with nothing to do; the docstring at `trip_application.py:1107` says why that must not be |
| `ActionLoop!BudgetLeavesRunAlone` | 1 intent, 1 worker, 1 driver | running out of waiting budget blocks the run; `agent_actions.py:2916` says it does not |
| `CandidateWorker!LostMeansLost` | `comparison` without crashes | a poll settles a comparison as lost between the moment a call sets the run RUNNING and the moment it registers the worker (`trip_application.py:224`) |
| `CandidateWorker!RevisedIsKept` | `comparison` | while a revision is under way the worker of an earlier retry completes the run with other options; `prepare_revision` (`travel_agent.py:1197`) says the last version stays available (上一版继续可用) |
| `VerificationRegistry!ReceiptIsThere` | 2 calls, 1 slot, retention 1 | the receipt of a new verification is evicted before `verification_registry.py:183` reads it back, and its assertion fails |
| `EvidenceBroker!SupportNeverRaised` | `evidence` with tolerance 1, 4 instants, no faults | a failed refresh turns the estimated route durations into sourced ones (`agent_actions.py`, `_stale_generic_evidence`) |
| `EvidenceBroker!FailureIsTold` | map, 1 run on a page, tolerance 1, throttle 2, 5 collections, 4 instants, no faults | merging keeps the `attempted_at` of an older failed read in the place of a newer failure that has none, and the evidence is shown as fresh; `evidence_projection.py:270` says a failure without a time is one after the collection |
| `EvidenceBroker!ConflictIsShown` | the same | a live answer in which the sources disagree gives way to older or lent evidence, and the conflict is not shown |
| `AgentStore!VersionsStay` with two installers | `store` with two | a planner and an edit count the kept plans at once and both write the same number (`travel_agent.py:1251`) |
| `Planning!VisitsDoNotOverlap` | `planning` | on a trip of two days all visits are placed on the last day at 09:30; `PLAN.md:159` asks for activities that do not overlap |
| `Planning!VisitsPrecedeReturn` | `planning`, no changes | the test for time before the return compares dates (`planning_input_compiler.py:875`): with a return shortly after midnight, check-out is the evening before and the visits of the last day come after the departure; the blocker there says such a visit is left out |
| `Planning!EveryOverlapIsTold` | `planning`, 1 change | the review compares neighbours in the order of their starts (`itinerary_planner.py:2000`) and skips a meal with its train: with dinner on the return train, a ride that begins during both and that a later start pushed there is not reported |
| `Planning!EveryListingStays` | `planning`, 1 change | a ride from one attraction to the next is listed on two days; locking it takes it off both and puts it back on the last only (`itinerary_planner.py:1168`-1200), and nothing is reported, although the review says that locked events are not moved silently (2032: 系统未静默移动锁定事件) |

Hazards of the code that the models contain and no property is about: a crash between
the first `action-loop.json` and `evidence/current.json` makes every later load of that
run raise (`agent_actions.py:3176`; `known = "corrupt"`); a crash between the two
files of a submission leaves the new status with the old evidence (3131); a write that
fails in the broker loses the collection it was about; a read that collects again may
put back what it copied over what has landed since (3104), and a re-collection of a map
loses its routes; time-out strikes are cleared only when the planner lands (409), so that they
need not be consecutive.  Outside the models: loaded runs are ordered by stamps of one
second (`travel_agent.py:1502`); a view combines several reads of a run that moves meanwhile.

## Plan

Done: all modules of the table.  Left, in this order:

1. `TripRun`: `CandidateWorker` and `ActionLoop` composed over one run record, with the
   property that every ended run has a way out (retry, selection or restart).
2. Liveness of `ActionLoop` under fairness of its threads, watchdog and host; its state
   space allows it only without edits and revisions.
3. `ActionLoop` over `AgentStore` instead of `RunRecord`, shown to implement the present one.

## Not modelled

* The collectors (`simple_live.py`, `intercity_rail.py`, `amap_parsers.py`): HTTP, parsing and
  provider sessions; their outcomes appear as nondeterministic answers.
* Several processes: `runtime_owner.py` excludes them by a lock of the operating system, and
  every module assumes one process.
* The report of what an edit changed (`itinerary_planner.py:2040` to 2245) and the plan shell of a
  destination context with its reference check (2316 to 2458): they describe or check a plan and decide
  nothing about it.
* The pools candidates come from (`destination_*.py`, `dynamic_discovery.py`): data, given as
  `Candidates`.
* Wording, layout of views, the browser (`web/app.js`) and the registration of tools.
