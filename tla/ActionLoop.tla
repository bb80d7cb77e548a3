----------------------------- MODULE ActionLoop -----------------------------
(***************************************************************************)
(* The action loop of one DIRECT_PLAN run (agent_actions.py), driven by     *)
(* tool calls and background threads (trip_application.py).                 *)
(*                                                                          *)
(* Three evidence domains and the planner are "actions".  A caller claims   *)
(* an action, a worker thread dispatches it under the run lock, collects    *)
(* without the lock, and takes the lock again to land what it got.  A       *)
(* watchdog may give up on the worker first; the host may submit evidence,  *)
(* restart the loop or revise the intent at any time; drivers that ran out  *)
(* of things to do, or of time, settle the run; the process may crash       *)
(* between any two file writes.                                             *)
(*                                                                          *)
(* A section under the run lock is a first step, which changes the loop in  *)
(* memory, followed by the queue `ops` of the file writes and store calls   *)
(* it still has to make.  The lock is free when `ops' is empty; settling    *)
(* and expiry do not take it and interleave with the queue.                 *)
(***************************************************************************)
EXTENDS Integers, Sequences, FiniteSets, RunRecord

CONSTANTS
  Workers,      \* threads of execute_registered_action
  Drivers,      \* threads of run_until_blocked that may settle the run
  Seeds,        \* evidence a comparison may hand to the first loop
  Slow,         \* bound: the actions the watchdog may give up on
  Faulty,       \* bound: the actions that may raise, or be sent malformed values
  MaxStrikes,   \* MAX_CONSECUTIVE_TIMEOUTS
  MaxCrashes,   \* bound: process crashes explored
  WebReads,     \* TRUE: the deployment re-collects stale evidence on reads
  MaxEdits      \* bound: edits of the plan explored

Domains == {"railway", "web", "map"}
Actions == Domains \union {"planner"}

ASSUME IntentsAssumption == \A i \in Intents : {"dest", "rail"} \subseteq DOMAIN i
ASSUME SlowAssumption == Slow \subseteq Actions /\ Faulty \subseteq Actions
ASSUME MaxStrikesAssumption == MaxStrikes \in Nat \ {0}
ASSUME MaxCrashesAssumption == MaxCrashes \in Nat /\ MaxEdits \in Nat
ASSUME WebReadsAssumption == WebReads \in BOOLEAN

-----------------------------------------------------------------------------
\* Evidence of a domain: nothing, a MISSING item, or a usable one (SOURCED,
\* ESTIMATED, or a STALE copy of an earlier success), with the intents it
\* was collected for.
Absent    == [kind |-> "absent", from |-> {}]
Missing   == [kind |-> "missing", from |-> {}]
Usable(F) == [kind |-> "usable", from |-> F]
Items     == {Absent, Missing} \union
             [kind : {"usable"}, from : (SUBSET Intents) \ {{}}]
IsUsable(item) == item.kind = "usable"

EvidenceMaps == [Domains -> Items]
NoEvidence   == [d \in Domains |-> Absent]
ActionStates == {"waiting", "running", "completed", "failed", "blocked"}

ASSUME SeedsAssumption == NoEvidence \in Seeds /\ Seeds \subseteq EvidenceMaps

\* _LoopState.  lastSourced[d] is {} when the domain has no success yet.  Its
\* copy of the planner's result is left out: only content-dependent offers read
\* it, and those are nondeterministic here.
LoopStates == [evidence    : EvidenceMaps,
               lastSourced : [Domains -> SUBSET Intents],
               status      : [Actions -> ActionStates],
               fallback    : Results]

\* A thread executing an action: the intent, the domain's last success and
\* the completeness of the evidence are copied at dispatch.
IdleFlight == [pc |-> "idle"]
Flights == {IdleFlight} \union
           [pc     : {"claimed", "flying", "landed", "refused", "released"},
            action : Actions, intent : Intents, last : SUBSET Intents,
            ready  : {"gaps", "missing", "usable"},
            watch  : {"on", "expired", "done"}]

\* A thread of run_until_blocked, and the result it would block the run with.
IdleDriver == [settling |-> FALSE, keeps |-> NoResult]

\* A thread of revise_run: the result and the intent it read are what it edits.
EditorStates == {[pc |-> "idle"]} \union
  [pc : {"read", "prepared", "started", "installed", "failing"},
   result : Results, intent : Intents]

SaveStatus   == [do |-> "saveStatus"]      \* action-loop.json
SaveEvidence == [do |-> "saveEvidence"]    \* evidence/current.json
Block        == [do |-> "block"]           \* _block_run
Ops == {SaveStatus, SaveEvidence, Block}
         \union [do : {"start"}, evidence : EvidenceMaps]
         \union [do : {"record", "install", "complete"}, result : Results]

NoFile == [kind |-> "none"]
StatusFiles   == {NoFile} \union
                 [status : [Actions -> ActionStates], fallback : Results]
EvidenceFiles == {NoFile} \union
                 [evidence : EvidenceMaps, lastSourced : [Domains -> SUBSET Intents]]

VARIABLES
  run,        \* the run record, memory and run.json
  loop,       \* _STATES[run_id]
  known,      \* is there a loop in memory or loadable from disk
  flight,     \* worker threads
  inFlight,   \* _IN_FLIGHT[run_id]
  strikes,    \* _TIMEOUT_STRIKES
  driver,     \* drivers that have decided to settle, and the result they keep
  reader,     \* a read in the middle of re-collecting a stale domain
  editor,     \* a call of revise_run that edits the plan the run shows
  ops,        \* what the holder of the run lock still has to do
  fileStatus, fileEvidence,   \* action-loop.json, evidence/current.json
  installed,  \* plan-version.json
  crashes, edits   \* how many there have been

memory == <<loop, known, flight, inFlight, strikes, driver, reader, editor, ops>>
disk   == <<fileStatus, fileEvidence, installed>>
bounds == <<crashes, edits>>
vars   == <<run, memory, disk, bounds>>

LockFree == ops = <<>>
Live     == known = "live"
Saves    == <<SaveStatus, SaveEvidence>>

\* Mutant: start_action_loop keeps the reused items but not as last successes.
NewLoopForgetful(e, r) ==
  [evidence    |-> e,
   lastSourced |-> [d \in Domains |-> {}],
   status      |-> [a \in Actions |->
                      IF a \in Domains /\ IsUsable(e[a])
                      THEN "completed" ELSE "waiting"],
   fallback    |-> r]

\* _LoopState as start_action_loop builds it from evidence e and result r.
NewLoop(e, r) ==
  [evidence    |-> e,
   lastSourced |-> [d \in Domains |-> e[d].from],
   status      |-> [a \in Actions |->
                      IF a \in Domains /\ IsUsable(e[a])
                      THEN "completed" ELSE "waiting"],
   fallback    |-> r]

Init ==
  /\ run \in [status : {"CONFIRMED"}, intent : Intents,
              result : {NoResult} \union
                       {c \in {Comparison} : Seeds # {NoEvidence}}]
  /\ loop = NewLoop(NoEvidence, NoResult) /\ known = "none"
  /\ flight = [w \in Workers |-> IdleFlight] /\ inFlight = {}
  /\ strikes = [a \in Actions |-> 0]
  /\ driver = [d \in Drivers |-> IdleDriver]
  /\ reader = [pc |-> "idle"] /\ editor = [pc |-> "idle"]
  /\ ops = <<>>
  /\ fileStatus = NoFile /\ fileEvidence = NoFile /\ installed = NoResult
  /\ crashes = 0 /\ edits = 0

-----------------------------------------------------------------------------
(* Starting and restarting the loop.                                       *)

Opening(e) == <<[do |-> "start", evidence |-> e]>> \o Saves

\* start_action_loop on a confirmed run; the evidence of a comparison is
\* handed over by the selection that follows it and never again.
HostStart(e) ==
  /\ LockFree /\ CanStart(run)
  /\ e # NoEvidence => run.result = Comparison /\ known = "none"
  /\ ops' = Opening(e)
  /\ UNCHANGED <<run, loop, known, flight, inFlight, strikes, driver, reader, editor,
                 disk, bounds>>

\* What a revision to intent i keeps of the evidence.
Reusable(i) ==
  [d \in Domains |->
     IF \/ i.dest # run.intent.dest
        \/ d = "railway" /\ i.rail # run.intent.rail
     THEN Absent ELSE loop.evidence[d]]

\* restart_action_loop_for_intent: prepare_revision, then start_action_loop,
\* all in one section under the run lock.
HostRestart(i) ==
  /\ LockFree /\ Live /\ CanRevise(run)
  /\ run' = Revised(run, i)
  /\ ops' = Opening(Reusable(i))
  /\ UNCHANGED <<loop, known, flight, inFlight, strikes, driver, reader, editor,
                 disk, bounds>>

\* resume_missing_action_loop: RUNNING, but no loop was ever written.
ResumeMissing ==
  /\ LockFree /\ run.status = "RUNNING" /\ known = "none"
  /\ loop' = NewLoop(NoEvidence, run.result) /\ known' = "live"
  /\ ops' = Saves
  /\ UNCHANGED <<run, flight, inFlight, strikes, driver, reader, editor, disk, bounds>>

-----------------------------------------------------------------------------
(* The rest of a section under the run lock, one write or call at a time.  *)

Next_op == Head(ops).do
Doing(name) == ops # <<>> /\ Next_op = name /\ ops' = Tail(ops)

\* A web item that only says its collector was not configured is not attached.
Attached(e) ==
  {e} \union (IF e["web"] = Missing THEN {[e EXCEPT !["web"] = Absent]} ELSE {})

StartLoop ==
  /\ Doing("start") /\ CanStart(run)
  /\ run' = Started(run)
  /\ \E e \in Attached(Head(ops).evidence) : loop' = NewLoop(e, run.result)
  /\ known' = "live"
  /\ UNCHANGED <<flight, inFlight, strikes, driver, reader, editor, disk, bounds>>

\* An edit has started the run in between: store.start raises, and the section ends.
StartRefused ==
  /\ ops # <<>> /\ Next_op = "start" /\ ~CanStart(run)
  /\ ops' = <<>>
  /\ UNCHANGED <<run, loop, known, flight, inFlight, strikes, driver, reader, editor,
                 disk, bounds>>

WriteStatus ==
  /\ Doing("saveStatus")
  /\ fileStatus' = [status |-> loop.status, fallback |-> loop.fallback]
  /\ UNCHANGED <<run, loop, known, flight, inFlight, strikes, driver, reader, editor,
                 fileEvidence, installed, bounds>>

WriteEvidence ==
  /\ Doing("saveEvidence")
  /\ fileEvidence' = [evidence |-> loop.evidence, lastSourced |-> loop.lastSourced]
  /\ UNCHANGED <<run, loop, known, flight, inFlight, strikes, driver, reader, editor,
                 fileStatus, installed, bounds>>

RecordResult ==
  /\ Doing("record")
  /\ run' = Recorded(run, Head(ops).result)
  /\ UNCHANGED <<loop, known, flight, inFlight, strikes, driver, reader, editor, disk, bounds>>

InstallPlan ==
  /\ Doing("install")
  /\ installed' = Head(ops).result
  /\ UNCHANGED <<run, loop, known, flight, inFlight, strikes, driver, reader, editor,
                 fileStatus, fileEvidence, bounds>>

CompleteRun ==
  /\ Doing("complete")
  /\ run' = Completed(run, Head(ops).result)
  /\ UNCHANGED <<loop, known, flight, inFlight, strikes, driver, reader, editor, disk, bounds>>

\* Mutant: the fallback result is passed on even when there is none.
BlockRunBare ==
  /\ Doing("block")
  /\ run' = Blocked(run, loop.fallback)
  /\ UNCHANGED <<loop, known, flight, inFlight, strikes, driver, reader, editor, disk, bounds>>

\* _block_run keeps the result the loop started from, when there was one.
BlockRun ==
  /\ Doing("block")
  /\ run' = Blocked(run, IF loop.fallback = NoResult
                         THEN Unfinished ELSE loop.fallback)
  /\ UNCHANGED <<loop, known, flight, inFlight, strikes, driver, reader, editor, disk, bounds>>

-----------------------------------------------------------------------------
(* Which actions the loop offers (_get_next_actions_unlocked, RUNNING).    *)

MapOffered == /\ loop.status["map"] = "waiting"
              /\ \/ loop.evidence["web"] # Absent
                 \/ loop.evidence["map"] = Missing

PlannerReady == /\ loop.status["planner"] = "waiting"
                /\ \A d \in Domains : loop.evidence[d] # Absent
                /\ ~MapOffered

\* Waiting actions offered whatever the evidence says ...
Offered ==
  IF loop.status["planner"] = "completed" THEN {}
  ELSE {d \in {"railway", "web"} : loop.status[d] = "waiting"}
         \union {d \in {"map"} : MapOffered}
         \union {p \in {"planner"} : PlannerReady /\ loop.status["map"] # "completed"}

\* ... and those whose offer depends on its content: the follow-ups of a plan
\* that cannot be shown, and the planner while local transit may be missing.
MayBeOffered ==
  IF loop.status["planner"] = "completed" THEN Domains
  ELSE Offered \union {p \in {"planner"} : PlannerReady}

\* Actions of any kind the snapshot lists, re-queries included.
SomethingOffered ==
  \/ MayBeOffered # {}
  \/ loop.status["railway"] = "failed"
  \/ loop.status["map"] = "completed"

-----------------------------------------------------------------------------
(* A worker executes one action (execute_registered_action).               *)

Busy(w) == flight[w].pc \in {"claimed", "flying", "landed", "refused"}
MoveTo(w, pc) == flight' = [flight EXCEPT ![w].pc = pc]
Waiting(w, pc) == LockFree /\ flight[w].pc = pc

\* Mutant: the claim does not look whether the action is in flight.
ClaimAgain(w, a) ==
  /\ run.status = "RUNNING" /\ Live
  /\ flight[w].pc = "idle"
  /\ inFlight' = inFlight \union {a}
  /\ flight' = [flight EXCEPT ![w] =
                  [pc |-> "claimed", action |-> a, intent |-> run.intent,
                   last |-> {}, ready |-> "gaps", watch |-> "on"]]
  /\ UNCHANGED <<run, loop, known, strikes, driver, reader, editor, ops, disk, bounds>>

\* _claim_in_flight; an action already in flight is refused on the spot.  Every
\* caller has seen the run RUNNING, or restarted it, just before; it may have
\* left RUNNING again when the worker gets the lock.
Claim(w, a) ==
  /\ run.status = "RUNNING" /\ Live
  /\ flight[w].pc = "idle" /\ a \notin inFlight
  /\ inFlight' = inFlight \union {a}
  /\ flight' = [flight EXCEPT ![w] =
                  [pc |-> "claimed", action |-> a, intent |-> run.intent,
                   last |-> {}, ready |-> "gaps", watch |-> "on"]]
  /\ UNCHANGED <<run, loop, known, strikes, driver, reader, editor, ops, disk, bounds>>

\* A completed run is resumed before anything else is looked at.
WouldResume(a) == CanResume(run) /\ a \in {"railway", "map", "planner"}
Executing(a)   == Live /\ (run.status = "RUNNING" \/ WouldResume(a))
IsRefresh(a)   == loop.status[a] \in {"completed", "failed"}
RunAfterResume(a) == IF WouldResume(a) THEN Resumed(run) ELSE run

Readiness == IF \E d \in Domains : loop.evidence[d] = Absent THEN "gaps"
             ELSE IF \A d \in Domains : IsUsable(loop.evidence[d])
             THEN "usable" ELSE "missing"

Dispatch(w) ==
  LET a == flight[w].action IN
  /\ Waiting(w, "claimed") /\ Executing(a)
  /\ IsRefresh(a) \/ (loop.status[a] = "waiting" /\ a \in MayBeOffered)
  /\ run' = RunAfterResume(a)
  /\ loop' = [loop EXCEPT !.status[a] = "running"]
  /\ flight' = [flight EXCEPT ![w].pc = "flying", ![w].intent = run.intent,
                  ![w].last = IF a \in Domains THEN loop.lastSourced[a] ELSE {},
                  ![w].ready = IF a = "planner" THEN Readiness ELSE "gaps"]
  /\ ops' = Saves
  /\ UNCHANGED <<known, inFlight, strikes, driver, reader, editor, disk, bounds>>

\* The guards raise; a run that was resumed for it stays resumed.
Refuse(w) ==
  LET a == flight[w].action IN
  /\ Waiting(w, "claimed")
  /\ ~ (Executing(a) /\ (IsRefresh(a) \/ (loop.status[a] = "waiting" /\ a \in Offered)))
  /\ run' = RunAfterResume(a)
  /\ MoveTo(w, "landed")
  /\ UNCHANGED <<loop, known, inFlight, strikes, driver, reader, editor, ops, disk, bounds>>

-----------------------------------------------------------------------------
(* Accepting evidence (_submit_evidence_unlocked).                         *)

\* Mutant: a blocked run takes nothing, not even its own late results.
AcceptsOnlyRunning(a) == Live /\ run.status = "RUNNING" /\ loop.status[a] # "blocked"

\* The run's status and then the action's; an action in flight passes both
\* gates after the watchdog has blocked them.
Accepts(a) ==
  /\ Live
  /\ run.status = "RUNNING" \/ (run.status = "BLOCKED" /\ a \in inFlight)
  /\ loop.status[a] # "blocked" \/ a \in inFlight

\* Mutant: a failed refresh replaces the last success.
KeptOnlyFresh(a, item) ==
  IF IsUsable(item)
  THEN Usable(item.from \union (IF a = "railway" THEN {} ELSE loop.lastSourced[a]))
  ELSE Missing

\* The item the loop keeps: a success is merged with the earlier ones (railway
\* replaces them), a failure falls back to the last success.
Kept(a, item) ==
  LET last == loop.lastSourced[a] IN
  IF IsUsable(item)
  THEN Usable(item.from \union (IF a = "railway" THEN {} ELSE last))
  ELSE IF last # {} THEN Usable(last) ELSE Missing

\* Mutant: the evidence's status is stored as the action's.
SubmittedEvidenceStatus(a, item) ==
  LET kept == Kept(a, item) IN
  [loop EXCEPT !.evidence[a] = kept,
               !.lastSourced[a] = IF IsUsable(item) THEN kept.from ELSE @,
               !.status = [@ EXCEPT ![a] = IF IsUsable(kept)
                                           THEN "completed" ELSE "missing",
                                    !["planner"] = "waiting"]]

\* Mutant: a domain counts as completed once an item is there.
SubmittedAlwaysCompleted(a, item) ==
  LET kept == Kept(a, item) IN
  [loop EXCEPT !.evidence[a] = kept,
               !.lastSourced[a] = IF IsUsable(item) THEN kept.from ELSE @,
               !.status = [@ EXCEPT ![a] = "completed", !["planner"] = "waiting"]]

Submitted(a, item) ==
  LET kept == Kept(a, item) IN
  [loop EXCEPT !.evidence[a] = kept,
               !.lastSourced[a] = IF IsUsable(item) THEN kept.from ELSE @,
               !.status = [@ EXCEPT ![a] = IF IsUsable(kept)
                                           THEN "completed" ELSE "failed",
                                    !["planner"] = "waiting"]]

\* Validation raises after a waiting web action was marked running; nothing
\* is written.
Malformed(a) ==
  IF a = "web" /\ loop.status[a] = "waiting"
  THEN [loop EXCEPT !.status[a] = "running"] ELSE loop

\* Mutant: only action-loop.json is written.
HostSubmitHalfSaved(a, item) ==
  /\ LockFree /\ Accepts(a)
  /\ loop' = Submitted(a, item) /\ ops' = <<SaveStatus>>
  /\ UNCHANGED <<run, known, flight, inFlight, strikes, driver, reader, editor, disk, bounds>>

HostSubmit(a, item) ==
  /\ LockFree /\ Accepts(a)
  /\ loop' = Submitted(a, item) /\ ops' = Saves
  /\ UNCHANGED <<run, known, flight, inFlight, strikes, driver, reader, editor, disk, bounds>>

HostSubmitMalformed(a) ==
  /\ LockFree /\ Accepts(a) /\ a \in Faulty
  /\ loop' = Malformed(a)
  /\ UNCHANGED <<run, known, flight, inFlight, strikes, driver, reader, editor, ops,
                 disk, bounds>>

-----------------------------------------------------------------------------
(* The worker's handler has returned or raised; it takes the lock again.   *)

\* What a collector's outcome is turned into before it is submitted: a live
\* success, the snapshot's last success or the broker's cached one marked
\* stale, or, when there is neither, the failure itself.
Outcomes(w) ==
  {Usable({flight[w].intent})}
    \union (IF flight[w].last # {} THEN {Usable(flight[w].last)} ELSE {Missing})

Deliver(w, item) ==
  LET a == flight[w].action IN
  /\ Waiting(w, "flying") /\ a \in Domains /\ Accepts(a)
  /\ item \in Outcomes(w)
  /\ loop' = Submitted(a, item) /\ ops' = Saves
  /\ MoveTo(w, "landed")
  /\ UNCHANGED <<run, known, inFlight, strikes, driver, reader, editor, disk, bounds>>

DeliverMalformed(w) ==
  LET a == flight[w].action IN
  /\ Waiting(w, "flying") /\ a \in Domains \intersect Faulty /\ Accepts(a)
  /\ loop' = Malformed(a)
  /\ MoveTo(w, "landed")
  /\ UNCHANGED <<run, known, inFlight, strikes, driver, reader, editor, ops, disk, bounds>>

\* "run is not accepting evidence": the result is dropped.
DeliverRefused(w) ==
  LET a == flight[w].action IN
  /\ Waiting(w, "flying") /\ a \in Domains /\ ~Accepts(a)
  /\ MoveTo(w, "refused")
  /\ UNCHANGED <<run, loop, known, inFlight, strikes, driver, reader, editor, ops, disk, bounds>>

\* A programming error is re-raised and leaves the run alone; any other
\* exception blocks it.  A planner that was dispatched without all three
\* domains raises.
Raise(w, blocks) ==
  /\ Waiting(w, "flying")
  /\ \/ flight[w].action \in Faulty
     \/ flight[w].action = "planner" /\ flight[w].ready = "gaps" /\ blocks
  /\ loop' = [loop EXCEPT !.status[flight[w].action] = "blocked"]
  /\ ops' = IF blocks THEN Append(Saves, Block) ELSE Saves
  /\ MoveTo(w, "landed")
  /\ UNCHANGED <<run, known, inFlight, strikes, driver, reader, editor, disk, bounds>>

\* The planner returns.  A plan needs usable evidence in every domain when it
\* is computed, and again, by the verdict on the live evidence, to be shown.
PlanResults(w) == {Unfinished} \union
  {r \in {PlanFor(flight[w].intent)} : flight[w].ready = "usable"}
Showable(result) == {FALSE} \union
  {s \in {TRUE} : /\ result.kind = "plan"
                  /\ \A d \in Domains : IsUsable(loop.evidence[d])}

\* Mutant: the run is completed before its plan version is installed.
LandPlanCompletesFirst(w, result, shown) ==
  /\ Waiting(w, "flying") /\ flight[w].action = "planner" /\ flight[w].ready # "gaps"
  /\ result \in PlanResults(w) /\ shown \in Showable(result)
  /\ loop' = [loop EXCEPT !.status["planner"] = "completed"]
  /\ strikes' = [strikes EXCEPT !["planner"] = 0]
  /\ ops' = <<[do |-> "record", result |-> result]>> \o Saves \o
            (IF shown THEN << [do |-> "complete", result |-> result],
                              [do |-> "install", result |-> result] >>
             ELSE <<>>)
  /\ MoveTo(w, "landed")
  /\ UNCHANGED <<run, known, inFlight, driver, reader, editor, disk, bounds>>

LandPlan(w, result, shown) ==
  /\ Waiting(w, "flying") /\ flight[w].action = "planner" /\ flight[w].ready # "gaps"
  /\ result \in PlanResults(w) /\ shown \in Showable(result)
  /\ loop' = [loop EXCEPT !.status["planner"] = "completed"]
  /\ strikes' = [strikes EXCEPT !["planner"] = 0]
  /\ ops' = <<[do |-> "record", result |-> result]>> \o Saves \o
            (IF shown THEN << [do |-> "install", result |-> result],
                              [do |-> "complete", result |-> result] >>
             ELSE <<>>)
  /\ MoveTo(w, "landed")
  /\ UNCHANGED <<run, known, inFlight, driver, reader, editor, disk, bounds>>

Retire(w) == IF flight[w].watch = "expired"
             THEN [flight[w] EXCEPT !.pc = "released"] ELSE IdleFlight

\* finally: _release_in_flight.
Release(w) ==
  /\ LockFree /\ flight[w].pc \in {"landed", "refused"}
  /\ inFlight' = inFlight \ {flight[w].action}
  /\ flight' = [flight EXCEPT ![w] = Retire(w)]
  /\ UNCHANGED <<run, loop, known, strikes, driver, reader, editor, ops, disk, bounds>>

-----------------------------------------------------------------------------
(* The watchdog: wait() times out, and then _timeout_actions takes the     *)
(* lock, whatever the worker has done in between.                          *)

Expire(w) ==
  /\ flight[w].pc \in {"flying", "landed", "refused"} /\ flight[w].watch = "on"
  /\ flight[w].action \in Slow
  /\ flight' = [flight EXCEPT ![w].watch = "expired"]
  /\ UNCHANGED <<run, loop, known, inFlight, strikes, driver, reader, editor, ops, disk, bounds>>

Bounded(n) == IF n < MaxStrikes THEN n ELSE MaxStrikes

TimeoutAction(w) ==
  LET a == flight[w].action
      n == Bounded(strikes[a] + 1)
  IN
  /\ LockFree /\ flight[w].pc # "idle" /\ flight[w].watch = "expired"
  /\ strikes' = [strikes EXCEPT ![a] = n]
  /\ loop' = [loop EXCEPT !.status[a] = IF n = MaxStrikes THEN "failed" ELSE "blocked"]
  /\ flight' = [flight EXCEPT ![w] = IF @.pc = "released" THEN IdleFlight
                                     ELSE [@ EXCEPT !.watch = "done"]]
  /\ ops' = Append(Saves, Block)
  /\ UNCHANGED <<run, known, inFlight, driver, reader, editor, disk, bounds>>

-----------------------------------------------------------------------------
(* Drivers: run_until_blocked returns NEED_USER_INPUT, for want of time (at  *)
(* any moment), of an action it may execute itself, or because an action     *)
(* raised; settle_action_loop then reads the run and blocks it, neither of   *)
(* them under the run lock.                                                  *)

\* The result to keep is the planner's, which record_result has put there, or
\* what else the run holds, read some time before the run is blocked.
Decide(d) ==
  /\ Live /\ ~driver[d].settling /\ run.status = "RUNNING"
  /\ driver' = [driver EXCEPT ![d] =
                  [settling |-> TRUE,
                   keeps |-> IF run.result = NoResult THEN Unfinished ELSE run.result]]
  /\ UNCHANGED <<run, loop, known, flight, inFlight, strikes, reader, editor, ops, disk, bounds>>

Settle(d) ==
  /\ driver[d].settling
  /\ run' = Blocked(run, driver[d].keeps)
  /\ driver' = [driver EXCEPT ![d] = IdleDriver]
  /\ UNCHANGED <<loop, known, flight, inFlight, strikes, reader, editor, ops, disk, bounds>>

-----------------------------------------------------------------------------
(* Reads of the Web deployment re-collect a stale domain and write it back *)
(* (resolve_stale_evidence, record_refetched_evidence): no run status is    *)
(* looked at, lastSourced and the planner are left alone.                   *)

BeginRead(d) ==
  /\ WebReads /\ LockFree /\ Live /\ reader.pc = "idle" /\ IsUsable(loop.evidence[d])
  /\ reader' = [pc |-> "reading", domain |-> d, intent |-> run.intent,
                item |-> loop.evidence[d]]
  /\ UNCHANGED <<run, loop, known, flight, inFlight, strikes, driver, editor, ops, disk, bounds>>

\* The collector returns a success or a MISSING item, or it raises and the
\* item that was read goes back with a refresh failure noted on it.
FinishRead ==
  /\ LockFree /\ reader.pc = "reading"
  /\ IF loop.evidence[reader.domain] = Absent
     THEN UNCHANGED <<loop, ops>>
     ELSE /\ \E item \in {Usable({reader.intent}), Missing, reader.item} :
               loop' = [loop EXCEPT !.evidence[reader.domain] = item]
          /\ ops' = Saves
  /\ reader' = [pc |-> "idle"]
  /\ UNCHANGED <<run, known, flight, inFlight, strikes, driver, editor, disk, bounds>>

-----------------------------------------------------------------------------
(* Edits of the plan (revise_run): store calls one after another, without   *)
(* the run lock.                                                            *)

EditRead ==
  /\ edits < MaxEdits /\ edits' = edits + 1
  /\ editor.pc = "idle" /\ CanRevise(run)
  /\ editor' = [pc |-> "read", result |-> run.result, intent |-> run.intent]
  /\ UNCHANGED <<run, loop, known, flight, inFlight, strikes, driver, reader, ops,
                 disk, crashes>>

EditGoes(from, to) == editor.pc = from /\ editor' = [editor EXCEPT !.pc = to]
EditEnds(from)     == editor.pc = from /\ editor' = [pc |-> "idle"]
EditSteps          == UNCHANGED <<loop, known, flight, inFlight, strikes, driver,
                                  reader, ops, fileStatus, fileEvidence, bounds>>

EditPrepare ==
  /\ EditGoes("read", "prepared") /\ CanRevise(run)
  /\ run' = Revised(run, editor.intent)
  /\ UNCHANGED installed /\ EditSteps

EditStart ==
  /\ EditGoes("prepared", "started") /\ CanStart(run)
  /\ run' = Started(run)
  /\ UNCHANGED installed /\ EditSteps

\* prepare_revision or start raises: nothing handles it.
EditRaises ==
  /\ \/ EditEnds("read") /\ ~CanRevise(run)
     \/ EditEnds("prepared") /\ ~CanStart(run)
  /\ UNCHANGED <<run, installed>> /\ EditSteps

EditInstall ==
  /\ EditGoes("started", "installed") /\ editor.result.kind = "plan"
  /\ installed' = Edited(editor.result)
  /\ UNCHANGED run /\ EditSteps

EditComplete ==
  /\ EditEnds("installed") /\ CanComplete(run)
  /\ run' = Completed(run, Edited(editor.result))
  /\ UNCHANGED installed /\ EditSteps

\* The edit cannot be applied, its result is no plan version, or the run has
\* left RUNNING in between.
EditFails ==
  /\ \/ EditGoes("started", "failing")
     \/ EditGoes("installed", "failing") /\ ~CanComplete(run)
  /\ UNCHANGED <<run, installed>> /\ EditSteps

\* fail() looks at no status.
EditFail ==
  /\ EditEnds("failing")
  /\ run' = Failed(run)
  /\ UNCHANGED installed /\ EditSteps

-----------------------------------------------------------------------------
(* A crash drops everything in memory; the loop is read back               *)
(* (_load_loop_state) from the files as they were left.                     *)

Reread(status) == [a \in Actions |->
                     IF status[a] = "running" THEN "waiting" ELSE status[a]]

Loadable == IF fileStatus = NoFile THEN "none"
            ELSE IF fileEvidence = NoFile THEN "corrupt" ELSE "live"

Reloaded ==
  IF Loadable = "live"
  THEN [evidence    |-> fileEvidence.evidence,
        lastSourced |-> fileEvidence.lastSourced,
        status      |-> Reread(fileStatus.status),
        fallback    |-> fileStatus.fallback]
  ELSE NewLoop(NoEvidence, NoResult)

Crash ==
  /\ crashes < MaxCrashes /\ crashes' = crashes + 1
  /\ loop' = Reloaded /\ known' = Loadable
  /\ flight' = [w \in Workers |-> IdleFlight] /\ inFlight' = {}
  /\ strikes' = [a \in Actions |-> 0]
  /\ driver' = [d \in Drivers |-> IdleDriver]
  /\ reader' = [pc |-> "idle"] /\ editor' = [pc |-> "idle"]
  /\ ops' = <<>>
  /\ UNCHANGED <<run, disk, edits>>

-----------------------------------------------------------------------------
Section == \/ StartLoop \/ WriteStatus \/ WriteEvidence \/ RecordResult
           \/ InstallPlan \/ CompleteRun \/ BlockRun

Host == \/ \E e \in Seeds : HostStart(e)
        \/ \E i \in Intents : HostRestart(i)
        \/ ResumeMissing
        \/ \E a \in Domains : \/ \E item \in {Missing, Usable({run.intent})} :
                                   HostSubmit(a, item)
                              \/ HostSubmitMalformed(a)

Worker(w) == \/ \E a \in Actions : Claim(w, a)
             \/ Dispatch(w) \/ Refuse(w)
             \/ \E item \in Items : Deliver(w, item)
             \/ DeliverMalformed(w) \/ DeliverRefused(w)
             \/ \E blocks \in BOOLEAN : Raise(w, blocks)
             \/ \E result \in Results, shown \in BOOLEAN :
                  LandPlan(w, result, shown)
             \/ Release(w) \/ Expire(w) \/ TimeoutAction(w)

Driver(d) == Settle(d) \/ Decide(d)

Reader == FinishRead \/ \E d \in Domains : BeginRead(d)

Editor == \/ EditRead \/ EditPrepare \/ EditStart \/ EditRaises
          \/ EditInstall \/ EditComplete \/ EditFails \/ EditFail

Next == \/ Section \/ StartRefused \/ Host \/ Reader \/ Editor \/ Crash
        \/ \E w \in Workers : Worker(w)
        \/ \E d \in Drivers : Driver(d)

Spec == Init /\ [][Next]_vars

-----------------------------------------------------------------------------
(* Properties.                                                             *)

\* Every variable stays in the type the code gives it.
TypeOK ==
  /\ run \in Runs /\ loop \in LoopStates
  /\ known \in {"none", "live", "corrupt"}
  /\ flight \in [Workers -> Flights] /\ inFlight \subseteq Actions
  /\ strikes \in [Actions -> 0 .. MaxStrikes]
  /\ driver \in [Drivers -> [settling : BOOLEAN, keeps : Results]]
  /\ reader \in {[pc |-> "idle"]} \union
       [pc : {"reading"}, domain : Domains, intent : Intents, item : Items]
  /\ editor \in EditorStates
  /\ ops \in Seq(Ops)
  /\ fileStatus \in StatusFiles /\ fileEvidence \in EvidenceFiles
  /\ installed \in Results
  /\ crashes \in 0 .. MaxCrashes /\ edits \in 0 .. MaxEdits

\* An action is never executed by two threads at once, and the registry of
\* actions in flight names exactly the ones some thread has claimed and not yet
\* released: neither the watchdog nor a restart of the loop frees a claim.
SingleFlight ==
  /\ inFlight = {flight[w].action : w \in {v \in Workers : Busy(v)}}
  /\ \A v, w \in Workers : Busy(v) /\ Busy(w) /\ flight[v].action = flight[w].action
                           => v = w

\* A COMPLETED run serves the plan version that was installed last, whatever
\* late planners, settlements, restarts and edits came before.
CompletedServesInstalledPlan ==
  run.status = "COMPLETED" => run.result = installed /\ installed.kind = "plan"

\* The late result of an action of the run itself is taken in although the
\* watchdog, a settlement or another domain's failure has blocked the run.
LateResultAccepted ==
  [][\A w \in Workers : /\ flight[w].pc = "flying"
                         /\ flight'[w].pc = "refused"
                         => run.status \notin {"RUNNING", "BLOCKED"}]_vars

\* Evidence that was once usable stays usable: a failed refresh, a timeout, a late
\* failure or an edit never takes it away, only a new loop that was not given it.
UsableEvidenceSurvives ==
  [][\A d \in Domains :
       IsUsable(loop.evidence[d]) =>
         \/ IsUsable(loop'.evidence[d])
         \/ ops # <<>> /\ Head(ops).do = "start" /\ Head(ops).evidence[d] = Absent]_vars

\* A domain reported completed has usable evidence for the planner.
CompletedHasEvidence ==
  Live => \A d \in Domains :
            loop.status[d] = "completed" => IsUsable(loop.evidence[d])

\* The last success a failed refresh falls back to exists exactly where the
\* loop shows usable evidence.
FallbackTracksEvidence ==
  \A d \in Domains : IsUsable(loop.evidence[d]) <=> loop.lastSourced[d] # {}

\* Every run that has ended can be restarted: it keeps a result and a loop that
\* can be read back, which is what the recovery it advertises needs.
EndedCanRestart == run.status \in {"COMPLETED", "BLOCKED", "FAILED"}
                   => CanRevise(run) /\ Live

\* Between two sections the files hold what memory holds, so that a crash loses
\* nothing but the work in flight.
QuiescentLoopIsDurable ==
  LockFree /\ Live =>
    /\ fileEvidence = [evidence |-> loop.evidence, lastSourced |-> loop.lastSourced]
    /\ fileStatus # NoFile
    /\ Reread(fileStatus.status) = Reread(loop.status)
    /\ fileStatus.fallback = loop.fallback

-----------------------------------------------------------------------------
(* What comments and documents of the code say and its steps do not keep.  *)

\* A revision reuses "still-applicable evidence": none in the loop was collected
\* for a destination the run has been revised away from.
EvidenceFitsDestination ==
  LockFree /\ Live =>
    \A d \in Domains : \A i \in loop.evidence[d].from : i.dest = run.intent.dest

\* A loop that cannot make progress says so on the run: a RUNNING run with
\* nothing in flight and nobody about to settle it offers some action.
NoSilentStall ==
  /\ LockFree /\ Live /\ run.status = "RUNNING" /\ inFlight = {}
  /\ \A d \in Drivers : ~driver[d].settling
  => SomethingOffered

\* Running out of budget while an action is in flight does not touch the run.
BudgetLeavesRunAlone ==
  [][\A d \in Drivers : driver[d].settling /\ ~driver'[d].settling /\ inFlight # {}
                       => run' = run]_vars

=============================================================================
