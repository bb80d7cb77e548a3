------------------------ MODULE ActionLoop_proofs ---------------------------
(***************************************************************************)
(* For every set of threads, intents and bounds: type correctness of       *)
(* ActionLoop, that no action is executed by two threads at once, and what *)
(* an action loop keeps: its evidence and the last successes behind it,    *)
(* its files, the plan a completed run shows, and the way back from an     *)
(* ended run.  Where a theorem holds only without crashes, edits or        *)
(* collecting reads, it assumes so.                                        *)
(***************************************************************************)
EXTENDS ActionLoop, SequenceTheorems, TLAPS

-----------------------------------------------------------------------------
(* Types of the operators the actions are built from.                      *)

\* The loop start_action_loop builds from reusable evidence is well formed.
LEMMA NewLoopType ==
  ASSUME NEW e \in EvidenceMaps, NEW r \in Results
  PROVE  NewLoop(e, r) \in LoopStates
<1>1. \A d \in Domains : e[d].from \in SUBSET Intents
  BY DEF EvidenceMaps, Items, Absent, Missing
<1>2. QED
  BY <1>1 DEF NewLoop, LoopStates, ActionStates, Actions, EvidenceMaps

\* No evidence at all is an evidence map.
LEMMA NoEvidenceType == NoEvidence \in EvidenceMaps
  BY DEF NoEvidence, EvidenceMaps, Items

\* The sections that only save the loop, or save it and block the run.
LEMMA SavesType == Saves \in Seq(Ops) /\ Append(Saves, Block) \in Seq(Ops)
  BY DEF Saves, Ops, SaveStatus, SaveEvidence, Block

\* The section that starts a loop.
LEMMA OpeningType ==
  ASSUME NEW e \in EvidenceMaps PROVE Opening(e) \in Seq(Ops)
  BY SavesType DEF Opening, Ops

\* What is left of a section is a section.
LEMMA DoingType ==
  ASSUME ops \in Seq(Ops), NEW name, Doing(name)
  PROVE  ops' \in Seq(Ops) /\ Head(ops) \in Ops /\ Head(ops).do = name
  BY DEF Doing, Next_op

\* Evidence collected for one intent, or for several, is well formed.
LEMMA FreshItemType ==
  /\ \A i \in Intents : Usable({i}) \in Items
  /\ \A F \in SUBSET Intents : F # {} => Usable(F) \in Items
<1>1. \A F \in SUBSET Intents : F # {} => Usable(F) \in Items
  BY DEF Usable, Items
<1>2. \A i \in Intents : {i} \in SUBSET Intents /\ {i} # {}
  OBVIOUS
<1>3. QED
  BY <1>1, <1>2

\* A kept item is well formed.
LEMMA KeptType ==
  ASSUME loop \in LoopStates, NEW a \in Domains, NEW item \in Items
  PROVE  Kept(a, item) \in Items
<1>1. loop.lastSourced[a] \in SUBSET Intents
  BY DEF LoopStates
<1>2. CASE IsUsable(item)
  <2>1. item.from \in (SUBSET Intents) \ {{}}
    BY <1>2 DEF Items, IsUsable, Absent, Missing
  <2>2. QED
    BY <1>1, <1>2, <2>1 DEF Kept, Usable, Items
<1>3. CASE ~IsUsable(item)
  BY <1>1, <1>3 DEF Kept, Usable, Items
<1>4. QED
  BY <1>2, <1>3

\* Accepting an item leaves the loop well formed.
LEMMA SubmittedType ==
  ASSUME loop \in LoopStates, NEW a \in Domains, NEW item \in Items
  PROVE  Submitted(a, item) \in LoopStates
<1>1. Kept(a, item) \in Items
  BY KeptType
<1>2. Kept(a, item).from \in SUBSET Intents
  BY <1>1 DEF Items, Absent, Missing
<1> DEFINE kept == Kept(a, item)
           status == [loop.status EXCEPT ![a] = IF IsUsable(kept)
                                                THEN "completed" ELSE "failed",
                                         !["planner"] = "waiting"]
           last == [loop.lastSourced EXCEPT ![a] = IF IsUsable(item)
                                                   THEN kept.from ELSE @]
<1>3. status \in [Actions -> ActionStates]
  BY DEF LoopStates, ActionStates, Actions
<1>4. last \in [Domains -> SUBSET Intents]
  BY <1>2 DEF LoopStates
<1>5. [loop.evidence EXCEPT ![a] = kept] \in EvidenceMaps
  BY <1>1 DEF LoopStates, EvidenceMaps
<1>6. Submitted(a, item) = [loop EXCEPT !.evidence = [loop.evidence EXCEPT ![a] = kept],
                                        !.lastSourced = last, !.status = status]
  BY DEF Submitted, LoopStates
<1> HIDE DEF kept, status, last
<1>7. QED
  BY <1>3, <1>4, <1>5, <1>6 DEF LoopStates

\* Moving an action to another state leaves the loop well formed.
LEMMA StatusType ==
  ASSUME loop \in LoopStates, NEW a \in Actions, NEW s \in ActionStates
  PROVE  [loop EXCEPT !.status[a] = s] \in LoopStates
  BY DEF LoopStates

\* A flight that is not idle is a record whose fields have these types.
LEMMA FlightType ==
  ASSUME flight \in [Workers -> Flights], NEW w \in Workers, flight[w].pc # "idle"
  PROVE  /\ flight[w] \in [pc     : {"claimed", "flying", "landed", "refused", "released"},
                           action : Actions, intent : Intents, last : SUBSET Intents,
                           ready  : {"gaps", "missing", "usable"},
                           watch  : {"on", "expired", "done"}]
         /\ \A pc \in {"claimed", "flying", "landed", "refused", "released"} :
              [flight EXCEPT ![w].pc = pc] \in [Workers -> Flights]
  BY DEF Flights, IdleFlight

\* Replacing a thread's flight by another one.
LEMMA FlightUpdate ==
  ASSUME flight \in [Workers -> Flights], NEW w \in Workers, NEW f \in Flights
  PROVE  [flight EXCEPT ![w] = f] \in [Workers -> Flights]
  OBVIOUS

\* The watchdog's mark on a flight in progress, its release and its dispatch.
LEMMA WatchType ==
  ASSUME flight \in [Workers -> Flights], NEW w \in Workers, flight[w].pc # "idle"
  PROVE  /\ \A x \in {"on", "expired", "done"} : [flight[w] EXCEPT !.watch = x] \in Flights
         /\ [flight[w] EXCEPT !.pc = "released"] \in Flights
         /\ \A i \in Intents, l \in SUBSET Intents, y \in {"gaps", "missing", "usable"} :
              [flight[w] EXCEPT !.pc = "flying", !.intent = i, !.last = l, !.ready = y]
                \in Flights
<1> DEFINE r == flight[w]
<1>1. r \in [pc : {"claimed", "flying", "landed", "refused", "released"},
             action : Actions, intent : Intents, last : SUBSET Intents,
             ready : {"gaps", "missing", "usable"},
             watch : {"on", "expired", "done"}]
  BY FlightType
<1> HIDE DEF r
<1>2. \A x : [r EXCEPT !.watch = x] =
             [pc |-> r.pc, action |-> r.action, intent |-> r.intent,
              last |-> r.last, ready |-> r.ready, watch |-> x]
  BY <1>1
<1>3. \A x \in {"on", "expired", "done"} : [r EXCEPT !.watch = x] \in Flights
  BY <1>1, <1>2 DEF Flights
<1>4. [r EXCEPT !.pc = "released"] =
        [pc |-> "released", action |-> r.action, intent |-> r.intent,
         last |-> r.last, ready |-> r.ready, watch |-> r.watch]
  BY <1>1
<1>5. [r EXCEPT !.pc = "released"] \in Flights
  BY <1>1, <1>4 DEF Flights
<1>6. ASSUME NEW i \in Intents, NEW l \in SUBSET Intents,
             NEW y \in {"gaps", "missing", "usable"}
      PROVE  [r EXCEPT !.pc = "flying", !.intent = i, !.last = l, !.ready = y] \in Flights
  <2> DEFINE f == [r EXCEPT !.pc = "flying", !.intent = i, !.last = l, !.ready = y]
  <2>1. /\ f = [n \in DOMAIN r |-> f[n]]
        /\ DOMAIN r = {"pc", "action", "intent", "last", "ready", "watch"}
    BY <1>1
  <2>2. /\ f.pc = "flying" /\ f.action = r.action /\ f.intent = i
        /\ f.last = l /\ f.ready = y /\ f.watch = r.watch
    BY <1>1
  <2> HIDE DEF f
  <2>3. f = [pc |-> f.pc, action |-> f.action, intent |-> f.intent,
             last |-> f.last, ready |-> f.ready, watch |-> f.watch]
    BY <2>1
  <2>4. f \in Flights
    BY <1>1, <2>2, <2>3 DEF Flights
  <2>5. QED
    BY <2>4 DEF f
<1>7. QED
  BY <1>3, <1>5, <1>6 DEF r

\* The placeholders are results.
LEMMA ResultTypes == NoResult \in Results /\ Unfinished \in Results /\ Comparison \in Results
  BY DEF Results

\* An edit turns a plan into a plan, and is not defined on anything else.
LEMMA EditedType == \A r \in Results : Edited(r) \in Results
<1> SUFFICES ASSUME NEW r \in Results PROVE Edited(r) \in Results
  OBVIOUS
<1> DEFINE Plans == [kind : {"plan"}, intent : Intents, edited : BOOLEAN]
<1>1. CASE r \in Plans
  <2>1. Edited(r) \in Plans
    BY <1>1 DEF Edited
  <2>2. QED
    BY <2>1 DEF Results
<1>2. CASE r \in {NoResult, Comparison, Unfinished}
  <2>1. Edited(r) = r
    BY <1>2 DEF Edited, NoResult, Comparison, Unfinished
  <2>2. QED
    BY <2>1
<1>3. QED
  BY <1>1, <1>2 DEF Results

-----------------------------------------------------------------------------
(* Type correctness, one lemma for each group of steps.                    *)

\* The rest of a section under the run lock keeps the types.
LEMMA SectionType == TypeOK /\ Section => TypeOK'
<1> SUFFICES ASSUME TypeOK, Section PROVE TypeOK'
  OBVIOUS
<1> USE DEF TypeOK, bounds
<1>1. run.result \in Results /\ loop.fallback \in Results
  BY DEF Runs, LoopStates
<1>2. CASE StartLoop
  <2>1. Head(ops) \in Ops /\ Head(ops).do = "start" /\ ops' \in Seq(Ops)
    BY <1>2, DoingType DEF StartLoop
  <2>2. Head(ops).evidence \in EvidenceMaps
    BY <2>1 DEF Ops, SaveStatus, SaveEvidence, Block
  <2>3. \A e \in Attached(Head(ops).evidence) : NewLoop(e, run.result) \in LoopStates
    <3>1. Attached(Head(ops).evidence) \subseteq EvidenceMaps
      BY <2>2 DEF Attached, EvidenceMaps, Items
    <3>2. QED
      BY <1>1, <3>1, NewLoopType
  <2>4. Started(run) \in Runs
    BY DEF Started, Runs, Statuses
  <2>5. QED
    BY <1>2, <2>1, <2>3, <2>4 DEF StartLoop, disk
<1>3. CASE WriteStatus
  <2>1. ops' \in Seq(Ops)
    BY <1>3, DoingType DEF WriteStatus
  <2>2. fileStatus' \in StatusFiles
    BY <1>3 DEF WriteStatus, StatusFiles, LoopStates
  <2>3. QED
    BY <1>3, <2>1, <2>2 DEF WriteStatus
<1>4. CASE WriteEvidence
  <2>1. ops' \in Seq(Ops)
    BY <1>4, DoingType DEF WriteEvidence
  <2>2. fileEvidence' \in EvidenceFiles
    BY <1>4 DEF WriteEvidence, EvidenceFiles, LoopStates
  <2>3. QED
    BY <1>4, <2>1, <2>2 DEF WriteEvidence
<1>5. CASE RecordResult
  <2>1. ops' \in Seq(Ops) /\ Head(ops) \in Ops /\ Head(ops).do = "record"
    BY <1>5, DoingType DEF RecordResult
  <2>2. Head(ops).result \in Results
    BY <2>1 DEF Ops, SaveStatus, SaveEvidence, Block
  <2>3. QED
    BY <1>5, <2>1, <2>2 DEF RecordResult, Recorded, Runs, disk
<1>6. CASE InstallPlan
  <2>1. ops' \in Seq(Ops) /\ Head(ops) \in Ops /\ Head(ops).do = "install"
    BY <1>6, DoingType DEF InstallPlan
  <2>2. Head(ops).result \in Results
    BY <2>1 DEF Ops, SaveStatus, SaveEvidence, Block
  <2>3. QED
    BY <1>6, <2>1, <2>2 DEF InstallPlan
<1>7. CASE CompleteRun
  <2>1. ops' \in Seq(Ops) /\ Head(ops) \in Ops /\ Head(ops).do = "complete"
    BY <1>7, DoingType DEF CompleteRun
  <2>2. Head(ops).result \in Results
    BY <2>1 DEF Ops, SaveStatus, SaveEvidence, Block
  <2>3. QED
    BY <1>7, <2>1, <2>2 DEF CompleteRun, Completed, Runs, Statuses, disk
<1>8. CASE BlockRun
  <2>1. ops' \in Seq(Ops)
    BY <1>8, DoingType DEF BlockRun
  <2>2. QED
    BY <1>1, <1>8, <2>1, ResultTypes DEF BlockRun, Blocked, Runs, Statuses, disk
<1>9. QED
  BY <1>2, <1>3, <1>4, <1>5, <1>6, <1>7, <1>8 DEF Section

\* Everything the host may ask for keeps the types.
LEMMA HostType == TypeOK /\ Host => TypeOK'
<1> SUFFICES ASSUME TypeOK, Host PROVE TypeOK'
  OBVIOUS
<1> USE DEF TypeOK, bounds
<1>1. ASSUME NEW e \in Seeds, HostStart(e) PROVE TypeOK'
  <2>1. Opening(e) \in Seq(Ops)
    BY OpeningType, SeedsAssumption
  <2>2. QED
    BY <1>1, <2>1 DEF HostStart, disk
<1>2. ASSUME NEW i \in Intents, HostRestart(i) PROVE TypeOK'
  <2>1. Reusable(i) \in EvidenceMaps
    BY DEF Reusable, EvidenceMaps, LoopStates, Items
  <2>2. Opening(Reusable(i)) \in Seq(Ops)
    BY <2>1, OpeningType
  <2>3. Revised(run, i) \in Runs
    BY DEF Revised, Runs, Statuses
  <2>4. QED
    BY <1>2, <2>2, <2>3 DEF HostRestart, disk
<1>3. ASSUME ResumeMissing PROVE TypeOK'
  <2>1. NewLoop(NoEvidence, run.result) \in LoopStates
    BY NewLoopType, NoEvidenceType DEF Runs
  <2>2. QED
    BY <1>3, <2>1, SavesType DEF ResumeMissing, disk
<1>4. ASSUME NEW a \in Domains, NEW item \in {Missing, Usable({run.intent})},
             HostSubmit(a, item)
      PROVE  TypeOK'
  <2>1. item \in Items
    <3>1. run.intent \in Intents
      BY DEF Runs
    <3>2. QED
      BY <3>1, FreshItemType DEF Items
  <2>2. Submitted(a, item) \in LoopStates
    BY <2>1, SubmittedType
  <2>3. QED
    BY <1>4, <2>2, SavesType DEF HostSubmit, disk
<1>5. ASSUME NEW a \in Domains, HostSubmitMalformed(a) PROVE TypeOK'
  <2>1. Malformed(a) \in LoopStates
    BY StatusType DEF Malformed, Actions, ActionStates
  <2>2. QED
    BY <1>5, <2>1 DEF HostSubmitMalformed, disk
<1>6. QED
  BY <1>1, <1>2, <1>3, <1>4, <1>5 DEF Host

\* The steps of a worker from the claim to the handler's return.
LEMMA ExecutionType ==
  ASSUME TypeOK, NEW w \in Workers,
         \/ \E a \in Actions : Claim(w, a)
         \/ Dispatch(w) \/ Refuse(w)
         \/ DeliverMalformed(w) \/ DeliverRefused(w)
         \/ \E blocks \in BOOLEAN : Raise(w, blocks)
         \/ Release(w) \/ Expire(w)
  PROVE  TypeOK'
<1> USE DEF TypeOK, bounds
<1>1. ASSUME NEW a \in Actions, Claim(w, a) PROVE TypeOK'
  <2>1. flight' \in [Workers -> Flights]
    BY <1>1 DEF Claim, Flights, Runs
  <2>2. QED
    BY <1>1, <2>1 DEF Claim, disk
<1>2. ASSUME Dispatch(w) PROVE TypeOK'
  <2>1. flight[w].pc = "claimed" /\ flight[w].action \in Actions
    BY <1>2, FlightType DEF Dispatch, Waiting
  <2>2. loop' \in LoopStates
    BY <1>2, <2>1, StatusType DEF Dispatch, ActionStates
  <2>3. run' \in Runs
    BY <1>2 DEF Dispatch, RunAfterResume, Resumed, Runs, Statuses
  <2>4. flight' \in [Workers -> Flights]
    <3>1. run.intent \in Intents /\ Readiness \in {"gaps", "missing", "usable"}
      BY DEF Runs, Readiness
    <3>2. \A a \in Domains : loop.lastSourced[a] \in SUBSET Intents
      BY DEF LoopStates
    <3> DEFINE last == IF flight[w].action \in Domains
                       THEN loop.lastSourced[flight[w].action] ELSE {}
               ready == IF flight[w].action = "planner" THEN Readiness ELSE "gaps"
               f == [flight[w] EXCEPT !.pc = "flying", !.intent = run.intent,
                                      !.last = last, !.ready = ready]
    <3>3. last \in SUBSET Intents /\ ready \in {"gaps", "missing", "usable"}
      BY <3>1, <3>2
    <3>4. flight' = [flight EXCEPT ![w] = f]
      BY <1>2 DEF Dispatch
    <3> HIDE DEF last, ready
    <3>5. f \in Flights
      BY <2>1, <3>1, <3>3, WatchType
    <3> HIDE DEF f
    <3>6. QED
      BY <3>4, <3>5, FlightUpdate
  <2>5. QED
    BY <1>2, <2>2, <2>3, <2>4, SavesType DEF Dispatch, disk
<1>3. ASSUME Refuse(w) PROVE TypeOK'
  <2>1. run' \in Runs
    BY <1>3 DEF Refuse, RunAfterResume, Resumed, Runs, Statuses
  <2>2. flight' \in [Workers -> Flights]
    BY <1>3, FlightType DEF Refuse, Waiting, MoveTo
  <2>3. QED
    BY <1>3, <2>1, <2>2 DEF Refuse, disk
<1>4. ASSUME DeliverMalformed(w) PROVE TypeOK'
  <2>1. loop' \in LoopStates
    BY <1>4, StatusType DEF DeliverMalformed, Malformed, Actions, ActionStates
  <2>2. flight' \in [Workers -> Flights]
    BY <1>4, FlightType DEF DeliverMalformed, Waiting, MoveTo
  <2>3. QED
    BY <1>4, <2>1, <2>2 DEF DeliverMalformed, disk
<1>5. ASSUME DeliverRefused(w) PROVE TypeOK'
  <2>1. flight' \in [Workers -> Flights]
    BY <1>5, FlightType DEF DeliverRefused, Waiting, MoveTo
  <2>2. QED
    BY <1>5, <2>1 DEF DeliverRefused, disk
<1>6. ASSUME NEW blocks \in BOOLEAN, Raise(w, blocks) PROVE TypeOK'
  <2>1. flight[w].pc = "flying" /\ flight[w].action \in Actions
    BY <1>6, FlightType DEF Raise, Waiting
  <2>2. loop' \in LoopStates
    BY <1>6, <2>1, StatusType DEF Raise, ActionStates
  <2>3. flight' \in [Workers -> Flights]
    BY <1>6, <2>1, FlightType DEF Raise, MoveTo
  <2>4. ops' \in Seq(Ops)
    BY <1>6, SavesType DEF Raise
  <2>5. QED
    BY <1>6, <2>2, <2>3, <2>4 DEF Raise, disk
<1>7. ASSUME Release(w) PROVE TypeOK'
  <2>1. Retire(w) \in Flights
    <3>1. [flight[w] EXCEPT !.pc = "released"] \in Flights
      BY <1>7, WatchType DEF Release
    <3>2. IdleFlight \in Flights
      BY DEF Flights
    <3>3. QED
      BY <3>1, <3>2 DEF Retire
  <2>2. QED
    BY <1>7, <2>1 DEF Release, disk
<1>8. ASSUME Expire(w) PROVE TypeOK'
  <2>1. [flight[w] EXCEPT !.watch = "expired"] \in Flights
    BY <1>8, WatchType DEF Expire
  <2>2. flight' \in [Workers -> Flights]
    BY <1>8, <2>1, FlightUpdate DEF Expire
  <2>3. QED
    BY <1>8, <2>2 DEF Expire, disk
<1>9. QED
  BY <1>1, <1>2, <1>3, <1>4, <1>5, <1>6, <1>7, <1>8

\* A worker's result, and the watchdog's verdict on it.
LEMMA LandingType ==
  ASSUME TypeOK, NEW w \in Workers,
         \/ \E item \in Items : Deliver(w, item)
         \/ \E result \in Results, shown \in BOOLEAN : LandPlan(w, result, shown)
         \/ TimeoutAction(w)
  PROVE  TypeOK'
<1> USE DEF TypeOK, bounds
<1>1. ASSUME NEW item \in Items, Deliver(w, item) PROVE TypeOK'
  <2>1. loop' \in LoopStates
    BY <1>1, SubmittedType DEF Deliver
  <2>2. flight' \in [Workers -> Flights]
    BY <1>1, FlightType DEF Deliver, Waiting, MoveTo
  <2>3. QED
    BY <1>1, <2>1, <2>2, SavesType DEF Deliver, disk
<1>2. ASSUME NEW result \in Results, NEW shown \in BOOLEAN, LandPlan(w, result, shown)
      PROVE  TypeOK'
  <2>1. loop' \in LoopStates
    BY <1>2, StatusType DEF LandPlan, Actions, ActionStates
  <2>2. flight' \in [Workers -> Flights]
    BY <1>2, FlightType DEF LandPlan, Waiting, MoveTo
  <2>3. strikes' \in [Actions -> 0 .. MaxStrikes]
    <3>1. 0 \in 0 .. MaxStrikes
      BY MaxStrikesAssumption
    <3>2. strikes' = [strikes EXCEPT !["planner"] = 0]
      BY <1>2 DEF LandPlan
    <3>3. QED
      BY <3>1, <3>2
  <2>4. ops' \in Seq(Ops)
    <3>1. /\ <<[do |-> "record", result |-> result]>> \in Seq(Ops)
          /\ << [do |-> "install", result |-> result],
                [do |-> "complete", result |-> result] >> \in Seq(Ops)
          /\ <<>> \in Seq(Ops)
      BY DEF Ops
    <3>2. QED
      BY <1>2, <3>1, SavesType DEF LandPlan
  <2>5. QED
    BY <1>2, <2>1, <2>2, <2>3, <2>4 DEF LandPlan, disk
<1>3. ASSUME TimeoutAction(w) PROVE TypeOK'
  <2> DEFINE a == flight[w].action
  <2>1. a \in Actions
    BY <1>3, FlightType DEF TimeoutAction
  <2>2. Bounded(strikes[a] + 1) \in 0 .. MaxStrikes
    BY <2>1, MaxStrikesAssumption DEF Bounded
  <2>3. loop' \in LoopStates
    BY <1>3, <2>1, StatusType DEF TimeoutAction, ActionStates
  <2>4. flight' \in [Workers -> Flights]
    <3>1. [flight[w] EXCEPT !.watch = "done"] \in Flights
      BY <1>3, WatchType DEF TimeoutAction
    <3>2. IdleFlight \in Flights
      BY DEF Flights
    <3>3. flight' = [flight EXCEPT ![w] = IF flight[w].pc = "released" THEN IdleFlight
                                          ELSE [flight[w] EXCEPT !.watch = "done"]]
      BY <1>3 DEF TimeoutAction
    <3>4. QED
      BY <3>1, <3>2, <3>3, FlightUpdate
  <2>5. strikes' \in [Actions -> 0 .. MaxStrikes]
    BY <1>3, <2>2 DEF TimeoutAction
  <2>6. QED
    BY <1>3, <2>3, <2>4, <2>5, SavesType DEF TimeoutAction, disk
<1>4. QED
  BY <1>1, <1>2, <1>3

\* Drivers, reads and crashes keep the types.
LEMMA SurroundingsType ==
  ASSUME TypeOK, \/ \E d \in Drivers : Driver(d)
                 \/ Reader
                 \/ Crash
  PROVE  TypeOK'
<1> USE DEF TypeOK, bounds
<1>1. ASSUME NEW d \in Drivers, Driver(d) PROVE TypeOK'
  <2>1. CASE Settle(d)
    <3>1. driver[d].keeps \in Results
      OBVIOUS
    <3>2. run' \in Runs
      BY <2>1, <3>1 DEF Settle, Blocked, Runs, Statuses
    <3>3. driver' \in [Drivers -> [settling : BOOLEAN, keeps : Results]]
      BY <2>1, ResultTypes DEF Settle, IdleDriver
    <3>4. QED
      BY <2>1, <3>2, <3>3 DEF Settle, disk
  <2>2. CASE Decide(d)
    <3>1. run.result \in Results
      BY DEF Runs
    <3>2. driver' \in [Drivers -> [settling : BOOLEAN, keeps : Results]]
      BY <2>2, <3>1, ResultTypes DEF Decide
    <3>3. QED
      BY <2>2, <3>2 DEF Decide, disk
  <2>3. QED
    BY <1>1, <2>1, <2>2 DEF Driver
<1>2. ASSUME Reader PROVE TypeOK'
  <2>1. ASSUME NEW d \in Domains, BeginRead(d) PROVE TypeOK'
    <3>1. run.intent \in Intents /\ loop.evidence[d] \in Items
      BY DEF Runs, LoopStates, EvidenceMaps
    <3>2. QED
      BY <2>1, <3>1 DEF BeginRead, disk
  <2>2. CASE FinishRead
    <3>1. reader.domain \in Domains /\ reader.intent \in Intents /\ reader.item \in Items
      BY <2>2 DEF FinishRead
    <3>2. {Usable({reader.intent}), Missing, reader.item} \subseteq Items
      BY <3>1, FreshItemType DEF Items
    <3>3. \A item \in Items :
            [loop EXCEPT !.evidence[reader.domain] = item] \in LoopStates
      BY <3>1 DEF LoopStates, EvidenceMaps
    <3>4. loop' \in LoopStates /\ ops' \in Seq(Ops)
      <4>1. CASE loop.evidence[reader.domain] = Absent
        BY <2>2, <4>1 DEF FinishRead
      <4>2. CASE loop.evidence[reader.domain] # Absent
        BY <2>2, <3>2, <3>3, <4>2, SavesType DEF FinishRead
      <4>3. QED
        BY <4>1, <4>2
    <3>5. QED
      BY <2>2, <3>4 DEF FinishRead, disk
  <2>3. QED
    BY <1>2, <2>1, <2>2 DEF Reader
<1>3. ASSUME Crash PROVE TypeOK'
  <2>1. Reloaded \in LoopStates
    <3>1. NewLoop(NoEvidence, NoResult) \in LoopStates
      BY NewLoopType, NoEvidenceType, ResultTypes
    <3>2. CASE Loadable = "live"
      <4>1. fileStatus # NoFile /\ fileEvidence # NoFile
        BY <3>2 DEF Loadable
      <4>2. /\ fileStatus.status \in [Actions -> ActionStates]
            /\ fileStatus.fallback \in Results
            /\ fileEvidence.evidence \in EvidenceMaps
            /\ fileEvidence.lastSourced \in [Domains -> SUBSET Intents]
        BY <4>1 DEF StatusFiles, EvidenceFiles
      <4>3. Reread(fileStatus.status) \in [Actions -> ActionStates]
        BY <4>2 DEF Reread, ActionStates
      <4>4. QED
        BY <3>2, <4>2, <4>3 DEF Reloaded, LoopStates
    <3>3. QED
      BY <3>1, <3>2 DEF Reloaded
  <2>2. Loadable \in {"none", "live", "corrupt"}
    BY DEF Loadable
  <2>3. IdleFlight \in Flights
    BY DEF Flights
  <2>4. strikes' \in [Actions -> 0 .. MaxStrikes] /\ crashes' \in 0 .. MaxCrashes
    BY <1>3, MaxStrikesAssumption, MaxCrashesAssumption DEF Crash
  <2>5. driver' \in [Drivers -> [settling : BOOLEAN, keeps : Results]]
    BY <1>3, ResultTypes DEF Crash, IdleDriver
  <2>6. editor' \in EditorStates
    BY <1>3 DEF Crash, EditorStates
  <2>7. QED
    BY <1>3, <2>1, <2>2, <2>3, <2>4, <2>5, <2>6 DEF Crash, disk
<1>4. QED
  BY <1>1, <1>2, <1>3

\* The steps of an edit of the plan keep the types.
LEMMA EditorType == TypeOK /\ Editor => TypeOK'
<1> SUFFICES ASSUME TypeOK, Editor PROVE TypeOK'
  OBVIOUS
<1> DEFINE Sessions == [pc : {"read", "prepared", "started", "installed", "failing"},
                        result : Results, intent : Intents]
<1>1. editor.pc # "idle" => editor \in Sessions
  BY DEF TypeOK, EditorStates
<1>2. [pc |-> "idle"] \in EditorStates
  BY DEF EditorStates
<1>3. ASSUME NEW from \in {"read", "prepared", "started", "installed", "failing"},
             NEW to \in {"read", "prepared", "started", "installed", "failing"},
             EditGoes(from, to)
      PROVE  editor \in Sessions /\ editor' \in EditorStates
  BY <1>1, <1>3 DEF EditGoes, EditorStates
<1>4. ASSUME NEW from \in {"read", "prepared", "started", "installed", "failing"},
             EditEnds(from)
      PROVE  editor \in Sessions /\ editor' \in EditorStates
  BY <1>1, <1>2, <1>4 DEF EditEnds
<1>5. ASSUME editor \in Sessions PROVE Edited(editor.result) \in Results
  <2>1. editor.result \in Results
    BY <1>5
  <2>2. QED
    BY <2>1, EditedType
<1>6. ASSUME EditSteps, editor' \in EditorStates, run' \in Runs, installed' \in Results
      PROVE  TypeOK'
  BY <1>6 DEF TypeOK, EditSteps, bounds
<1> USE DEF TypeOK
<1>7. CASE EditRead
  <2>1. editor' \in EditorStates
    BY <1>7 DEF EditRead, EditorStates, Runs
  <2>2. edits' \in 0 .. MaxEdits
    BY <1>7, MaxCrashesAssumption DEF EditRead
  <2>3. QED
    BY <1>7, <2>1, <2>2 DEF EditRead, disk
<1>8. CASE EditPrepare
  <2>1. editor \in Sessions /\ editor' \in EditorStates
    BY <1>3, <1>8 DEF EditPrepare
  <2>2. run' \in Runs
    BY <1>8, <2>1 DEF EditPrepare, Revised, Runs, Statuses
  <2>3. QED
    BY <1>6, <1>8, <2>1, <2>2 DEF EditPrepare
<1>9. CASE EditStart
  <2>1. editor' \in EditorStates
    BY <1>3, <1>9 DEF EditStart
  <2>2. run' \in Runs
    BY <1>9 DEF EditStart, Started, Runs, Statuses
  <2>3. QED
    BY <1>6, <1>9, <2>1, <2>2 DEF EditStart
<1>10. CASE EditRaises
  <2>1. editor' \in EditorStates
    BY <1>4, <1>10 DEF EditRaises
  <2>2. QED
    BY <1>6, <1>10, <2>1 DEF EditRaises
<1>11. CASE EditInstall
  <2>1. editor \in Sessions /\ editor' \in EditorStates
    BY <1>3, <1>11 DEF EditInstall
  <2>2. installed' \in Results
    BY <1>5, <1>11, <2>1 DEF EditInstall
  <2>3. QED
    BY <1>6, <1>11, <2>1, <2>2 DEF EditInstall
<1>12. CASE EditComplete
  <2>1. /\ editor \in Sessions /\ editor' \in EditorStates
        /\ editor.pc = "installed"
    BY <1>4, <1>12 DEF EditComplete, EditEnds
  <2>2. editor.result \in Results /\ Edited(editor.result) \in Results
    BY <1>5, <2>1
  <2>3. run' \in Runs
    BY <1>12, <2>2 DEF EditComplete, Completed, Runs, Statuses
  <2>4. QED
    BY <1>6, <1>12, <2>1, <2>3 DEF EditComplete
<1>13. CASE EditFails
  <2>1. editor' \in EditorStates
    BY <1>3, <1>13 DEF EditFails
  <2>2. QED
    BY <1>6, <1>13, <2>1 DEF EditFails
<1>14. CASE EditFail
  <2>1. editor' \in EditorStates
    BY <1>4, <1>14 DEF EditFail
  <2>2. run' \in Runs
    BY <1>14 DEF EditFail, Failed, Runs, Statuses
  <2>3. QED
    BY <1>6, <1>14, <2>1, <2>2 DEF EditFail
<1>15. QED
  BY <1>7, <1>8, <1>9, <1>10, <1>11, <1>12, <1>13, <1>14 DEF Editor

\* Every variable of the action loop stays in its type: in particular the loop
\* only ever writes states that _load_loop_state reads back.
THEOREM TypeCorrect == Spec => []TypeOK
<1>1. Init => TypeOK
  <2> SUFFICES ASSUME Init PROVE TypeOK
    OBVIOUS
  <2>1. run \in Runs
    BY ResultTypes DEF Init, Runs, Statuses
  <2>2. loop \in LoopStates
    BY NewLoopType, NoEvidenceType, ResultTypes DEF Init
  <2>3. QED
    BY <2>1, <2>2, ResultTypes, MaxStrikesAssumption, MaxCrashesAssumption
       DEF Init, TypeOK, Flights, EditorStates, StatusFiles, EvidenceFiles, IdleDriver
<1>2. TypeOK /\ [Next]_vars => TypeOK'
  <2> SUFFICES ASSUME TypeOK, [Next]_vars PROVE TypeOK'
    OBVIOUS
  <2>1. CASE Section
    BY <2>1, SectionType
  <2>2. CASE Host
    BY <2>2, HostType
  <2>3. ASSUME NEW w \in Workers, Worker(w) PROVE TypeOK'
    BY <2>3, ExecutionType, LandingType DEF Worker
  <2>4. CASE Reader \/ Crash \/ \E d \in Drivers : Driver(d)
    BY <2>4, SurroundingsType
  <2>5. CASE UNCHANGED vars
    BY <2>5 DEF TypeOK, vars, memory, disk, bounds
  <2>6. CASE Editor
    BY <2>6, EditorType
  <2>7. CASE StartRefused
    BY <2>7 DEF StartRefused, TypeOK, disk, bounds
  <2>8. QED
    BY <2>1, <2>2, <2>3, <2>4, <2>5, <2>6, <2>7 DEF Next
<1>3. QED
  BY <1>1, <1>2, PTL DEF Spec

-----------------------------------------------------------------------------
(* No action is executed by two threads.                                   *)

\* A step that leaves the registry alone and neither starts nor ends a busy
\* spell, nor changes the action of a busy thread, keeps SingleFlight.
LEMMA SameClaims ==
  ASSUME TypeOK, SingleFlight, inFlight' = inFlight,
         \A w \in Workers : /\ Busy(w)' <=> Busy(w)
                            /\ Busy(w) => flight'[w].action = flight[w].action
  PROVE  SingleFlight'
  BY DEF SingleFlight

\* Rewriting one thread's flight without ending its busy spell.
LEMMA SameSpell ==
  ASSUME TypeOK, SingleFlight, NEW w \in Workers, NEW f,
         inFlight' = inFlight, flight' = [flight EXCEPT ![w] = f],
         f.pc \in {"claimed", "flying", "landed", "refused"} <=> Busy(w),
         Busy(w) => f.action = flight[w].action
  PROVE  SingleFlight'
<1>1. \A v \in Workers : flight'[v] = IF v = w THEN f ELSE flight[v]
  BY DEF TypeOK
<1>2. \A v \in Workers : /\ Busy(v)' <=> Busy(v)
                         /\ Busy(v) => flight'[v].action = flight[v].action
  BY <1>1 DEF Busy
<1>3. QED
  BY <1>2, SameClaims

\* An action is never executed by two threads at once, for any number of
\* threads, timeouts, restarts and crashes: the registry is exactly the set of
\* claimed actions, a claim requires the action to be absent from it, and only
\* the thread that claimed it, or a crash that ends every thread, removes it.
THEOREM NoDoubleExecution == Spec => []SingleFlight
<1>1. Init => SingleFlight
  BY DEF Init, SingleFlight, Busy, IdleFlight
<1>2. TypeOK /\ SingleFlight /\ [Next]_vars => SingleFlight'
  <2> SUFFICES ASSUME TypeOK, SingleFlight, [Next]_vars PROVE SingleFlight'
    OBVIOUS
  <2> USE DEF memory
  <2>1. ASSUME UNCHANGED <<flight, inFlight>> PROVE SingleFlight'
    BY <2>1 DEF SingleFlight, Busy
  <2>2. CASE Section
    BY <2>1, <2>2 DEF Section, StartLoop, WriteStatus, WriteEvidence, RecordResult,
                     InstallPlan, CompleteRun, BlockRun
  <2>3. CASE Host
    BY <2>1, <2>3 DEF Host, HostStart, HostRestart, ResumeMissing, HostSubmit,
                     HostSubmitMalformed
  <2>4. CASE Reader
    BY <2>1, <2>4 DEF Reader, BeginRead, FinishRead
  <2>5. CASE \E d \in Drivers : Driver(d)
    BY <2>1, <2>5 DEF Driver, Decide, Settle
  <2>6. CASE Crash
    <3>1. \A w \in Workers : ~Busy(w)'
      BY <2>6 DEF Crash, Busy, IdleFlight
    <3>2. inFlight' = {}
      BY <2>6 DEF Crash
    <3>3. QED
      BY <3>1, <3>2 DEF SingleFlight
  <2>7. ASSUME NEW w \in Workers, Worker(w) PROVE SingleFlight'
    <3>1. ASSUME NEW a \in Actions, Claim(w, a) PROVE SingleFlight'
      <4> DEFINE f == [pc |-> "claimed", action |-> a, intent |-> run.intent,
                       last |-> {}, ready |-> "gaps", watch |-> "on"]
      <4>1. ~Busy(w) /\ a \notin inFlight /\ inFlight' = inFlight \union {a}
        BY <3>1 DEF Claim, Busy
      <4>2. \A v \in Workers : flight'[v] = IF v = w THEN f ELSE flight[v]
        BY <3>1 DEF Claim, TypeOK
      <4>3. /\ Busy(w)' /\ flight'[w].action = a
            /\ \A v \in Workers \ {w} : /\ Busy(v)' <=> Busy(v)
                                        /\ flight'[v] = flight[v]
        BY <4>2 DEF Busy
      <4>4. \A v \in Workers \ {w} : Busy(v) => flight[v].action # a
        BY <4>1 DEF SingleFlight
      <4>5. QED
        BY <4>1, <4>3, <4>4 DEF SingleFlight
    <3>2. CASE Dispatch(w)
      <4> DEFINE a == flight[w].action
                 f == [flight[w] EXCEPT !.pc = "flying", !.intent = run.intent,
                         !.last = IF a \in Domains THEN loop.lastSourced[a] ELSE {},
                         !.ready = IF a = "planner" THEN Readiness ELSE "gaps"]
      <4>1. flight[w].pc = "claimed" /\ inFlight' = inFlight
        BY <3>2 DEF Dispatch, Waiting
      <4>2. flight' = [flight EXCEPT ![w] = f]
        BY <3>2 DEF Dispatch
      <4>3. f.pc = "flying" /\ f.action = flight[w].action /\ Busy(w)
        BY <4>1, FlightType DEF TypeOK, Busy
      <4> HIDE DEF f
      <4>4. QED
        BY <4>1, <4>2, <4>3, SameSpell
    <3>3. ASSUME NEW pc \in {"landed", "refused"}, MoveTo(w, pc), Busy(w),
                 inFlight' = inFlight
          PROVE  SingleFlight'
      <4> DEFINE f == [flight[w] EXCEPT !.pc = pc]
      <4>1. flight' = [flight EXCEPT ![w] = f]
        BY <3>3 DEF MoveTo
      <4>2. f.pc = pc /\ f.action = flight[w].action
        BY <3>3, FlightType DEF TypeOK, Busy
      <4> HIDE DEF f
      <4>3. QED
        BY <3>3, <4>1, <4>2, SameSpell
    <3>4. CASE \/ Refuse(w) \/ DeliverMalformed(w) \/ DeliverRefused(w)
               \/ \E item \in Items : Deliver(w, item)
               \/ \E blocks \in BOOLEAN : Raise(w, blocks)
               \/ \E result \in Results, shown \in BOOLEAN : LandPlan(w, result, shown)
      <4>1. Busy(w) /\ inFlight' = inFlight
        BY <3>4 DEF Refuse, DeliverMalformed, DeliverRefused, Deliver, Raise, LandPlan,
                    Waiting, Busy
      <4>2. \E pc \in {"landed", "refused"} : MoveTo(w, pc)
        BY <3>4 DEF Refuse, DeliverMalformed, DeliverRefused, Deliver, Raise, LandPlan
      <4>3. QED
        BY <3>3, <4>1, <4>2
    <3>5. CASE Release(w)
      <4>1. Busy(w) /\ inFlight' = inFlight \ {flight[w].action}
        BY <3>5 DEF Release, Busy
      <4>2. \A v \in Workers : flight'[v] = IF v = w THEN Retire(w) ELSE flight[v]
        BY <3>5 DEF Release, TypeOK
      <4>3. Retire(w).pc \in {"released", "idle"}
        BY <4>1, FlightType DEF Retire, IdleFlight, TypeOK, Busy
      <4>4. /\ ~Busy(w)'
            /\ \A v \in Workers \ {w} : /\ Busy(v)' <=> Busy(v)
                                        /\ flight'[v] = flight[v]
        BY <4>2, <4>3 DEF Busy
      <4>5. \A v \in Workers \ {w} : Busy(v) => flight[v].action # flight[w].action
        BY <4>1 DEF SingleFlight
      <4>6. QED
        BY <4>1, <4>4, <4>5 DEF SingleFlight
    <3>6. CASE Expire(w)
      <4> DEFINE f == [flight[w] EXCEPT !.watch = "expired"]
      <4>1. flight[w].pc # "idle" /\ inFlight' = inFlight
            /\ flight' = [flight EXCEPT ![w] = f]
        BY <3>6 DEF Expire
      <4>2. f.pc = flight[w].pc /\ f.action = flight[w].action
        BY <4>1, FlightType DEF TypeOK
      <4> HIDE DEF f
      <4>3. QED
        BY <4>1, <4>2, SameSpell DEF Busy
    <3>7. CASE TimeoutAction(w)
      <4> DEFINE f == IF flight[w].pc = "released" THEN IdleFlight
                      ELSE [flight[w] EXCEPT !.watch = "done"]
      <4>1. flight[w].pc # "idle" /\ inFlight' = inFlight
            /\ flight' = [flight EXCEPT ![w] = f]
        BY <3>7 DEF TimeoutAction
      <4>2. CASE flight[w].pc = "released"
        <5>1. f.pc = "idle" /\ ~Busy(w)
          BY <4>2 DEF IdleFlight, Busy
        <5> HIDE DEF f
        <5>2. QED
          BY <4>1, <5>1, SameSpell
      <4>3. CASE flight[w].pc # "released"
        <5>1. f.pc = flight[w].pc /\ f.action = flight[w].action
          BY <4>1, <4>3, FlightType DEF TypeOK
        <5> HIDE DEF f
        <5>2. QED
          BY <4>1, <5>1, SameSpell DEF Busy
      <4>4. QED
        BY <4>2, <4>3
    <3>8. QED
      BY <2>7, <3>1, <3>2, <3>4, <3>5, <3>6, <3>7 DEF Worker
  <2>8. CASE UNCHANGED vars
    BY <2>1, <2>8 DEF vars
  <2>9. CASE Editor
    BY <2>1, <2>9 DEF Editor, EditRead, EditPrepare, EditStart, EditRaises, EditInstall,
                      EditComplete, EditFails, EditFail, EditSteps
  <2>10. CASE StartRefused
    BY <2>1, <2>10 DEF StartRefused
  <2>11. QED
    BY <2>2, <2>3, <2>4, <2>5, <2>6, <2>7, <2>8, <2>9, <2>10 DEF Next
<1>3. QED
  BY <1>1, <1>2, TypeCorrect, PTL DEF Spec


-----------------------------------------------------------------------------
(* Short sequences.                                                         *)

\* Short sequences and their tails.
LEMMA Tails ==
  /\ \A a : Tail(<<a>>) = <<>>
  /\ \A a, b : Tail(<<a, b>>) = <<b>>
  /\ \A a, b, c : Tail(<<a, b, c>>) = <<b, c>>
  /\ \A a, b, c, d : Tail(<<a, b, c, d>>) = <<b, c, d>>
  /\ \A a, b, c, d, e : Tail(<<a, b, c, d, e>>) = <<b, c, d, e>>
<1>1. \A a : Tail(<<a>>) = <<>>
  <2> TAKE a
  <2>1. <<a>> \in Seq({a}) /\ Len(<<a>>) = 1
    OBVIOUS
  <2>2. Tail(<<a>>) \in Seq({a}) /\ Len(Tail(<<a>>)) = 0
    BY <2>1, HeadTailProperties
  <2> QED
    BY <2>2, EmptySeq
<1>2. \A a, b : Tail(<<a, b>>) = <<b>>
  OBVIOUS
<1>3. \A a, b, c : Tail(<<a, b, c>>) = <<b, c>>
  OBVIOUS
<1>4. \A a, b, c, d : Tail(<<a, b, c, d>>) = <<b, c, d>>
  OBVIOUS
<1>5. \A a, b, c, d, e : Tail(<<a, b, c, d, e>>) = <<b, c, d, e>>
  OBVIOUS
<1> QED
  BY <1>1, <1>2, <1>3, <1>4, <1>5

\* Short sequences put together.
LEMMA Joined ==
  ASSUME NEW a, NEW b, NEW c
  PROVE  /\ Append(<<a, b>>, c) = <<a, b, c>>
         /\ <<a>> \o <<b, c>> = <<a, b, c>>
         /\ <<a>> \o <<b, c>> \o <<>> = <<a, b, c>>
<1> DEFINE S == {a, b, c}
<1>0. a \in S /\ b \in S /\ c \in S
  OBVIOUS
<1> HIDE DEF S
<1>1. \A s \in Seq(S) : Len(s) = 3 => s = <<s[1], s[2], s[3]>>
  OBVIOUS
<1>3. Append(<<a, b>>, c) = <<a, b, c>>
  <2> DEFINE t == <<a, b>>
             s == Append(t, c)
  <2>1. t \in Seq(S) /\ Len(t) = 2 /\ t[1] = a /\ t[2] = b
    BY <1>0
  <2> HIDE DEF t
  <2>5. c \in S /\ t \in Seq(S)
    BY <1>0, <2>1
  <2>4. /\ Append(t, c) \in Seq(S) /\ Len(Append(t, c)) = Len(t) + 1
        /\ \A i \in 1 .. Len(t) : Append(t, c)[i] = t[i]
        /\ Append(t, c)[Len(t) + 1] = c
    BY <2>5, AppendProperties
  <2>2. s \in Seq(S) /\ Len(s) = 3 /\ s[1] = a /\ s[2] = b /\ s[3] = c
    BY <2>1, <2>4
  <2> HIDE DEF s
  <2>3. s = <<a, b, c>>
    BY <1>1, <2>2
  <2> QED
    BY <2>3 DEF s, t
<1>4. <<a>> \o <<b, c>> = <<a, b, c>>
  <2> DEFINE t == <<a>>
             u == <<b, c>>
             s == t \o u
  <2>1. t \in Seq(S) /\ Len(t) = 1 /\ t[1] = a /\ u \in Seq(S) /\ Len(u) = 2 /\ u[1] = b /\ u[2] = c
    BY <1>0
  <2> HIDE DEF t, u
  <2>2. /\ t \o u \in Seq(S) /\ Len(t \o u) = Len(t) + Len(u)
        /\ \A i \in 1 .. Len(t) + Len(u) :
             (t \o u)[i] = IF i <= Len(t) THEN t[i] ELSE u[i - Len(t)]
    BY <2>1, ConcatProperties
  <2>4. s \in Seq(S) /\ Len(s) = 3 /\ s[1] = a /\ s[2] = b /\ s[3] = c
    BY <2>1, <2>2
  <2> HIDE DEF s
  <2>3. s = <<a, b, c>>
    BY <1>1, <2>4
  <2> QED
    BY <2>3 DEF s, t, u
<1>5. <<a, b, c>> \o <<>> = <<a, b, c>>
  <2> DEFINE t == <<a, b, c>>
             s == t \o <<>>
  <2>1. t \in Seq(S) /\ Len(t) = 3 /\ t[1] = a /\ t[2] = b /\ t[3] = c
    BY <1>0
  <2> HIDE DEF t
  <2>2. s \in Seq(S) /\ Len(s) = 3 /\ s[1] = a /\ s[2] = b /\ s[3] = c
    BY <2>1, ConcatProperties
  <2> HIDE DEF s
  <2>3. s = <<a, b, c>>
    BY <1>1, <2>2
  <2> QED
    BY <2>3 DEF s, t
<1> QED
  BY <1>3, <1>4, <1>5
\* The longest queue there is.
LEMMA JoinedFive ==
  ASSUME NEW a, NEW b, NEW c, NEW d, NEW e
  PROVE  <<a>> \o <<b, c>> \o <<d, e>> = <<a, b, c, d, e>>
<1> DEFINE S == {a, b, c, d, e}
<1>0. a \in S /\ b \in S /\ c \in S /\ d \in S /\ e \in S
  OBVIOUS
<1> HIDE DEF S
<1>1. <<a>> \o <<b, c>> = <<a, b, c>>
  BY Joined, Zenon
<1>2. \A s \in Seq(S) : Len(s) = 5 => s = <<s[1], s[2], s[3], s[4], s[5]>>
  OBVIOUS
<1>3. <<a, b, c>> \o <<d, e>> = <<a, b, c, d, e>>
  <2> DEFINE t == <<a, b, c>>
             u == <<d, e>>
             s == t \o u
  <2>1. t \in Seq(S) /\ Len(t) = 3 /\ t[1] = a /\ t[2] = b /\ t[3] = c
    BY <1>0
  <2>2. u \in Seq(S) /\ Len(u) = 2 /\ u[1] = d /\ u[2] = e
    BY <1>0
  <2> HIDE DEF t, u
  <2>3. /\ t \o u \in Seq(S) /\ Len(t \o u) = Len(t) + Len(u)
        /\ \A i \in 1 .. Len(t) + Len(u) :
             (t \o u)[i] = IF i <= Len(t) THEN t[i] ELSE u[i - Len(t)]
    BY <2>1, <2>2, ConcatProperties
  <2>4. /\ s \in Seq(S) /\ Len(s) = 5
        /\ s[1] = a /\ s[2] = b /\ s[3] = c /\ s[4] = d /\ s[5] = e
    BY <2>1, <2>2, <2>3
  <2> HIDE DEF s
  <2>5. s = <<a, b, c, d, e>>
    BY <1>2, <2>4
  <2> QED
    BY <2>5 DEF s, t, u
<1> QED
  BY <1>1, <1>3

-----------------------------------------------------------------------------
(* What the holder of the run lock may still have to do.                    *)

Plans == {PlanFor(i) : i \in Intents}
Rec(r) == [do |-> "record", result |-> r]
Ins(r) == [do |-> "install", result |-> r]
Com(r) == [do |-> "complete", result |-> r]
Str(e) == [do |-> "start", evidence |-> e]

\* Sections that save the loop, those that start one, and those that land a plan.
Saving == {<<>>, <<SaveEvidence>>, <<SaveStatus, SaveEvidence>>, <<Block>>,
           <<SaveEvidence, Block>>, <<SaveStatus, SaveEvidence, Block>>}
Starting == {<<Str(e), SaveStatus, SaveEvidence>> : e \in EvidenceMaps}
Drafting == {<<Rec(r), SaveStatus, SaveEvidence>> : r \in Plans \union {Unfinished}}
Showing(r) == {<<Rec(r), SaveStatus, SaveEvidence, Ins(r), Com(r)>>,
               <<SaveStatus, SaveEvidence, Ins(r), Com(r)>>,
               <<SaveEvidence, Ins(r), Com(r)>>, <<Ins(r), Com(r)>>, <<Com(r)>>}
Landing == Drafting \union UNION {Showing(r) : r \in Plans}
QueueOK == ops \in Saving \union Starting \union Landing

\* The queues the actions make, written out.
LEMMA QueuesMade ==
  /\ Saves = <<SaveStatus, SaveEvidence>>
  /\ Append(Saves, Block) = <<SaveStatus, SaveEvidence, Block>>
  /\ \A e : Opening(e) = <<Str(e), SaveStatus, SaveEvidence>>
  /\ \A r : /\ <<Rec(r)>> \o Saves \o <<>> = <<Rec(r), SaveStatus, SaveEvidence>>
            /\ <<Rec(r)>> \o Saves \o <<Ins(r), Com(r)>>
                 = <<Rec(r), SaveStatus, SaveEvidence, Ins(r), Com(r)>>
<1>1. Saves = <<SaveStatus, SaveEvidence>>
  BY DEF Saves
<1> HIDE DEF SaveStatus, SaveEvidence, Block, Rec, Ins, Com, Str
<1>2. Append(Saves, Block) = <<SaveStatus, SaveEvidence, Block>>
  BY <1>1, Joined, Zenon
<1>3. ASSUME NEW e PROVE Opening(e) = <<Str(e), SaveStatus, SaveEvidence>>
  <2>1. Opening(e) = <<Str(e)>> \o Saves
    BY DEF Opening, Str
  <2> QED
    BY <1>1, <2>1, Joined, Zenon
<1>4. ASSUME NEW r
      PROVE  /\ <<Rec(r)>> \o Saves \o <<>> = <<Rec(r), SaveStatus, SaveEvidence>>
             /\ <<Rec(r)>> \o Saves \o <<Ins(r), Com(r)>>
                  = <<Rec(r), SaveStatus, SaveEvidence, Ins(r), Com(r)>>
  <2>1. <<Rec(r)>> \o Saves \o <<>> = <<Rec(r), SaveStatus, SaveEvidence>>
    BY <1>1, Joined, Zenon
  <2>2. <<Rec(r)>> \o Saves \o <<Ins(r), Com(r)>>
          = <<Rec(r), SaveStatus, SaveEvidence, Ins(r), Com(r)>>
    <3>1. <<Rec(r)>> \o <<SaveStatus, SaveEvidence>> \o <<Ins(r), Com(r)>>
            = <<Rec(r), SaveStatus, SaveEvidence, Ins(r), Com(r)>>
      BY JoinedFive, Zenon
    <3> QED
      BY <1>1, <3>1
  <2> QED
    BY <2>1, <2>2
<1> QED
  BY <1>1, <1>2, <1>3, <1>4

\* A section goes on with what is left of it.
LEMMA SectionTail == Section => ops # <<>> /\ ops' = Tail(ops)
  BY DEF Section, StartLoop, WriteStatus, WriteEvidence, RecordResult, InstallPlan,
         CompleteRun, BlockRun, Doing

\* What is left of a section, and which of the section's steps comes next.
LEMMA QueueTail ==
  ASSUME QueueOK, ops # <<>>
  PROVE  /\ ops \in Saving => Tail(ops) \in Saving
         /\ ops \in Starting => Tail(ops) = <<SaveStatus, SaveEvidence>>
         /\ ops \in Drafting => Tail(ops) = <<SaveStatus, SaveEvidence>>
         /\ \A r \in Plans : ops \in Showing(r) =>
              Tail(ops) \in Showing(r) \/ (ops = <<Com(r)>> /\ Tail(ops) = <<>>)
<1>1. ops \in Saving => Tail(ops) \in Saving
  <2>1. /\ Tail(<<SaveEvidence>>) = <<>> /\ Tail(<<Block>>) = <<>>
        /\ Tail(<<SaveStatus, SaveEvidence>>) = <<SaveEvidence>>
        /\ Tail(<<SaveEvidence, Block>>) = <<Block>>
        /\ Tail(<<SaveStatus, SaveEvidence, Block>>) = <<SaveEvidence, Block>>
    BY Tails
  <2> QED
    BY <2>1 DEF Saving
<1>2. ASSUME NEW x, ops = <<x, SaveStatus, SaveEvidence>>
      PROVE  Tail(ops) = <<SaveStatus, SaveEvidence>>
  BY <1>2, Tails
<1>3. ops \in Starting \union Drafting => Tail(ops) = <<SaveStatus, SaveEvidence>>
  BY <1>2 DEF Starting, Drafting
<1>4. ASSUME NEW r \in Plans, ops \in Showing(r)
      PROVE  Tail(ops) \in Showing(r) \/ (ops = <<Com(r)>> /\ Tail(ops) = <<>>)
  <2>1. /\ Tail(<<Rec(r), SaveStatus, SaveEvidence, Ins(r), Com(r)>>)
             = <<SaveStatus, SaveEvidence, Ins(r), Com(r)>>
        /\ Tail(<<SaveStatus, SaveEvidence, Ins(r), Com(r)>>) = <<SaveEvidence, Ins(r), Com(r)>>
        /\ Tail(<<SaveEvidence, Ins(r), Com(r)>>) = <<Ins(r), Com(r)>>
        /\ Tail(<<Ins(r), Com(r)>>) = <<Com(r)>>
        /\ Tail(<<Com(r)>>) = <<>>
    BY Tails
  <2> HIDE DEF Rec, Ins, Com, SaveStatus, SaveEvidence
  <2>2. CASE ops = <<Com(r)>>
    BY <2>1, <2>2
  <2>3. CASE ops = <<Rec(r), SaveStatus, SaveEvidence, Ins(r), Com(r)>>
    <3>1. Tail(ops) = <<SaveStatus, SaveEvidence, Ins(r), Com(r)>>
      BY <2>1, <2>3, Zenon
    <3> QED
      BY <3>1, Zenon DEF Showing
  <2>4. CASE ops = <<SaveStatus, SaveEvidence, Ins(r), Com(r)>>
    <3>1. Tail(ops) = <<SaveEvidence, Ins(r), Com(r)>>
      BY <2>1, <2>4, Zenon
    <3> QED
      BY <3>1, Zenon DEF Showing
  <2>5. CASE ops = <<SaveEvidence, Ins(r), Com(r)>>
    <3>1. Tail(ops) = <<Ins(r), Com(r)>>
      BY <2>1, <2>5, Zenon
    <3> QED
      BY <3>1, Zenon DEF Showing
  <2>6. CASE ops = <<Ins(r), Com(r)>>
    <3>1. Tail(ops) = <<Com(r)>>
      BY <2>1, <2>6, Zenon
    <3> QED
      BY <3>1, Zenon DEF Showing
  <2> QED
    BY <1>4, <2>2, <2>3, <2>4, <2>5, <2>6 DEF Showing
<1> QED
  BY <1>1, <1>3, <1>4

\* Whoever begins a section finds none under way; a crash ends the one there is.
LEMMA QueueSteps ==
  ASSUME TypeOK, [Next]_vars
  PROVE  \/ UNCHANGED ops
         \/ Section
         \/ Crash /\ ops' = <<>>
         \/ StartRefused /\ ops # <<>> /\ ops' = <<>>
         \/ ops = <<>> /\ ops' \in Saving
         \/ ops = <<>> /\ ops' \in Starting /\ \E e \in Seeds : HostStart(e)
         \/ ops = <<>> /\ ops' \in Starting /\ \E i \in Intents : HostRestart(i)
         \/ /\ ops = <<>>
            /\ \E w \in Workers, result \in Results, shown \in BOOLEAN :
                 LandPlan(w, result, shown)
            /\ ops' \in Landing
<1>1. Saves \in Saving /\ Append(Saves, Block) \in Saving
  BY QueuesMade DEF Saving
<1>2. ASSUME NEW e \in EvidenceMaps PROVE Opening(e) \in Starting
  BY QueuesMade DEF Starting
<1>3. CASE Host
  <2>1. \A i \in Intents : Reusable(i) \in EvidenceMaps
    BY DEF Reusable, EvidenceMaps, Items, TypeOK, LoopStates
  <2>2. ASSUME NEW e \in Seeds, HostStart(e) PROVE ops = <<>> /\ ops' \in Starting
    BY <1>2, <2>2, SeedsAssumption DEF HostStart, LockFree
  <2>3. ASSUME NEW i \in Intents, HostRestart(i) PROVE ops = <<>> /\ ops' \in Starting
    BY <1>2, <2>1, <2>3 DEF HostRestart, LockFree
  <2>4. CASE ResumeMissing
    BY <1>1, <2>4 DEF ResumeMissing, LockFree
  <2>5. ASSUME NEW a \in Domains, NEW item, HostSubmit(a, item)
        PROVE  ops = <<>> /\ ops' \in Saving
    BY <1>1, <2>5 DEF HostSubmit, LockFree
  <2>6. ASSUME NEW a \in Domains, HostSubmitMalformed(a) PROVE UNCHANGED ops
    BY <2>6 DEF HostSubmitMalformed
  <2> QED
    BY <1>3, <2>2, <2>3, <2>4, <2>5, <2>6 DEF Host
<1>4. CASE Reader
  BY <1>1, <1>4 DEF Reader, BeginRead, FinishRead, LockFree
<1>5. CASE Editor \/ \E d \in Drivers : Driver(d)
  BY <1>5 DEF Editor, EditRead, EditPrepare, EditStart, EditRaises, EditInstall, EditComplete,
             EditFails, EditFail, EditSteps, Driver, Settle, Decide
<1>6. CASE Crash
  BY <1>6 DEF Crash
<1>7. ASSUME NEW w \in Workers, NEW result \in Results, NEW shown \in BOOLEAN,
             LandPlan(w, result, shown)
      PROVE  ops = <<>> /\ ops' \in Landing
  <2>1. ops = <<>> /\ result \in PlanResults(w) /\ shown \in Showable(result)
    BY <1>7 DEF LandPlan, Waiting, LockFree
  <2>2. flight[w].intent \in Intents
    BY <1>7, FlightType DEF LandPlan, Waiting, TypeOK
  <2>3. result \in Plans \union {Unfinished}
    BY <2>1, <2>2 DEF PlanResults, Plans
  <2>4. shown => result \in Plans
    BY <2>1, <2>3 DEF Showable, Unfinished
  <2>5. CASE shown
    <3>1. ops' = <<Rec(result)>> \o Saves \o <<Ins(result), Com(result)>>
      BY <1>7, <2>5 DEF LandPlan, Rec, Ins, Com
    <3>2. ops' \in Showing(result)
      BY <3>1, QueuesMade DEF Showing
    <3> QED
      BY <2>1, <2>4, <2>5, <3>2 DEF Landing
  <2>6. CASE ~shown
    <3>1. ops' = <<Rec(result)>> \o Saves \o <<>>
      BY <1>7, <2>6 DEF LandPlan, Rec
    <3>2. ops' \in Drafting
      BY <2>3, <3>1, QueuesMade DEF Drafting
    <3> QED
      BY <2>1, <3>2 DEF Landing
  <2> QED
    BY <2>5, <2>6
<1>8. ASSUME NEW w \in Workers, Worker(w),
             ~ \E result \in Results, shown \in BOOLEAN : LandPlan(w, result, shown)
      PROVE  UNCHANGED ops \/ (ops = <<>> /\ ops' \in Saving)
  <2>1. ASSUME NEW blocks \in BOOLEAN, Raise(w, blocks)
        PROVE  ops = <<>> /\ ops' \in Saving
    <3>1. ops = <<>> /\ ops' = IF blocks THEN Append(Saves, Block) ELSE Saves
      BY <2>1 DEF Raise, Waiting, LockFree
    <3>2. CASE blocks
      BY <1>1, <3>1, <3>2
    <3>3. CASE ~blocks
      BY <1>1, <3>1, <3>3
    <3> QED
      BY <3>2, <3>3
  <2>2. ASSUME NEW item, Deliver(w, item) PROVE ops = <<>> /\ ops' \in Saving
    BY <1>1, <2>2 DEF Deliver, Waiting, LockFree
  <2>3. Dispatch(w) \/ TimeoutAction(w) => ops = <<>> /\ ops' \in Saving
    BY <1>1 DEF Dispatch, TimeoutAction, Waiting, LockFree
  <2>4. ASSUME NEW a, Claim(w, a) PROVE UNCHANGED ops
    BY <2>4 DEF Claim
  <2>5. Refuse(w) \/ DeliverMalformed(w) \/ DeliverRefused(w) \/ Release(w) \/ Expire(w)
          => UNCHANGED ops
    BY DEF Refuse, DeliverMalformed, DeliverRefused, Release, Expire
  <2> QED
    BY <1>8, <2>1, <2>2, <2>3, <2>4, <2>5 DEF Worker
<1>9. CASE UNCHANGED vars
  BY <1>9 DEF vars, memory
<1>10. CASE StartRefused
  BY <1>10 DEF StartRefused
<1> QED
  BY <1>3, <1>4, <1>5, <1>6, <1>7, <1>8, <1>9, <1>10 DEF Next

\* The queue always has one of these shapes.
LEMMA QueueInv == TypeOK /\ QueueOK /\ [Next]_vars => QueueOK'
<1> SUFFICES ASSUME TypeOK, QueueOK, [Next]_vars PROVE QueueOK'
  OBVIOUS
<1>1. CASE Section
  <2>1. ops # <<>> /\ ops' = Tail(ops)
    BY <1>1, SectionTail
  <2>2. <<SaveStatus, SaveEvidence>> \in Saving /\ <<>> \in Saving
    BY DEF Saving
  <2> QED
    BY <2>1, <2>2, QueueTail DEF QueueOK, Landing
<1>2. <<>> \in Saving
  BY DEF Saving
<1> QED
  BY <1>1, <1>2, QueueSteps DEF QueueOK

\* What the operations say.
LEMMA OpNames ==
  /\ SaveStatus.do = "saveStatus" /\ SaveEvidence.do = "saveEvidence" /\ Block.do = "block"
  /\ \A e : Str(e).do = "start" /\ Str(e).evidence = e
  /\ \A r : /\ Rec(r).do = "record" /\ Rec(r).result = r
            /\ Ins(r).do = "install" /\ Ins(r).result = r
            /\ Com(r).do = "complete" /\ Com(r).result = r
BY DEF SaveStatus, SaveEvidence, Block, Str, Rec, Ins, Com

\* Which operation is next, and which one comes after it.
LEMMA QueueHeads ==
  ASSUME QueueOK, ops # <<>>
  PROVE  /\ ops \in Saving => Head(ops) \in {SaveStatus, SaveEvidence, Block}
         /\ ops \in Starting => Head(ops).do = "start"
         /\ ops \in Landing => Head(ops).do # "start"
         /\ \A r : ops \in Showing(r) =>
              Head(ops) \in {Rec(r), SaveStatus, SaveEvidence, Ins(r), Com(r)}
         /\ ops \in Drafting => \E r \in Plans \union {Unfinished} : Head(ops) = Rec(r)
<1>1. ops \in Saving => Head(ops) \in {SaveStatus, SaveEvidence, Block}
  BY DEF Saving
<1>2. ops \in Starting => Head(ops).do = "start"
  BY DEF Starting, Str
<1>3. ASSUME NEW r, ops \in Showing(r)
      PROVE  Head(ops) \in {Rec(r), SaveStatus, SaveEvidence, Ins(r), Com(r)}
  <2> HIDE DEF Rec, Ins, Com, SaveStatus, SaveEvidence
  <2> QED
    BY <1>3 DEF Showing
<1>4. ops \in Drafting => \E r \in Plans \union {Unfinished} : Head(ops) = Rec(r)
  BY DEF Drafting
<1>5. ops \in Landing => Head(ops).do # "start"
  <2>1. ops \in Drafting => Head(ops).do # "start"
    BY <1>4, OpNames
  <2>2. ASSUME NEW r \in Plans, ops \in Showing(r) PROVE Head(ops).do # "start"
    BY <1>3, <2>2, OpNames
  <2> QED
    BY <2>1, <2>2 DEF Landing
<1> QED
  BY <1>1, <1>2, <1>3, <1>4, <1>5

\* A result is completed with right after it is installed.
LEMMA QueueNext ==
  ASSUME QueueOK, ops # <<>>, Tail(ops) # <<>>, Head(Tail(ops)).do = "complete"
  PROVE  Head(ops).do = "install" /\ Head(ops).result = Head(Tail(ops)).result
<1>1. <<SaveStatus, SaveEvidence>> # <<>> /\ Head(<<SaveStatus, SaveEvidence>>) = SaveStatus
  OBVIOUS
<1>2. ops \notin Starting \union Drafting
  <2>1. ops \in Starting \union Drafting => Tail(ops) = <<SaveStatus, SaveEvidence>>
    BY QueueTail
  <2>2. ops \in Starting \union Drafting => Head(Tail(ops)).do = "saveStatus"
    BY <1>1, <2>1, OpNames
  <2> QED
    BY <2>2
<1>3. ops \notin Saving
  <2>1. \A q \in Saving : q # <<>> => Head(q) \in {SaveStatus, SaveEvidence, Block}
    BY DEF Saving
  <2>2. ops \in Saving => Head(Tail(ops)) \in {SaveStatus, SaveEvidence, Block}
    BY <2>1, QueueTail
  <2> QED
    BY <2>2, OpNames
<1>4. PICK r \in Plans : ops \in Showing(r)
  BY <1>2, <1>3 DEF QueueOK, Landing
<1>5. CASE ops = <<Ins(r), Com(r)>>
  <2>1. Head(ops) = Ins(r) /\ Tail(ops) = <<Com(r)>> /\ Head(<<Com(r)>>) = Com(r)
    BY <1>5, Tails
  <2>2. Head(Tail(ops)) = Com(r)
    BY <2>1
  <2>3. Head(ops).do = "install" /\ Head(ops).result = r
    BY <2>1 DEF Ins
  <2>4. Head(Tail(ops)).result = r
    BY <2>2 DEF Com
  <2> QED
    BY <2>3, <2>4
<1>6. CASE ops # <<Ins(r), Com(r)>>
  <2>1. CASE ops = <<Rec(r), SaveStatus, SaveEvidence, Ins(r), Com(r)>>
    <3>1. Head(Tail(ops)) = SaveStatus
      BY <2>1, Tails
    <3> QED
      BY <3>1, OpNames
  <2>2. CASE ops = <<SaveStatus, SaveEvidence, Ins(r), Com(r)>>
    <3>1. Head(Tail(ops)) = SaveEvidence
      BY <2>2, Tails
    <3> QED
      BY <3>1, OpNames
  <2>3. CASE ops = <<SaveEvidence, Ins(r), Com(r)>>
    <3>1. Head(Tail(ops)) = Ins(r)
      BY <2>3, Tails
    <3> QED
      BY <3>1, OpNames
  <2>4. CASE ops = <<Com(r)>>
    BY <2>4, Tails
  <2> QED
    BY <1>4, <1>6, <2>1, <2>2, <2>3, <2>4 DEF Showing
<1> QED
  BY <1>5, <1>6

-----------------------------------------------------------------------------
(* What a step does to the loop.                                            *)

\* A section starts a loop, or leaves loop and threads alone.
LEMMA SectionFrame ==
  ASSUME Section
  PROVE  /\ ops # <<>> /\ ops' = Tail(ops)
         /\ UNCHANGED <<flight, inFlight, strikes, driver, reader, editor, crashes, edits>>
         /\ StartLoop \/ UNCHANGED <<loop, known>>
BY DEF Section, StartLoop, WriteStatus, WriteEvidence, RecordResult, InstallPlan,
       CompleteRun, BlockRun, Doing, bounds, disk

\* Every way a step changes the loop; in each but the first two and the last,
\* the loop was in memory before.
LEMMA LoopSteps ==
  ASSUME TypeOK, [Next]_vars
  PROVE  \/ StartLoop
         \/ ResumeMissing
         \/ Crash
         \/ FinishRead
         \/ \E a \in Domains, item \in Items :
              /\ ops = <<>> /\ ops' = Saves /\ Live
              /\ loop' = Submitted(a, item) /\ UNCHANGED <<known, disk>>
         \/ \E a \in Domains :
              ops = <<>> /\ loop' = Malformed(a) /\ UNCHANGED <<known, ops, disk>>
         \/ \E a \in Actions, s \in {"running", "blocked", "failed"} :
              /\ ops = <<>> /\ ops' \in {Saves, Append(Saves, Block)}
              /\ loop' = [loop EXCEPT !.status[a] = s] /\ UNCHANGED <<known, disk>>
         \/ \E w \in Workers, result \in Results, shown \in BOOLEAN :
              LandPlan(w, result, shown)
         \/ UNCHANGED <<loop, known>>
<1>1. CASE Section
  BY <1>1, SectionFrame
<1>2. CASE Host
  <2>1. ASSUME NEW a \in Domains, NEW item \in {Missing, Usable({run.intent})},
               HostSubmit(a, item)
        PROVE  /\ item \in Items /\ ops = <<>> /\ ops' = Saves /\ Live
               /\ loop' = Submitted(a, item) /\ UNCHANGED <<known, disk>>
    <3>1. Usable({run.intent}) \in Items
      BY FreshItemType DEF TypeOK, Runs
    <3>2. Missing \in Items
      BY DEF Items
    <3>3. item \in Items
      BY <2>1, <3>1, <3>2
    <3> QED
      BY <2>1, <3>3 DEF HostSubmit, LockFree, Accepts
  <2>2. ASSUME NEW a \in Domains, HostSubmitMalformed(a)
        PROVE  ops = <<>> /\ loop' = Malformed(a) /\ UNCHANGED <<known, ops, disk>>
    BY <2>2 DEF HostSubmitMalformed, LockFree
  <2>3. ASSUME NEW e, HostStart(e) PROVE UNCHANGED <<loop, known>>
    BY <2>3 DEF HostStart
  <2>4. ASSUME NEW i, HostRestart(i) PROVE UNCHANGED <<loop, known>>
    BY <2>4 DEF HostRestart
  <2> QED
    BY <1>2, <2>1, <2>2, <2>3, <2>4 DEF Host
<1>3. CASE Reader
  BY <1>3 DEF Reader, BeginRead
<1>4. CASE Editor \/ \E d \in Drivers : Driver(d)
  BY <1>4 DEF Editor, EditRead, EditPrepare, EditStart, EditRaises, EditInstall, EditComplete,
             EditFails, EditFail, EditSteps, Driver, Settle, Decide
<1>5. ASSUME NEW w \in Workers, Worker(w),
             ~ \E result \in Results, shown \in BOOLEAN : LandPlan(w, result, shown)
      PROVE  \/ \E a \in Domains, item \in Items :
                  /\ ops = <<>> /\ ops' = Saves /\ Live
                  /\ loop' = Submitted(a, item) /\ UNCHANGED <<known, disk>>
             \/ \E a \in Domains :
                  ops = <<>> /\ loop' = Malformed(a) /\ UNCHANGED <<known, ops, disk>>
             \/ \E a \in Actions, s \in {"running", "blocked", "failed"} :
                  /\ ops = <<>> /\ ops' \in {Saves, Append(Saves, Block)}
                  /\ loop' = [loop EXCEPT !.status[a] = s] /\ UNCHANGED <<known, disk>>
             \/ UNCHANGED <<loop, known>>
  <2>0. flight[w].pc # "idle" => flight[w].action \in Actions
    BY FlightType DEF TypeOK
  <2>1. ASSUME NEW item \in Items, Deliver(w, item)
        PROVE  /\ flight[w].action \in Domains /\ ops = <<>> /\ ops' = Saves /\ Live
               /\ loop' = Submitted(flight[w].action, item) /\ UNCHANGED <<known, disk>>
    BY <2>1 DEF Deliver, Waiting, LockFree, Accepts
  <2>2. CASE DeliverMalformed(w)
    BY <2>2 DEF DeliverMalformed, Waiting, LockFree
  <2>3. ASSUME NEW blocks \in BOOLEAN, Raise(w, blocks)
        PROVE  /\ flight[w].action \in Actions /\ ops = <<>>
               /\ ops' \in {Saves, Append(Saves, Block)}
               /\ loop' = [loop EXCEPT !.status[flight[w].action] = "blocked"]
               /\ UNCHANGED <<known, disk>>
    <3>1. ops' = IF blocks THEN Append(Saves, Block) ELSE Saves
      BY <2>3 DEF Raise
    <3>2. ops' \in {Saves, Append(Saves, Block)}
      <4> CASE blocks
        BY <3>1
      <4> CASE ~blocks
        BY <3>1
      <4> QED
        OBVIOUS
    <3> QED
      BY <2>0, <2>3, <3>2 DEF Raise, Waiting, LockFree
  <2>4. CASE Dispatch(w)
    <3>1. /\ flight[w].action \in Actions /\ ops = <<>> /\ ops' = Saves
          /\ loop' = [loop EXCEPT !.status[flight[w].action] = "running"]
          /\ UNCHANGED <<known, disk>>
      BY <2>0, <2>4 DEF Dispatch, Waiting, LockFree
    <3> QED
      BY <3>1
  <2>5. CASE TimeoutAction(w)
    <3> DEFINE a == flight[w].action
               s == IF Bounded(strikes[a] + 1) = MaxStrikes THEN "failed" ELSE "blocked"
    <3>1. /\ a \in Actions /\ ops = <<>> /\ ops' = Append(Saves, Block)
          /\ loop' = [loop EXCEPT !.status[a] = s]
          /\ UNCHANGED <<known, disk>>
      BY <2>0, <2>5 DEF TimeoutAction, LockFree
    <3>2. s \in {"running", "blocked", "failed"}
      OBVIOUS
    <3> HIDE DEF a, s
    <3> QED
      BY <3>1, <3>2
  <2>6. ASSUME NEW a, Claim(w, a) PROVE UNCHANGED <<loop, known>>
    BY <2>6 DEF Claim
  <2>7. Refuse(w) \/ DeliverRefused(w) \/ Release(w) \/ Expire(w) => UNCHANGED <<loop, known>>
    BY DEF Refuse, DeliverRefused, Release, Expire
  <2> QED
    BY <1>5, <2>1, <2>2, <2>3, <2>4, <2>5, <2>6, <2>7 DEF Worker
<1>6. CASE UNCHANGED vars \/ StartRefused
  BY <1>6 DEF vars, memory, StartRefused
<1> QED
  BY <1>1, <1>2, <1>3, <1>4, <1>5, <1>6 DEF Next

-----------------------------------------------------------------------------
(* Evidence and the last successes behind it.                               *)

\* What accepting an item changes, domain by domain.
LEMMA SubmittedParts ==
  ASSUME loop \in LoopStates, NEW a \in Domains, NEW item \in Items
  PROVE  /\ Submitted(a, item).evidence[a] = Kept(a, item)
         /\ Submitted(a, item).lastSourced[a]
              = IF IsUsable(item) THEN Kept(a, item).from ELSE loop.lastSourced[a]
         /\ Submitted(a, item).status[a]
              = IF IsUsable(Kept(a, item)) THEN "completed" ELSE "failed"
         /\ \A d \in Domains \ {a} :
              /\ Submitted(a, item).evidence[d] = loop.evidence[d]
              /\ Submitted(a, item).lastSourced[d] = loop.lastSourced[d]
              /\ Submitted(a, item).status[d] = loop.status[d]
<1> DEFINE kept == Kept(a, item)
           done == IF IsUsable(kept) THEN "completed" ELSE "failed"
           last == IF IsUsable(item) THEN kept.from ELSE loop.lastSourced[a]
           next == [loop.status EXCEPT ![a] = done, !["planner"] = "waiting"]
<1>1. Submitted(a, item) = [loop EXCEPT !.evidence = [loop.evidence EXCEPT ![a] = kept],
                                        !.lastSourced = [loop.lastSourced EXCEPT ![a] = last],
                                        !.status = next]
  BY DEF Submitted, LoopStates
<1>2. /\ \A d \in Domains : next[d] = IF d = a THEN done ELSE loop.status[d]
  BY DEF LoopStates, Domains, Actions
<1> HIDE DEF kept, done, last, next
<1>3. /\ Submitted(a, item).evidence = [loop.evidence EXCEPT ![a] = kept]
      /\ Submitted(a, item).lastSourced = [loop.lastSourced EXCEPT ![a] = last]
      /\ Submitted(a, item).status = next
  BY <1>1 DEF LoopStates
<1>4. /\ Submitted(a, item).evidence[a] = kept /\ Submitted(a, item).lastSourced[a] = last
      /\ \A d \in Domains \ {a} :
           /\ Submitted(a, item).evidence[d] = loop.evidence[d]
           /\ Submitted(a, item).lastSourced[d] = loop.lastSourced[d]
  BY <1>3 DEF LoopStates, EvidenceMaps
<1>5. /\ Submitted(a, item).status[a] = done
      /\ \A d \in Domains \ {a} : Submitted(a, item).status[d] = loop.status[d]
  BY <1>2, <1>3
<1> QED
  BY <1>4, <1>5 DEF kept, done, last

\* A kept item is usable when the item is, or when there was a success before,
\* and a usable item has intents it was collected for.
LEMMA KeptUsable ==
  ASSUME loop \in LoopStates, NEW a \in Domains, NEW item \in Items
  PROVE  /\ IsUsable(Kept(a, item)) <=> IsUsable(item) \/ loop.lastSourced[a] # {}
         /\ \A i \in Items : IsUsable(i) <=> i.from # {}
<1>1. \A i \in Items : IsUsable(i) <=> i.from # {}
  BY DEF Items, IsUsable, Absent, Missing
<1>2. IsUsable(Kept(a, item)) <=> IsUsable(item) \/ loop.lastSourced[a] # {}
  BY DEF Kept, IsUsable, Usable, Missing
<1> QED
  BY <1>1, <1>2

\* A new loop has a last success exactly where it was given usable evidence.
LEMMA NewLoopParts ==
  ASSUME NEW e \in EvidenceMaps, NEW r
  PROVE  /\ NewLoop(e, r).evidence = e
         /\ \A d \in Domains :
              /\ IsUsable(e[d]) <=> NewLoop(e, r).lastSourced[d] # {}
              /\ NewLoop(e, r).status[d] = "completed" <=> IsUsable(e[d])
<1>1. \A d \in Domains : IsUsable(e[d]) <=> e[d].from # {}
  <2>1. \A i \in Items : IsUsable(i) <=> i.from # {}
    BY DEF Items, IsUsable, Absent, Missing
  <2> QED
    BY <2>1 DEF EvidenceMaps
<1> QED
  BY <1>1 DEF NewLoop, Domains, Actions

\* What start_action_loop attaches is the evidence of the operation, but for a
\* missing web item.
LEMMA AttachedParts ==
  ASSUME NEW e \in EvidenceMaps, NEW f \in Attached(e)
  PROVE  f \in EvidenceMaps /\ \A d \in Domains : IsUsable(e[d]) => f[d] = e[d]
<1>1. CASE f = e
  BY <1>1
<1>2. CASE f = [e EXCEPT !["web"] = Absent] /\ e["web"] = Missing
  <2>1. Absent \in Items /\ ~IsUsable(e["web"])
    BY <1>2 DEF Items, IsUsable, Missing
  <2>2. f \in EvidenceMaps /\ \A d \in Domains \ {"web"} : f[d] = e[d]
    BY <1>2, <2>1 DEF EvidenceMaps
  <2> QED
    BY <2>1, <2>2
<1> QED
  BY <1>1, <1>2 DEF Attached

\* The evidence a section starts a loop with is an evidence map.
LEMMA StartLoopParts ==
  ASSUME TypeOK, StartLoop
  PROVE  /\ Head(ops).evidence \in EvidenceMaps /\ Head(ops).do = "start"
         /\ \E e \in Attached(Head(ops).evidence) : loop' = NewLoop(e, run.result)
<1>1. Head(ops) \in Ops /\ Head(ops).do = "start"
  BY DoingType DEF StartLoop, TypeOK
<1>2. Head(ops).evidence \in EvidenceMaps
  BY <1>1 DEF Ops, SaveStatus, SaveEvidence, Block
<1> QED
  BY <1>1, <1>2 DEF StartLoop

\* Where no read collects, last successes and usable evidence go together in the
\* loop and in its file.
Tracked(e, last) == \A d \in Domains : IsUsable(e[d]) <=> last[d] # {}
TrackInv == /\ Tracked(loop.evidence, loop.lastSourced)
            /\ fileEvidence # NoFile
                 => Tracked(fileEvidence.evidence, fileEvidence.lastSourced)
            /\ reader.pc = "idle"

\* Every loop there is keeps track of its last successes.
LEMMA LoopTracked ==
  ASSUME TypeOK, TrackInv, [Next]_vars PROVE Tracked(loop.evidence, loop.lastSourced)'
<1>0. loop \in LoopStates
  BY DEF TypeOK
<1>1. CASE StartLoop
  <2>1. PICK e \in Attached(Head(ops).evidence) : loop' = NewLoop(e, run.result)
    BY <1>1, StartLoopParts
  <2>2. e \in EvidenceMaps
    BY <1>1, StartLoopParts, AttachedParts
  <2> QED
    BY <2>1, <2>2, NewLoopParts DEF Tracked
<1>2. CASE ResumeMissing
  BY <1>2, NewLoopParts, NoEvidenceType DEF ResumeMissing, Tracked
<1>3. CASE Crash
  <2>1. CASE Loadable = "live"
    <3>1. fileEvidence # NoFile
      BY <2>1 DEF Loadable
    <3>2. /\ loop'.evidence = fileEvidence.evidence
          /\ loop'.lastSourced = fileEvidence.lastSourced
      BY <1>3, <2>1 DEF Crash, Reloaded
    <3> QED
      BY <3>1, <3>2 DEF TrackInv, Tracked
  <2>2. CASE Loadable # "live"
    BY <1>3, <2>2, NewLoopParts, NoEvidenceType DEF Crash, Reloaded, Tracked
  <2> QED
    BY <2>1, <2>2
<1>4. ASSUME NEW a \in Domains, NEW item \in Items, loop' = Submitted(a, item)
      PROVE  Tracked(loop.evidence, loop.lastSourced)'
  <2>1. Kept(a, item) \in Items
    BY <1>0, KeptType
  <2>2. IsUsable(Kept(a, item)) <=>
          (IF IsUsable(item) THEN Kept(a, item).from ELSE loop.lastSourced[a]) # {}
    BY <1>0, <2>1, KeptUsable
  <2>3. \A d \in Domains : IsUsable(loop.evidence[d]) <=> loop.lastSourced[d] # {}
    BY DEF TrackInv, Tracked
  <2>4. \A d \in Domains :
          IsUsable(Submitted(a, item).evidence[d]) <=> Submitted(a, item).lastSourced[d] # {}
    BY <1>0, <2>2, <2>3, SubmittedParts
  <2> QED
    BY <1>4, <2>4 DEF Tracked
<1>5. ASSUME UNCHANGED <<loop.evidence, loop.lastSourced>>
      PROVE  Tracked(loop.evidence, loop.lastSourced)'
  BY <1>5 DEF TrackInv, Tracked
<1>6. ASSUME NEW a \in Domains, loop' = Malformed(a)
      PROVE  UNCHANGED <<loop.evidence, loop.lastSourced>>
  BY <1>0, <1>6 DEF Malformed, LoopStates
<1>7. ASSUME NEW a \in Actions, NEW s, loop' = [loop EXCEPT !.status[a] = s]
      PROVE  UNCHANGED <<loop.evidence, loop.lastSourced>>
  BY <1>0, <1>7 DEF LoopStates
<1>8. ASSUME NEW w \in Workers, NEW result \in Results, NEW shown \in BOOLEAN,
             LandPlan(w, result, shown)
      PROVE  UNCHANGED <<loop.evidence, loop.lastSourced>>
  BY <1>0, <1>8 DEF LandPlan, LoopStates
<1>9. ~FinishRead
  BY DEF FinishRead, TrackInv
<1>10. CASE UNCHANGED <<loop, known>>
  BY <1>10, <1>5
<1> QED
  BY <1>1, <1>2, <1>3, <1>4, <1>5, <1>6, <1>7, <1>8, <1>9, <1>10, LoopSteps

\* Only a section writes the files of the loop, and its evidence file with what
\* the loop holds.
LEMMA FileSteps ==
  ASSUME TypeOK, [Next]_vars
  PROVE  /\ UNCHANGED <<fileStatus, fileEvidence>> \/ Section
         /\ UNCHANGED fileEvidence \/ WriteEvidence
<1>1. ASSUME Section PROVE UNCHANGED fileEvidence \/ WriteEvidence
  BY <1>1 DEF Section, StartLoop, WriteStatus, RecordResult, InstallPlan, CompleteRun,
             BlockRun, disk
<1>2. Host => UNCHANGED <<fileStatus, fileEvidence>>
  BY DEF Host, HostStart, HostRestart, ResumeMissing, HostSubmit, HostSubmitMalformed, disk
<1>3. Reader => UNCHANGED <<fileStatus, fileEvidence>>
  BY DEF Reader, BeginRead, FinishRead, disk
<1>4. Editor => UNCHANGED <<fileStatus, fileEvidence>>
  BY DEF Editor, EditRead, EditPrepare, EditStart, EditRaises, EditInstall, EditComplete,
         EditFails, EditFail, EditSteps, disk
<1>5. (Crash \/ \E d \in Drivers : Driver(d)) => UNCHANGED <<fileStatus, fileEvidence>>
  BY DEF Crash, Driver, Settle, Decide, disk
<1>6. ASSUME NEW w \in Workers, Worker(w) PROVE UNCHANGED <<fileStatus, fileEvidence>>
  BY <1>6 DEF Worker, Claim, Dispatch, Refuse, Deliver, DeliverMalformed, DeliverRefused, Raise,
             LandPlan, Release, Expire, TimeoutAction, disk
<1>7. UNCHANGED vars \/ StartRefused => UNCHANGED <<fileStatus, fileEvidence>>
  BY DEF vars, disk, StartRefused
<1> QED
  BY <1>1, <1>2, <1>3, <1>4, <1>5, <1>6, <1>7 DEF Next

\* Without collecting reads no read is ever under way.
LEMMA NoReads ==
  ASSUME ~WebReads, TypeOK, reader.pc = "idle", [Next]_vars PROVE (reader.pc = "idle")'
<1>1. CASE Section
  BY <1>1, SectionFrame
<1>2. CASE Host
  BY <1>2 DEF Host, HostStart, HostRestart, ResumeMissing, HostSubmit, HostSubmitMalformed
<1>3. CASE Reader
  BY <1>3 DEF Reader, BeginRead, FinishRead
<1>4. CASE Editor \/ Crash \/ \E d \in Drivers : Driver(d)
  BY <1>4 DEF Editor, EditRead, EditPrepare, EditStart, EditRaises, EditInstall, EditComplete,
             EditFails, EditFail, EditSteps, Crash, Driver, Settle, Decide
<1>5. ASSUME NEW w \in Workers, Worker(w) PROVE UNCHANGED reader
  BY <1>5 DEF Worker, Claim, Dispatch, Refuse, Deliver, DeliverMalformed, DeliverRefused, Raise,
             LandPlan, Release, Expire, TimeoutAction
<1>6. CASE UNCHANGED vars \/ StartRefused
  BY <1>6 DEF vars, memory, StartRefused
<1> QED
  BY <1>1, <1>2, <1>3, <1>4, <1>5, <1>6 DEF Next

\* The evidence, its file and the absence of reads are kept together.
LEMMA TrackStep ==
  ASSUME ~WebReads, TypeOK, TrackInv, [Next]_vars PROVE TrackInv'
<1>1. Tracked(loop.evidence, loop.lastSourced)'
  BY LoopTracked
<1>2. (reader.pc = "idle")'
  BY NoReads DEF TrackInv
<1>3. (fileEvidence # NoFile => Tracked(fileEvidence.evidence, fileEvidence.lastSourced))'
  <2>1. CASE UNCHANGED fileEvidence
    BY <2>1 DEF TrackInv, Tracked
  <2>2. CASE WriteEvidence
    <3>1. /\ fileEvidence'.evidence = loop.evidence
          /\ fileEvidence'.lastSourced = loop.lastSourced
      BY <2>2 DEF WriteEvidence
    <3> QED
      BY <3>1 DEF TrackInv, Tracked
  <2> QED
    BY <2>1, <2>2, FileSteps
<1> QED
  BY <1>1, <1>2, <1>3 DEF TrackInv

\* Where no read collects, the last success a failed refresh falls back to
\* exists exactly where the loop shows usable evidence, through restarts of the
\* loop and crashes between its two files too.
THEOREM EvidenceTracked ==
  ASSUME ~WebReads PROVE Spec => []FallbackTracksEvidence
<1>1. Init => TrackInv
  <2> SUFFICES ASSUME Init PROVE TrackInv
    OBVIOUS
  <2>1. Tracked(loop.evidence, loop.lastSourced)
    BY NewLoopParts, NoEvidenceType DEF Init, Tracked
  <2> QED
    BY <2>1 DEF Init, TrackInv
<1>2. TypeOK /\ TrackInv /\ [Next]_vars => TrackInv'
  BY TrackStep
<1>3. TrackInv => FallbackTracksEvidence
  BY DEF TrackInv, Tracked, FallbackTracksEvidence
<1> QED
  BY <1>1, <1>2, <1>3, TypeCorrect, PTL DEF Spec

-----------------------------------------------------------------------------
(* Completed domains, and evidence that survives, while nothing crashes.    *)

\* Without crashes none happens.
LEMMA NoCrashes == ASSUME MaxCrashes = 0, TypeOK PROVE ~Crash
  BY DEF Crash, TypeOK

\* A completed domain shows usable evidence, whether or not the loop is live.
DoneInv == \A d \in Domains : loop.status[d] = "completed" => IsUsable(loop.evidence[d])

\* Every step that completes a domain has usable evidence for it.
LEMMA DoneStep ==
  ASSUME MaxCrashes = 0, reader.pc = "idle", TypeOK, DoneInv, [Next]_vars PROVE DoneInv'
<1>0. loop \in LoopStates /\ ~Crash /\ ~FinishRead
  BY NoCrashes DEF TypeOK, FinishRead
<1>1. CASE StartLoop
  <2>1. PICK e \in Attached(Head(ops).evidence) : loop' = NewLoop(e, run.result)
    BY <1>1, StartLoopParts
  <2>2. e \in EvidenceMaps
    BY <1>1, StartLoopParts, AttachedParts
  <2> QED
    BY <2>1, <2>2, NewLoopParts DEF DoneInv
<1>2. CASE ResumeMissing
  BY <1>2, NewLoopParts, NoEvidenceType DEF ResumeMissing, DoneInv
<1>3. ASSUME NEW a \in Domains, NEW item \in Items, loop' = Submitted(a, item)
      PROVE  DoneInv'
  <2>1. \A d \in Domains : Submitted(a, item).status[d] = "completed"
                             => IsUsable(Submitted(a, item).evidence[d])
    BY <1>0, SubmittedParts DEF DoneInv
  <2> QED
    BY <1>3, <2>1 DEF DoneInv
<1>4. ASSUME NEW a \in Domains, loop' = Malformed(a) PROVE DoneInv'
  <2>1. \A d \in Domains : /\ Malformed(a).evidence[d] = loop.evidence[d]
                           /\ Malformed(a).status[d] \in {loop.status[d], "running"}
    BY <1>0 DEF Malformed, LoopStates, Domains, Actions
  <2> QED
    BY <1>4, <2>1 DEF DoneInv
<1>5. ASSUME NEW a \in Actions, NEW s \in {"running", "blocked", "failed"},
             loop' = [loop EXCEPT !.status[a] = s]
      PROVE  DoneInv'
  <2>1. \A d \in Domains : /\ loop'.evidence[d] = loop.evidence[d]
                           /\ loop'.status[d] \in {loop.status[d], s}
    BY <1>0, <1>5 DEF LoopStates, Domains, Actions
  <2> QED
    BY <2>1 DEF DoneInv
<1>6. ASSUME NEW w \in Workers, NEW result \in Results, NEW shown \in BOOLEAN,
             LandPlan(w, result, shown)
      PROVE  DoneInv'
  <2>1. \A d \in Domains : /\ loop'.evidence[d] = loop.evidence[d]
                           /\ loop'.status[d] = loop.status[d]
    BY <1>0, <1>6 DEF LandPlan, LoopStates, Domains, Actions
  <2> QED
    BY <2>1 DEF DoneInv
<1>7. CASE UNCHANGED <<loop, known>>
  BY <1>7 DEF DoneInv
<1> QED
  BY <1>0, <1>1, <1>2, <1>3, <1>4, <1>5, <1>6, <1>7, LoopSteps

\* Where no read collects and nothing crashes, a domain reported completed has
\* usable evidence for the planner.
THEOREM CompletedIsUsable ==
  ASSUME ~WebReads, MaxCrashes = 0 PROVE Spec => []CompletedHasEvidence
<1>1. Init => DoneInv /\ reader.pc = "idle"
  BY NewLoopParts, NoEvidenceType DEF Init, DoneInv
<1>2. TypeOK /\ (DoneInv /\ reader.pc = "idle") /\ [Next]_vars
        => (DoneInv /\ reader.pc = "idle")'
  BY DoneStep, NoReads
<1>3. DoneInv => CompletedHasEvidence
  BY DEF DoneInv, CompletedHasEvidence
<1> QED
  BY <1>1, <1>2, <1>3, TypeCorrect, PTL DEF Spec

\* A loop that does not exist shows no evidence, and the evidence a section is
\* about to start a loop with takes nothing usable away without dropping it.
HandInv == /\ known = "none" => loop.evidence = NoEvidence
           /\ ops # <<>> /\ Head(ops).do = "start" =>
                \A d \in Domains : IsUsable(loop.evidence[d]) =>
                  Head(ops).evidence[d] = Absent \/ IsUsable(Head(ops).evidence[d])
SurviveInv == QueueOK /\ TrackInv /\ HandInv

\* The queue a start begins with.
LEMMA OpeningHead ==
  ASSUME NEW e, ops' = Opening(e)
  PROVE  ops' # <<>> /\ Head(ops') = Str(e) /\ Head(ops').evidence = e
<1>1. ops' = <<Str(e), SaveStatus, SaveEvidence>>
  BY QueuesMade
<1>2. ops' # <<>> /\ Head(ops') = Str(e)
  BY <1>1
<1> QED
  BY <1>2, OpNames

\* A section never goes on to start a loop: it begins with that.
LEMMA StartsFirst ==
  ASSUME QueueOK, ops # <<>>, Tail(ops) # <<>>
  PROVE  Head(Tail(ops)).do # "start"
<1>1. \A q \in Saving : q # <<>> => Head(q).do # "start"
  <2>1. \A q \in Saving : q # <<>> => Head(q) \in {SaveStatus, SaveEvidence, Block}
    BY DEF Saving
  <2> QED
    BY <2>1, OpNames
<1>2. <<SaveStatus, SaveEvidence>> \in Saving
  BY DEF Saving
<1>3. CASE ops \in Saving \union Starting \union Drafting
  BY <1>1, <1>2, <1>3, QueueTail
<1>4. ASSUME NEW r \in Plans, ops \in Showing(r) PROVE Head(Tail(ops)).do # "start"
  <2>1. Tail(ops) \in Showing(r)
    BY <1>4, QueueTail
  <2>2. \A q \in Showing(r) : Head(q) \in {Rec(r), SaveStatus, SaveEvidence, Ins(r), Com(r)}
    <3> HIDE DEF Rec, Ins, Com, SaveStatus, SaveEvidence
    <3> QED
      BY DEF Showing
  <2> QED
    BY <2>1, <2>2, OpNames
<1> QED
  BY <1>3, <1>4 DEF QueueOK, Landing

\* The step of an evidence that is handed on.
LEMMA HandStep ==
  ASSUME MaxCrashes = 0, TypeOK, SurviveInv, [Next]_vars PROVE HandInv'
<1>0. loop \in LoopStates /\ ~Crash /\ ~FinishRead
  BY NoCrashes DEF TypeOK, FinishRead, SurviveInv, TrackInv
<1>1. \/ Section \/ ResumeMissing \/ (ops = <<>> /\ Live /\ UNCHANGED known)
      \/ UNCHANGED <<loop.evidence, known>>
  <2>1. ASSUME NEW a \in Domains, loop' = Malformed(a) PROVE UNCHANGED loop.evidence
    BY <1>0, <2>1 DEF Malformed, LoopStates
  <2>2. ASSUME NEW a \in Actions, NEW s, loop' = [loop EXCEPT !.status[a] = s]
        PROVE  UNCHANGED loop.evidence
    BY <1>0, <2>2 DEF LoopStates
  <2>3. ASSUME NEW w \in Workers, NEW result \in Results, NEW shown \in BOOLEAN,
               LandPlan(w, result, shown)
        PROVE  UNCHANGED <<loop.evidence, known>>
    BY <1>0, <2>3 DEF LandPlan, LoopStates
  <2> QED
    BY <1>0, <2>1, <2>2, <2>3, LoopSteps DEF Section
<1>2. (known = "none" => loop.evidence = NoEvidence)'
  <2>1. CASE Section
    BY <2>1, SectionFrame DEF StartLoop, SurviveInv, HandInv
  <2>2. CASE ResumeMissing
    BY <2>2 DEF ResumeMissing
  <2>3. CASE UNCHANGED <<loop.evidence, known>>
    BY <2>3 DEF SurviveInv, HandInv
  <2> QED
    BY <1>1, <2>1, <2>2, <2>3 DEF Live
<1> DEFINE Hands == ops # <<>> /\ Head(ops).do = "start" =>
                      \A d \in Domains : IsUsable(loop.evidence[d]) =>
                        Head(ops).evidence[d] = Absent \/ IsUsable(Head(ops).evidence[d])
<1>3. Hands'
  <2>1. CASE Section
    BY <2>1, SectionFrame, StartsFirst DEF SurviveInv
  <2>2. ASSUME ops = <<>>, ops' \in Saving \union Landing PROVE Hands'
    <3>1. QueueOK'
      BY <2>2 DEF QueueOK
    <3>2. \A q \in Saving : q # <<>> => Head(q) \in {SaveStatus, SaveEvidence, Block}
      BY DEF Saving
    <3>3. \A q \in Saving : q # <<>> => Head(q).do # "start"
      BY <3>2, OpNames
    <3>4. \A r \in Plans : \A q \in Showing(r) :
            Head(q) \in {Rec(r), SaveStatus, SaveEvidence, Ins(r), Com(r)}
      <4> HIDE DEF Rec, Ins, Com, SaveStatus, SaveEvidence
      <4> QED
        BY DEF Showing
    <3>5. \A q \in Drafting : \E r \in Plans \union {Unfinished} : Head(q) = Rec(r)
      BY DEF Drafting
    <3>6. \A q \in Landing : Head(q).do # "start"
      BY <3>4, <3>5, OpNames DEF Landing
    <3> QED
      BY <2>2, <3>3, <3>6
  <2>3. ASSUME NEW e \in Seeds, HostStart(e) PROVE Hands'
    <3>1. ops' # <<>> /\ Head(ops').evidence = e
      BY <2>3, OpeningHead DEF HostStart
    <3>2. UNCHANGED loop /\ (e # NoEvidence => loop.evidence = NoEvidence)
      BY <2>3 DEF HostStart, SurviveInv, HandInv
    <3>3. \A d \in Domains : NoEvidence[d] = Absent /\ ~IsUsable(NoEvidence[d])
      BY DEF NoEvidence, IsUsable, Absent
    <3> QED
      BY <3>1, <3>2, <3>3
  <2>4. ASSUME NEW i \in Intents, HostRestart(i) PROVE Hands'
    <3>1. ops' # <<>> /\ Head(ops').evidence = Reusable(i)
      BY <2>4, OpeningHead DEF HostRestart
    <3>2. UNCHANGED loop
      BY <2>4 DEF HostRestart
    <3>3. \A d \in Domains : Reusable(i)[d] \in {Absent, loop.evidence[d]}
      BY DEF Reusable
    <3> QED
      BY <3>1, <3>2, <3>3
  <2>5. CASE UNCHANGED ops /\ ~Section
    <3>1. CASE ops = <<>>
      BY <2>5, <3>1
    <3>2. CASE ops # <<>>
      <4>1. UNCHANGED loop.evidence
        BY <1>1, <2>5, <3>2 DEF ResumeMissing, LockFree
      <4> QED
        BY <2>5, <4>1 DEF SurviveInv, HandInv
    <3> QED
      BY <3>1, <3>2
  <2>6. CASE ops' = <<>>
    BY <2>6
  <2> HIDE DEF Hands
  <2> QED
    BY <1>0, <2>1, <2>2, <2>3, <2>4, <2>5, <2>6, QueueSteps
<1> QED
  BY <1>2, <1>3 DEF HandInv

\* Where no read collects and nothing crashes, evidence that was once usable stays
\* usable: a failed refresh, a timeout, a late failure, a revision or an edit
\* never takes it away, only a new loop that was not given it.
THEOREM EvidenceSurvives ==
  ASSUME ~WebReads, MaxCrashes = 0 PROVE Spec => UsableEvidenceSurvives
<1>1. Init => SurviveInv
  <2> SUFFICES ASSUME Init PROVE SurviveInv
    OBVIOUS
  <2>1. Tracked(loop.evidence, loop.lastSourced) /\ loop.evidence = NoEvidence
    BY NewLoopParts, NoEvidenceType DEF Init, Tracked
  <2>2. ops \in Saving
    BY DEF Init, Saving
  <2> QED
    BY <2>1, <2>2 DEF Init, SurviveInv, TrackInv, HandInv, QueueOK
<1>2. TypeOK /\ SurviveInv /\ [Next]_vars => SurviveInv'
  BY QueueInv, TrackStep, HandStep DEF SurviveInv
<1>3. TypeOK /\ SurviveInv /\ [Next]_vars =>
        [\A d \in Domains :
           IsUsable(loop.evidence[d]) =>
             \/ IsUsable(loop'.evidence[d])
             \/ ops # <<>> /\ Head(ops).do = "start"
                  /\ Head(ops).evidence[d] = Absent]_vars
  <2> SUFFICES ASSUME TypeOK, SurviveInv, [Next]_vars, NEW d \in Domains,
                      IsUsable(loop.evidence[d])
               PROVE  \/ IsUsable(loop'.evidence[d])
                      \/ ops # <<>> /\ Head(ops).do = "start"
                           /\ Head(ops).evidence[d] = Absent
    OBVIOUS
  <2>0. loop \in LoopStates /\ ~Crash /\ ~FinishRead
    BY NoCrashes DEF TypeOK, FinishRead, SurviveInv, TrackInv
  <2>1. CASE StartLoop
    <3>1. PICK e \in Attached(Head(ops).evidence) : loop' = NewLoop(e, run.result)
      BY <2>1, StartLoopParts
    <3>2. /\ Head(ops).evidence \in EvidenceMaps /\ Head(ops).do = "start" /\ ops # <<>>
          /\ e \in EvidenceMaps
      BY <2>1, StartLoopParts, AttachedParts DEF StartLoop, Doing
    <3>3. Head(ops).evidence[d] = Absent \/ IsUsable(Head(ops).evidence[d])
      BY <3>2 DEF SurviveInv, HandInv
    <3>4. IsUsable(Head(ops).evidence[d]) => e[d] = Head(ops).evidence[d]
      BY <3>2, AttachedParts
    <3> QED
      BY <3>1, <3>2, <3>3, <3>4, NewLoopParts
  <2>2. CASE ResumeMissing
    BY <2>2 DEF ResumeMissing, SurviveInv, HandInv, NoEvidence, IsUsable, Absent
  <2>3. ASSUME NEW a \in Domains, NEW item \in Items, loop' = Submitted(a, item)
        PROVE  IsUsable(loop'.evidence[d])
    <3>1. loop.lastSourced[d] # {}
      BY DEF SurviveInv, TrackInv, Tracked
    <3>2. CASE d = a
      BY <2>0, <2>3, <3>1, <3>2, KeptUsable, SubmittedParts
    <3>3. CASE d # a
      BY <2>0, <2>3, <3>3, SubmittedParts
    <3> QED
      BY <3>2, <3>3
  <2>4. ASSUME NEW a \in Domains, loop' = Malformed(a) PROVE UNCHANGED loop.evidence
    BY <2>0, <2>4 DEF Malformed, LoopStates
  <2>5. ASSUME NEW a \in Actions, NEW s, loop' = [loop EXCEPT !.status[a] = s]
        PROVE  UNCHANGED loop.evidence
    BY <2>0, <2>5 DEF LoopStates
  <2>6. ASSUME NEW w \in Workers, NEW result \in Results, NEW shown \in BOOLEAN,
               LandPlan(w, result, shown)
        PROVE  UNCHANGED loop.evidence
    BY <2>0, <2>6 DEF LandPlan, LoopStates
  <2> QED
    BY <2>0, <2>1, <2>2, <2>3, <2>4, <2>5, <2>6, LoopSteps
<1> QED
  BY <1>1, <1>2, <1>3, TypeCorrect, PTL DEF Spec, UsableEvidenceSurvives

-----------------------------------------------------------------------------
(* The plan of a completed run, while nobody edits it.                      *)

\* No thread is computing a plan, and the run is not completed.
NoPlanner == \A w \in Workers : ~(flight[w].pc = "flying" /\ flight[w].action = "planner")
Unplanned == run.status # "COMPLETED" /\ NoPlanner

\* A completed run has no planner under way; a section that lands a plan works on
\* a run that is not completed; what it completes with is what is installed.
ServeInv == /\ editor.pc = "idle"
            /\ run.status = "COMPLETED" => NoPlanner
            /\ ops \in Saving \union Starting \/ Unplanned
            /\ ops # <<>> /\ Head(ops).do = "complete"
                 => installed = Head(ops).result /\ installed.kind = "plan"
            /\ CompletedServesInstalledPlan

\* Operations that record, install or complete belong to a plan that lands.
LEMMA LandingHeads ==
  ASSUME QueueOK, ops # <<>>, Head(ops).do \in {"record", "install", "complete"}
  PROVE  /\ ops \notin Saving \union Starting
         /\ Head(ops).do # "record" => \E r \in Plans : Head(ops).result = r
         /\ Head(ops).result \in Plans \union {Unfinished}
<1>1. ops \notin Saving \union Starting
  BY QueueHeads, OpNames
<1>2. CASE ops \in Drafting
  <2>1. PICK r \in Plans \union {Unfinished} : Head(ops) = Rec(r)
    BY <1>2, QueueHeads
  <2> QED
    BY <1>1, <2>1, OpNames
<1>3. ASSUME NEW r \in Plans, ops \in Showing(r) PROVE Head(ops).result = r
  BY <1>3, QueueHeads, OpNames
<1> QED
  BY <1>1, <1>2, <1>3 DEF QueueOK, Landing

\* A plan has the kind of a plan.
LEMMA PlanKind == \A r \in Plans : r.kind = "plan" /\ r # NoResult
  BY DEF Plans, PlanFor, NoResult

\* Where nobody may edit, nobody does.
LEMMA NoEdits ==
  ASSUME MaxEdits = 0, TypeOK, editor.pc = "idle", [Next]_vars
  PROVE  (editor.pc = "idle")' /\ ~Editor
<1>1. ~Editor
  BY DEF Editor, EditRead, EditPrepare, EditStart, EditRaises, EditInstall, EditComplete,
         EditFails, EditFail, EditGoes, EditEnds, TypeOK
<1>2. ASSUME Section PROVE (editor.pc = "idle")'
  BY <1>2, SectionFrame
<1>3. ASSUME Host PROVE (editor.pc = "idle")'
  BY <1>3 DEF Host, HostStart, HostRestart, ResumeMissing, HostSubmit, HostSubmitMalformed
<1>4. ASSUME Reader PROVE (editor.pc = "idle")'
  BY <1>4 DEF Reader, BeginRead, FinishRead
<1>5. ASSUME Crash \/ \E d \in Drivers : Driver(d) PROVE (editor.pc = "idle")'
  BY <1>5 DEF Crash, Driver, Settle, Decide
<1>6. ASSUME NEW w \in Workers, Worker(w) PROVE UNCHANGED editor
  BY <1>6 DEF Worker, Claim, Dispatch, Refuse, Deliver, DeliverMalformed, DeliverRefused, Raise,
             LandPlan, Release, Expire, TimeoutAction
<1>7. ASSUME UNCHANGED vars \/ StartRefused PROVE (editor.pc = "idle")'
  BY <1>7 DEF vars, memory, StartRefused
<1> QED
  BY <1>1, <1>2, <1>3, <1>4, <1>5, <1>6, <1>7 DEF Next

\* What the steps of a thread do to who computes a plan: only a dispatch, of a run
\* that is then RUNNING, sets a planner going.
LEMMA PlannerSteps ==
  ASSUME TypeOK, NEW w \in Workers, Worker(w)
  PROVE  \/ (NoPlanner => NoPlanner')
         \/ run'.status = "RUNNING" /\ ops' \in Saving
<1>0. Saves \in Saving
  BY QueuesMade DEF Saving
<1>1. ASSUME NEW f, flight' = [flight EXCEPT ![w] = f],
             \/ f.pc # "flying"
             \/ f.pc = flight[w].pc /\ f.action = flight[w].action
      PROVE  NoPlanner => NoPlanner'
  <2>1. \A v \in Workers : flight'[v] = IF v = w THEN f ELSE flight[v]
    BY <1>1 DEF TypeOK
  <2> QED
    BY <1>1, <2>1 DEF NoPlanner
<1>2. ASSUME NEW pc \in {"landed", "refused"}, MoveTo(w, pc), flight[w].pc # "idle"
      PROVE  NoPlanner => NoPlanner'
  <2> DEFINE f == [flight[w] EXCEPT !.pc = pc]
  <2>1. f.pc = pc
    BY <1>2, FlightType DEF TypeOK
  <2>2. flight' = [flight EXCEPT ![w] = f]
    BY <1>2 DEF MoveTo
  <2> HIDE DEF f
  <2> QED
    BY <1>1, <2>1, <2>2
<1>3. CASE \/ Refuse(w) \/ DeliverMalformed(w) \/ DeliverRefused(w)
           \/ \E item \in Items : Deliver(w, item)
           \/ \E blocks \in BOOLEAN : Raise(w, blocks)
           \/ \E result \in Results, shown \in BOOLEAN : LandPlan(w, result, shown)
  <2>1. flight[w].pc # "idle"
    BY <1>3 DEF Refuse, DeliverMalformed, DeliverRefused, Deliver, Raise, LandPlan, Waiting
  <2>2. \E pc \in {"landed", "refused"} : MoveTo(w, pc)
    BY <1>3 DEF Refuse, DeliverMalformed, DeliverRefused, Deliver, Raise, LandPlan
  <2> QED
    BY <1>2, <2>1, <2>2
<1>4. ASSUME NEW a \in Actions, Claim(w, a) PROVE NoPlanner => NoPlanner'
  <2> DEFINE f == [pc |-> "claimed", action |-> a, intent |-> run.intent,
                   last |-> {}, ready |-> "gaps", watch |-> "on"]
  <2>1. f.pc # "flying" /\ flight' = [flight EXCEPT ![w] = f]
    BY <1>4 DEF Claim
  <2> HIDE DEF f
  <2> QED
    BY <1>1, <2>1
<1>5. CASE Dispatch(w)
  <2>1. run'.status = "RUNNING"
    BY <1>5 DEF Dispatch, Executing, RunAfterResume, WouldResume, CanResume, Resumed, TypeOK, Runs
  <2> QED
    BY <1>0, <1>5, <2>1 DEF Dispatch
<1>6. CASE Release(w)
  <2>1. Retire(w).pc # "flying" /\ flight' = [flight EXCEPT ![w] = Retire(w)]
    BY <1>6, FlightType DEF Release, Retire, IdleFlight, TypeOK
  <2> QED
    BY <1>1, <2>1
<1>7. CASE Expire(w)
  <2> DEFINE f == [flight[w] EXCEPT !.watch = "expired"]
  <2>1. /\ flight' = [flight EXCEPT ![w] = f]
        /\ f.pc = flight[w].pc /\ f.action = flight[w].action
    BY <1>7, FlightType DEF Expire, TypeOK
  <2> HIDE DEF f
  <2> QED
    BY <1>1, <2>1
<1>8. CASE TimeoutAction(w)
  <2> DEFINE f == IF flight[w].pc = "released" THEN IdleFlight
                  ELSE [flight[w] EXCEPT !.watch = "done"]
  <2>1. flight[w].pc # "idle" /\ flight' = [flight EXCEPT ![w] = f]
    BY <1>8 DEF TimeoutAction
  <2>2. f.pc # "flying" \/ (f.pc = flight[w].pc /\ f.action = flight[w].action)
    BY <2>1, FlightType DEF TypeOK, IdleFlight
  <2> HIDE DEF f
  <2> QED
    BY <1>1, <2>1, <2>2
<1> QED
  BY <1>3, <1>4, <1>5, <1>6, <1>7, <1>8 DEF Worker

\* What a step outside a section does to the run: it keeps the status and the
\* result, or the run is then not completed.
LEMMA RunSteps ==
  ASSUME TypeOK, [Next]_vars, ~Section, ~Editor
  PROVE  /\ UNCHANGED <<run.status, run.result>> \/ run'.status # "COMPLETED"
         /\ UNCHANGED installed
<1>0. run \in Runs
  BY DEF TypeOK
<1>1. CASE Host
  <2>1. ASSUME NEW i, HostRestart(i) PROVE run'.status # "COMPLETED" /\ UNCHANGED installed
    BY <1>0, <2>1 DEF HostRestart, Revised, Runs, disk
  <2> QED
    BY <1>1, <2>1 DEF Host, HostStart, ResumeMissing, HostSubmit, HostSubmitMalformed, disk
<1>2. CASE Reader
  BY <1>2 DEF Reader, BeginRead, FinishRead, disk
<1>3. CASE Crash
  BY <1>3 DEF Crash, disk
<1>4. ASSUME NEW d \in Drivers, Driver(d)
      PROVE  /\ UNCHANGED <<run.status, run.result>> \/ run'.status # "COMPLETED"
             /\ UNCHANGED installed
  <2>1. CASE Settle(d)
    BY <1>0, <2>1 DEF Settle, Blocked, Runs, disk
  <2> QED
    BY <1>4, <2>1 DEF Driver, Decide, disk
<1>5. ASSUME NEW w \in Workers, Worker(w)
      PROVE  /\ UNCHANGED <<run.status, run.result>> \/ run'.status # "COMPLETED"
             /\ UNCHANGED installed
  <2>1. ASSUME NEW a, run' = RunAfterResume(a)
        PROVE  UNCHANGED <<run.status, run.result>> \/ run'.status # "COMPLETED"
    BY <1>0, <2>1 DEF RunAfterResume, Resumed, Runs
  <2> QED
    BY <1>5, <2>1 DEF Worker, Claim, Dispatch, Refuse, Deliver, DeliverMalformed,
             DeliverRefused, Raise, LandPlan, Release, Expire, TimeoutAction, disk
<1>6. CASE UNCHANGED vars \/ StartRefused
  BY <1>6 DEF vars, disk, StartRefused
<1> QED
  BY <1>1, <1>2, <1>3, <1>4, <1>5, <1>6 DEF Next

\* Completing is the last thing a section does.
LEMMA CompleteLast ==
  ASSUME QueueOK, ops # <<>>, Head(ops).do = "complete" PROVE Tail(ops) = <<>>
<1>1. ops \notin Saving \union Starting
  BY LandingHeads
<1>2. ops \notin Drafting
  BY QueueHeads, OpNames
<1>3. PICK r \in Plans : ops \in Showing(r)
  BY <1>1, <1>2 DEF QueueOK, Landing
<1>4. ops # <<Rec(r), SaveStatus, SaveEvidence, Ins(r), Com(r)>>
  <2>1. Rec(r).do # "complete"
    BY OpNames
  <2> QED
    BY <2>1
<1>5. ops # <<SaveStatus, SaveEvidence, Ins(r), Com(r)>>
  <2>1. SaveStatus.do # "complete"
    BY OpNames
  <2> QED
    BY <2>1
<1>6. ops # <<SaveEvidence, Ins(r), Com(r)>>
  <2>1. SaveEvidence.do # "complete"
    BY OpNames
  <2> QED
    BY <2>1
<1>7. ops # <<Ins(r), Com(r)>>
  <2>1. Ins(r).do # "complete"
    BY OpNames
  <2> QED
    BY <2>1
<1>8. ops = <<Com(r)>>
  BY <1>3, <1>4, <1>5, <1>6, <1>7, Zenon DEF Showing
<1> QED
  BY <1>8, Tails

\* A section that saves or starts the loop records, installs and completes nothing.
LEMMA SavingHeads ==
  \A q \in Saving \union Starting :
    q # <<>> => Head(q).do \notin {"record", "install", "complete"}
<1>1. \A q \in Saving : q # <<>> => Head(q) \in {SaveStatus, SaveEvidence, Block}
  BY DEF Saving
<1>2. ASSUME NEW q \in Starting PROVE Head(q).do = "start"
  BY DEF Starting, Str
<1> QED
  BY <1>1, <1>2, OpNames

\* A plan lands with its result recorded first, on a run that is not completed,
\* and no other planner is under way.
LEMMA PlanLands ==
  ASSUME TypeOK, SingleFlight, ServeInv,
         NEW w \in Workers, NEW result \in Results, NEW shown \in BOOLEAN,
         LandPlan(w, result, shown)
  PROVE  Unplanned' /\ ops' # <<>> /\ Head(ops').do = "record"
<1>1. /\ flight[w].pc = "flying" /\ flight[w].action = "planner" /\ UNCHANGED run
      /\ flight' = [flight EXCEPT ![w].pc = "landed"]
  BY DEF LandPlan, Waiting, MoveTo
<1>2. run'.status # "COMPLETED"
  BY <1>1 DEF ServeInv, NoPlanner
<1>3. ASSUME NEW v \in Workers, v # w
      PROVE  ~(flight'[v].pc = "flying" /\ flight'[v].action = "planner")
  <2>1. flight'[v] = flight[v]
    BY <1>1, <1>3 DEF TypeOK
  <2>2. Busy(w)
    BY <1>1 DEF Busy
  <2> QED
    BY <1>1, <1>3, <2>1, <2>2 DEF SingleFlight, Busy
<1>4. flight'[w].pc = "landed"
  <2>1. [flight[w] EXCEPT !.pc = "landed"].pc = "landed"
    BY <1>1, FlightType DEF TypeOK
  <2> QED
    BY <1>1, <2>1 DEF TypeOK
<1>5. ops' # <<>> /\ Head(ops').do = "record"
  <2>1. CASE shown
    <3>1. ops' = <<Rec(result), SaveStatus, SaveEvidence, Ins(result), Com(result)>>
      BY <2>1, QueuesMade DEF LandPlan, Rec, Ins, Com
    <3>2. ops' # <<>> /\ Head(ops') = Rec(result)
      BY <3>1
    <3> QED
      BY <3>2, OpNames
  <2>2. CASE ~shown
    <3>1. ops' = <<Rec(result), SaveStatus, SaveEvidence>>
      BY <2>2, QueuesMade DEF LandPlan, Rec
    <3>2. ops' # <<>> /\ Head(ops') = Rec(result)
      BY <3>1
    <3> QED
      BY <3>2, OpNames
  <2> QED
    BY <2>1, <2>2
<1>6. NoPlanner'
  BY <1>3, <1>4 DEF NoPlanner
<1> QED
  BY <1>2, <1>5, <1>6 DEF Unplanned

\* A step of a section keeps what a completed run serves.
LEMMA ServeSection ==
  ASSUME TypeOK, QueueOK, ServeInv, editor'.pc = "idle", Section PROVE ServeInv'
<1>0. /\ ops # <<>> /\ ops' = Tail(ops) /\ UNCHANGED flight /\ run \in Runs
      /\ NoPlanner' = NoPlanner
  BY SectionFrame DEF TypeOK, NoPlanner
<1>1. Head(ops).do \in {"record", "install", "complete"} => Unplanned
  BY <1>0, LandingHeads DEF ServeInv
<1>2. CASE CompleteRun
  <2>1. /\ Head(ops).do = "complete" /\ UNCHANGED installed
        /\ run' = Completed(run, Head(ops).result)
    BY <1>2 DEF CompleteRun, Doing, Next_op, disk
  <2>2. Tail(ops) = <<>> /\ <<>> \in Saving
    BY <1>0, <2>1, CompleteLast DEF Saving
  <2>3. run'.status = "COMPLETED" => run'.result = Head(ops).result
    BY <1>0, <1>1, <2>1 DEF Completed, CanComplete, Runs, Unplanned
  <2>4. installed = Head(ops).result /\ installed.kind = "plan" /\ NoPlanner
    BY <1>0, <1>1, <2>1 DEF ServeInv, Unplanned
  <2> QED
    BY <1>0, <2>1, <2>2, <2>3, <2>4 DEF ServeInv, CompletedServesInstalledPlan
<1>3. ASSUME run'.status = "COMPLETED" => run.status = "COMPLETED",
             Head(ops).do # "install"
      PROVE  /\ (run'.status = "COMPLETED" => NoPlanner')
             /\ (ops \in Saving \union Starting \/ Unplanned)'
             /\ ~(ops' # <<>> /\ Head(ops').do = "complete")
  <2>1. run'.status = "COMPLETED" => NoPlanner'
    BY <1>0, <1>3 DEF ServeInv
  <2>2. ~(ops' # <<>> /\ Head(ops').do = "complete")
    BY <1>0, <1>3, QueueNext
  <2>3. <<SaveStatus, SaveEvidence>> \in Saving /\ <<>> \in Saving
    BY DEF Saving
  <2>4. ASSUME ops \in Saving \union Starting \union Drafting
        PROVE  ops' \in Saving \union Starting
    BY <1>0, <2>3, <2>4, QueueTail
  <2>5. ASSUME Unplanned PROVE Unplanned'
    BY <1>0, <1>3, <2>5 DEF Unplanned
  <2> QED
    BY <2>1, <2>2, <2>4, <2>5 DEF ServeInv
<1>4. CASE InstallPlan
  <2>1. /\ Head(ops).do = "install" /\ installed' = Head(ops).result /\ UNCHANGED run
    BY <1>4 DEF InstallPlan, Doing, Next_op
  <2>2. Unplanned /\ Unplanned'
    BY <1>0, <1>1, <2>1 DEF Unplanned
  <2>3. installed'.kind = "plan"
    BY <1>0, <2>1, LandingHeads, PlanKind
  <2>4. ops' # <<>> /\ Head(ops').do = "complete" => installed' = Head(ops').result
    BY <1>0, <2>1, QueueNext
  <2> QED
    BY <2>2, <2>3, <2>4 DEF ServeInv, CompletedServesInstalledPlan, Unplanned
<1>5. CASE StartLoop \/ WriteStatus \/ WriteEvidence \/ BlockRun \/ RecordResult
  <2>1. Head(ops).do # "install" /\ UNCHANGED installed
    BY <1>5 DEF StartLoop, WriteStatus, WriteEvidence, BlockRun, RecordResult, Doing, Next_op,
               disk
  <2>2. run'.status = "COMPLETED" => run.status = "COMPLETED" /\ run'.result = run.result
    <3>1. CASE StartLoop
      BY <1>0, <3>1 DEF StartLoop, Started, Runs
    <3>2. CASE BlockRun
      BY <1>0, <3>2 DEF BlockRun, Blocked, Runs
    <3>3. CASE RecordResult
      <4>1. Head(ops).do = "record"
        BY <3>3 DEF RecordResult, Doing, Next_op
      <4>2. run.status # "COMPLETED" /\ run'.status = run.status
        BY <1>0, <1>1, <3>3, <4>1 DEF RecordResult, Recorded, Runs, Unplanned
      <4> QED
        BY <4>2
    <3>4. CASE WriteStatus \/ WriteEvidence
      BY <3>4 DEF WriteStatus, WriteEvidence
    <3> QED
      BY <1>5, <3>1, <3>2, <3>3, <3>4
  <2>3. CompletedServesInstalledPlan'
    BY <2>1, <2>2 DEF ServeInv, CompletedServesInstalledPlan
  <2> QED
    BY <1>3, <2>1, <2>2, <2>3 DEF ServeInv
<1> QED
  BY <1>2, <1>4, <1>5 DEF Section

\* So does every other step.
LEMMA ServeElse ==
  ASSUME TypeOK, SingleFlight, QueueOK, ServeInv, editor'.pc = "idle",
         [Next]_vars, ~Section, ~Editor
  PROVE  ServeInv'
<1>1. /\ UNCHANGED <<run.status, run.result>> \/ run'.status # "COMPLETED"
      /\ UNCHANGED installed
  BY RunSteps
<1>2. CompletedServesInstalledPlan'
  BY <1>1 DEF ServeInv, CompletedServesInstalledPlan
<1>3. ASSUME ~ \E w \in Workers : Worker(w) PROVE NoPlanner => NoPlanner'
  <2>1. CASE Crash
    BY <2>1 DEF Crash, NoPlanner, IdleFlight
  <2>2. CASE ~Crash
    <3>1. UNCHANGED flight
      BY <1>3, <2>2 DEF Next, Host, HostStart, HostRestart, ResumeMissing, HostSubmit,
                       HostSubmitMalformed, Reader, BeginRead, FinishRead, Driver, Settle,
                       Decide, StartRefused, vars, memory
    <3> QED
      BY <3>1 DEF NoPlanner
  <2> QED
    BY <2>1, <2>2
<1>4. (NoPlanner => NoPlanner') \/ (run'.status = "RUNNING" /\ ops' \in Saving)
  BY <1>3, PlannerSteps
<1>5. run'.status = "COMPLETED" => NoPlanner'
  BY <1>1, <1>4 DEF ServeInv
<1>6. CASE UNCHANGED ops
  <2>1. ops' \in Saving \union Starting \/ Unplanned'
    BY <1>1, <1>4, <1>6 DEF ServeInv, Unplanned
  <2>2. ops' # <<>> /\ Head(ops').do = "complete"
          => installed' = Head(ops').result /\ installed'.kind = "plan"
    BY <1>1, <1>6 DEF ServeInv
  <2> QED
    BY <1>2, <1>5, <2>1, <2>2 DEF ServeInv
<1>7. ASSUME ops' \in Saving \union Starting PROVE ServeInv'
  BY <1>2, <1>5, <1>7, SavingHeads DEF ServeInv
<1>8. ASSUME NEW w \in Workers, NEW result \in Results, NEW shown \in BOOLEAN,
             LandPlan(w, result, shown)
      PROVE  ServeInv'
  BY <1>2, <1>5, <1>8, PlanLands DEF ServeInv
<1>9. <<>> \in Saving
  BY DEF Saving
<1> QED
  BY <1>6, <1>7, <1>8, <1>9, QueueSteps

\* While nobody edits, a COMPLETED run serves the plan version that was installed
\* last, whatever late planners, settlements, restarts and crashes came before.
THEOREM CompletedServes ==
  ASSUME MaxEdits = 0 PROVE Spec => []CompletedServesInstalledPlan
<1>1. Init => QueueOK /\ ServeInv
  <2> SUFFICES ASSUME Init PROVE QueueOK /\ ServeInv
    OBVIOUS
  <2>1. ops \in Saving /\ ops = <<>>
    BY DEF Init, Saving
  <2>2. run.status # "COMPLETED" /\ editor.pc = "idle"
    BY DEF Init
  <2> QED
    BY <2>1, <2>2 DEF QueueOK, ServeInv, CompletedServesInstalledPlan
<1>2. TypeOK /\ SingleFlight /\ (QueueOK /\ ServeInv) /\ [Next]_vars
        => (QueueOK /\ ServeInv)'
  <2> SUFFICES ASSUME TypeOK, SingleFlight, QueueOK, ServeInv, [Next]_vars
               PROVE  QueueOK' /\ ServeInv'
    OBVIOUS
  <2>1. editor'.pc = "idle" /\ ~Editor
    BY NoEdits DEF ServeInv
  <2> QED
    BY <2>1, QueueInv, ServeSection, ServeElse
<1>3. ServeInv => CompletedServesInstalledPlan
  BY DEF ServeInv
<1> QED
  BY <1>1, <1>2, <1>3, TypeCorrect, NoDoubleExecution, PTL DEF Spec

-----------------------------------------------------------------------------
(* The way back from an ended run, while nothing crashes.                   *)

\* The loop is never unreadable; a run that has left CONFIRMED has one; a run that
\* has ended, or is edited, holds a result, and so does a driver that settles it.
EndInv == /\ known # "corrupt"
          /\ run.status # "CONFIRMED" => Live
          /\ run.status \in {"COMPLETED", "BLOCKED", "FAILED"} => run.result # NoResult
          /\ \A d \in Drivers : driver[d].settling => driver[d].keeps # NoResult
          /\ editor.pc # "idle" =>
               Live /\ run.result # NoResult /\ editor.result # NoResult

\* Without a crash a live loop stays live, and none becomes unreadable.
LEMMA LiveStays ==
  ASSUME TypeOK, [Next]_vars, ~Crash
  PROVE  (Live => Live') /\ (known # "corrupt" => known' # "corrupt")
BY LoopSteps DEF StartLoop, ResumeMissing, FinishRead, LandPlan, Live

\* An edited result is a result.
LEMMA EditedStays == \A r \in Results : r # NoResult => Edited(r) # NoResult
<1> SUFFICES ASSUME NEW r \in Results, r # NoResult PROVE Edited(r) # NoResult
  OBVIOUS
<1>1. CASE r \in [kind : {"plan"}, intent : Intents, edited : BOOLEAN]
  <2>1. Edited(r).kind = "plan"
    BY <1>1 DEF Edited
  <2> QED
    BY <2>1 DEF NoResult
<1>2. CASE r \in {Comparison, Unfinished}
  <2>1. r = [kind |-> r.kind] /\ r.kind # "none"
    BY <1>2 DEF Comparison, Unfinished
  <2>2. Edited(r).kind = r.kind
    BY <2>1 DEF Edited
  <2> QED
    BY <2>1, <2>2 DEF NoResult
<1> QED
  BY <1>1, <1>2 DEF Results

\* What a step does to a run that holds a result: it keeps one; and no step ends a
\* run without one, or takes it out of CONFIRMED without a loop.
LEMMA ResultSteps ==
  ASSUME TypeOK, QueueOK, EndInv, [Next]_vars, ~Crash
  PROVE  /\ run.result # NoResult => run'.result # NoResult
         /\ run'.status \in {"COMPLETED", "BLOCKED", "FAILED"} => run'.result # NoResult
         /\ run'.status # "CONFIRMED" => Live'
<1>0. run \in Runs /\ (Live => Live')
  BY LiveStays DEF TypeOK
<1> DEFINE Goal == /\ run.result # NoResult => run'.result # NoResult
                   /\ run'.status \in {"COMPLETED", "BLOCKED", "FAILED"}
                        => run'.result # NoResult
                   /\ run'.status # "CONFIRMED" => Live'
<1> SUFFICES Goal
  OBVIOUS
<1>1. ASSUME run'.status = run.status, run'.result = run.result PROVE Goal
  BY <1>0, <1>1 DEF EndInv
<1>2. ASSUME run'.status \in {"RUNNING", "CONFIRMED"}, run'.result = run.result,
             run'.status # "CONFIRMED" => Live'
      PROVE  Goal
  BY <1>2
<1>3. ASSUME run'.result # NoResult, Live' PROVE Goal
  BY <1>3
<1> HIDE DEF Goal
<1>4. CASE Section
  <2>1. CASE StartLoop
    BY <1>0, <1>2, <2>1 DEF StartLoop, Started, Runs, Live
  <2>2. CASE WriteStatus \/ WriteEvidence \/ InstallPlan
    BY <1>1, <2>2 DEF WriteStatus, WriteEvidence, InstallPlan
  <2>3. ASSUME Head(ops).do \in {"record", "complete"}, ops # <<>>
        PROVE  Head(ops).result # NoResult
    <3>1. Unfinished # NoResult
      BY DEF Unfinished, NoResult
    <3> QED
      BY <2>3, <3>1, LandingHeads, PlanKind
  <2>4. CASE RecordResult
    <3>1. Head(ops).do = "record" /\ ops # <<>> /\ run' = Recorded(run, Head(ops).result)
      BY <2>4 DEF RecordResult, Doing, Next_op
    <3>2. run'.result # NoResult /\ run'.status = run.status
      BY <1>0, <2>3, <3>1 DEF Recorded, Runs
    <3> QED
      BY <1>0, <3>2 DEF EndInv, Goal
  <2>5. CASE CompleteRun
    <3>1. Head(ops).do = "complete" /\ ops # <<>> /\ run' = Completed(run, Head(ops).result)
      BY <2>5 DEF CompleteRun, Doing, Next_op
    <3>2. CASE CanComplete(run)
      <4>1. run'.result # NoResult
        BY <1>0, <2>3, <3>1, <3>2 DEF Completed, Runs
      <4> QED
        BY <1>0, <1>3, <3>2, <4>1 DEF EndInv, CanComplete
    <3>3. CASE ~CanComplete(run)
      BY <1>1, <3>1, <3>3 DEF Completed
    <3> QED
      BY <3>2, <3>3
  <2>6. CASE BlockRun
    <3> DEFINE r == IF loop.fallback = NoResult THEN Unfinished ELSE loop.fallback
    <3>1. run' = Blocked(run, r) /\ r # NoResult
      BY <2>6 DEF BlockRun, Unfinished, NoResult
    <3> HIDE DEF r
    <3>2. CASE run.status = "RUNNING"
      <4>1. run'.result # NoResult
        BY <1>0, <3>1, <3>2 DEF Blocked, Runs
      <4> QED
        BY <1>0, <1>3, <3>2, <4>1 DEF EndInv
    <3>3. CASE run.status # "RUNNING"
      BY <1>1, <3>1, <3>3 DEF Blocked
    <3> QED
      BY <3>2, <3>3
  <2> QED
    BY <1>4, <2>1, <2>2, <2>4, <2>5, <2>6 DEF Section
<1>5. CASE Host
  <2>1. ASSUME NEW i, HostRestart(i) PROVE Goal
    BY <1>0, <1>2, <2>1 DEF HostRestart, Revised, Runs
  <2> QED
    BY <1>1, <1>5, <2>1 DEF Host, HostStart, ResumeMissing, HostSubmit, HostSubmitMalformed
<1>6. CASE Reader
  BY <1>1, <1>6 DEF Reader, BeginRead, FinishRead
<1>7. ASSUME NEW d \in Drivers, Driver(d) PROVE Goal
  <2>1. CASE Decide(d)
    BY <1>1, <2>1 DEF Decide
  <2>2. CASE Settle(d)
    <3>1. run' = Blocked(run, driver[d].keeps) /\ driver[d].keeps # NoResult
      BY <2>2 DEF Settle, EndInv
    <3>2. CASE run.status = "RUNNING"
      <4>1. run'.result # NoResult
        BY <1>0, <3>1, <3>2 DEF Blocked, Runs
      <4> QED
        BY <1>0, <1>3, <3>2, <4>1 DEF EndInv
    <3>3. CASE run.status # "RUNNING"
      BY <1>1, <3>1, <3>3 DEF Blocked
    <3> QED
      BY <3>2, <3>3
  <2> QED
    BY <1>7, <2>1, <2>2 DEF Driver
<1>8. ASSUME NEW w \in Workers, Worker(w) PROVE Goal
  <2>1. ASSUME NEW a, run' = RunAfterResume(a) PROVE Goal
    <3>1. CASE WouldResume(a)
      <4>1. run'.status = "RUNNING" /\ run'.result = run.result /\ Live
        BY <1>0, <2>1, <3>1 DEF RunAfterResume, Resumed, Runs, WouldResume, CanResume, EndInv
      <4> QED
        BY <1>0, <1>2, <4>1
    <3>2. CASE ~WouldResume(a)
      BY <1>1, <2>1, <3>2 DEF RunAfterResume
    <3> QED
      BY <3>1, <3>2
  <2> QED
    BY <1>1, <1>8, <2>1 DEF Worker, Claim, Dispatch, Refuse, Deliver, DeliverMalformed,
             DeliverRefused, Raise, LandPlan, Release, Expire, TimeoutAction
<1>9. CASE Editor
  <2>1. CASE EditPrepare
    BY <1>0, <1>2, <2>1 DEF EditPrepare, Revised, Runs
  <2>2. CASE EditStart
    <3>1. run'.status = "RUNNING" /\ run'.result = run.result /\ Live
      BY <1>0, <2>2 DEF EditStart, EditGoes, Started, Runs, EndInv
    <3> QED
      BY <1>0, <1>2, <3>1
  <2>3. CASE EditComplete
    <3>1. /\ editor.pc # "idle" /\ run' = Completed(run, Edited(editor.result))
          /\ CanComplete(run)
      BY <2>3 DEF EditComplete, EditEnds
    <3>2. editor.result \in Results
      BY <3>1 DEF TypeOK, EditorStates
    <3>3. run'.result # NoResult
      BY <1>0, <3>1, <3>2, EditedStays DEF EndInv, Completed, Runs
    <3> QED
      BY <1>0, <1>3, <3>1, <3>3 DEF EndInv
  <2>4. CASE EditFail
    <3>1. run'.result = run.result /\ run.result # NoResult /\ Live
      BY <1>0, <2>4 DEF EditFail, EditEnds, Failed, Runs, EndInv
    <3> QED
      BY <1>0, <1>3, <3>1
  <2>5. CASE EditRead \/ EditRaises \/ EditInstall \/ EditFails
    BY <1>1, <2>5 DEF EditRead, EditRaises, EditInstall, EditFails
  <2> QED
    BY <1>9, <2>1, <2>2, <2>3, <2>4, <2>5 DEF Editor
<1>10. CASE UNCHANGED vars \/ StartRefused
  BY <1>1, <1>10 DEF vars, StartRefused
<1> QED
  BY <1>4, <1>5, <1>6, <1>7, <1>8, <1>9, <1>10 DEF Next

\* Drivers settle with a result, and edits work on a run that has one.
LEMMA EndStep ==
  ASSUME MaxCrashes = 0, TypeOK, QueueOK, EndInv, [Next]_vars PROVE EndInv'
<1>0. ~Crash
  BY NoCrashes
<1>1. /\ run.result # NoResult => run'.result # NoResult
      /\ run'.status \in {"COMPLETED", "BLOCKED", "FAILED"} => run'.result # NoResult
      /\ run'.status # "CONFIRMED" => Live'
      /\ known' # "corrupt" /\ (Live => Live')
  BY <1>0, ResultSteps, LiveStays DEF EndInv
<1>2. \A d \in Drivers : driver'[d].settling => driver'[d].keeps # NoResult
  <2>1. ASSUME NEW d \in Drivers, Driver(d)
        PROVE  \A c \in Drivers : driver'[c].settling => driver'[c].keeps # NoResult
    <3>1. CASE Decide(d)
      <4> DEFINE f == [settling |-> TRUE,
                       keeps |-> IF run.result = NoResult THEN Unfinished ELSE run.result]
      <4>1. driver' = [driver EXCEPT ![d] = f] /\ f.keeps # NoResult
        BY <3>1 DEF Decide, Unfinished, NoResult
      <4> HIDE DEF f
      <4> QED
        BY <4>1 DEF EndInv, TypeOK
    <3>2. CASE Settle(d)
      <4>1. driver' = [driver EXCEPT ![d] = IdleDriver] /\ ~IdleDriver.settling
        BY <3>2 DEF Settle, IdleDriver
      <4> QED
        BY <4>1 DEF EndInv, TypeOK
    <3> QED
      BY <2>1, <3>1, <3>2 DEF Driver
  <2>2. ASSUME UNCHANGED driver
        PROVE  \A d \in Drivers : driver'[d].settling => driver'[d].keeps # NoResult
    BY <2>2 DEF EndInv
  <2>3. Section \/ Host \/ Reader \/ Editor => UNCHANGED driver
    BY SectionFrame DEF Host, HostStart, HostRestart, ResumeMissing, HostSubmit,
         HostSubmitMalformed, Reader, BeginRead, FinishRead, Editor, EditRead, EditPrepare,
         EditStart, EditRaises, EditInstall, EditComplete, EditFails, EditFail, EditSteps
  <2>4. ASSUME NEW w \in Workers, Worker(w) PROVE UNCHANGED driver
    BY <2>4 DEF Worker, Claim, Dispatch, Refuse, Deliver, DeliverMalformed, DeliverRefused,
               Raise, LandPlan, Release, Expire, TimeoutAction
  <2>5. UNCHANGED vars \/ StartRefused => UNCHANGED driver
    BY DEF vars, memory, StartRefused
  <2> QED
    BY <1>0, <2>1, <2>2, <2>3, <2>4, <2>5 DEF Next
<1>3. editor'.pc # "idle" => Live' /\ run'.result # NoResult /\ editor'.result # NoResult
  <2>1. CASE EditRead
    <3>1. editor' = [pc |-> "read", result |-> run.result, intent |-> run.intent]
          /\ CanRevise(run) /\ UNCHANGED <<run, known>>
      BY <2>1 DEF EditRead
    <3> QED
      BY <3>1 DEF CanRevise, EndInv, Live
  <2>2. ASSUME editor.pc # "idle", editor'.result = editor.result
        PROVE  Live' /\ run'.result # NoResult /\ editor'.result # NoResult
    BY <1>1, <2>2 DEF EndInv
  <2>3. ASSUME NEW from, NEW to, EditGoes(from, to), from # "idle"
        PROVE  Live' /\ run'.result # NoResult /\ editor'.result # NoResult
    <3>1. editor.pc # "idle" /\ editor' = [editor EXCEPT !.pc = to]
      BY <2>3 DEF EditGoes
    <3>2. editor'.result = editor.result
      BY <3>1 DEF TypeOK, EditorStates
    <3> QED
      BY <2>2, <3>1, <3>2
  <2>4. ASSUME NEW from, EditEnds(from) PROVE editor'.pc = "idle"
    BY <2>4 DEF EditEnds
  <2>5. CASE Editor
    <3>1. \/ EditGoes("read", "prepared") \/ EditGoes("prepared", "started")
          \/ EditGoes("started", "installed") \/ EditGoes("started", "failing")
          \/ EditGoes("installed", "failing") \/ EditRead
          \/ EditEnds("read") \/ EditEnds("prepared") \/ EditEnds("installed")
          \/ EditEnds("failing")
      BY <2>5 DEF Editor, EditPrepare, EditStart, EditRaises, EditInstall, EditComplete,
                 EditFails, EditFail
    <3> QED
      BY <2>1, <2>3, <2>4, <3>1
  <2>6. CASE UNCHANGED editor
    BY <2>2, <2>6
  <2>7. Section \/ Host \/ Reader \/ (\E d \in Drivers : Driver(d)) => UNCHANGED editor
    BY SectionFrame DEF Host, HostStart, HostRestart, ResumeMissing, HostSubmit,
         HostSubmitMalformed, Reader, BeginRead, FinishRead, Driver, Settle, Decide
  <2>8. ASSUME NEW w \in Workers, Worker(w) PROVE UNCHANGED editor
    BY <2>8 DEF Worker, Claim, Dispatch, Refuse, Deliver, DeliverMalformed, DeliverRefused,
               Raise, LandPlan, Release, Expire, TimeoutAction
  <2>9. UNCHANGED vars \/ StartRefused => UNCHANGED editor
    BY DEF vars, memory, StartRefused
  <2> QED
    BY <1>0, <2>5, <2>6, <2>7, <2>8, <2>9 DEF Next
<1> QED
  BY <1>1, <1>2, <1>3 DEF EndInv

\* While nothing crashes, every run that has ended can be restarted: it keeps a
\* result and a loop, whoever settles, edits, times out or raises.
THEOREM EndedRestarts ==
  ASSUME MaxCrashes = 0 PROVE Spec => []EndedCanRestart
<1>1. Init => QueueOK /\ EndInv
  <2> SUFFICES ASSUME Init PROVE QueueOK /\ EndInv
    OBVIOUS
  <2>1. ops \in Saving
    BY DEF Init, Saving
  <2>2. run.status = "CONFIRMED" /\ editor.pc = "idle" /\ known = "none"
        /\ \A d \in Drivers : ~driver[d].settling
    BY DEF Init, IdleDriver
  <2> QED
    BY <2>1, <2>2 DEF QueueOK, EndInv
<1>2. TypeOK /\ (QueueOK /\ EndInv) /\ [Next]_vars => (QueueOK /\ EndInv)'
  BY QueueInv, EndStep
<1>3. EndInv => EndedCanRestart
  BY DEF EndInv, EndedCanRestart, CanRevise
<1> QED
  BY <1>1, <1>2, <1>3, TypeCorrect, PTL DEF Spec

-----------------------------------------------------------------------------
(* The files of the loop.                                                   *)

\* A write that the section under way still has to make.
Due(x) == \E n \in 1 .. Len(ops) : ops[n] = x

EvidenceSaved == fileEvidence = [evidence |-> loop.evidence, lastSourced |-> loop.lastSourced]
StatusSaved   == /\ fileStatus # NoFile
                 /\ Reread(fileStatus.status) = Reread(loop.status)
                 /\ fileStatus.fallback = loop.fallback

\* A section is about to start a loop.
Opens == ops # <<>> /\ Head(ops).do = "start"

\* Each file of a live loop holds what memory holds, or is still to be written; and
\* while a start that may be refused is ahead, both hold it.
DurableInv == Live => /\ EvidenceSaved \/ Due(SaveEvidence)
                      /\ StatusSaved \/ Due(SaveStatus)
                      /\ Opens => EvidenceSaved /\ StatusSaved

\* What is due stays due until it is done.
LEMMA DueStays ==
  ASSUME ops \in Seq(Ops), ops # <<>>, ops' = Tail(ops), NEW x, Due(x), Head(ops) # x
  PROVE  Due(x)'
<1>1. PICK n \in 1 .. Len(ops) : ops[n] = x
  BY DEF Due
<1>2. n # 1
  BY <1>1
<1>3. /\ Len(Tail(ops)) = Len(ops) - 1
      /\ \A i \in 1 .. Len(Tail(ops)) : Tail(ops)[i] = ops[i + 1]
  BY HeadTailProperties
<1>4. n - 1 \in 1 .. Len(ops') /\ ops'[n - 1] = x
  BY <1>1, <1>2, <1>3
<1> QED
  BY <1>4 DEF Due

\* The sections that save the loop have both writes to make.
LEMMA BothDue ==
  ASSUME ops' \in {Saves, Append(Saves, Block)} \/ (\E x : ops' = <<x, SaveStatus, SaveEvidence>>)
           \/ (\E x, y, z : ops' = <<x, SaveStatus, SaveEvidence, y, z>>)
  PROVE  /\ Due(SaveStatus)' /\ Due(SaveEvidence)'
         /\ ops' \in {Saves, Append(Saves, Block)} => ~Opens'
<1>1. ASSUME NEW n \in {1, 2}, n + 1 \in 1 .. Len(ops'),
             ops'[n] = SaveStatus, ops'[n + 1] = SaveEvidence
      PROVE  Due(SaveStatus)' /\ Due(SaveEvidence)'
  <2>1. n \in 1 .. Len(ops')
    BY <1>1
  <2> QED
    BY <1>1, <2>1 DEF Due
<1>2. ASSUME ops' = <<SaveStatus, SaveEvidence>>
      PROVE  Due(SaveStatus)' /\ Due(SaveEvidence)'
  <2>1. Len(ops') = 2 /\ ops'[1] = SaveStatus /\ ops'[2] = SaveEvidence
    BY <1>2
  <2> QED
    BY <1>1, <2>1
<1>3. ASSUME ops' = <<SaveStatus, SaveEvidence, Block>>
      PROVE  Due(SaveStatus)' /\ Due(SaveEvidence)'
  <2>1. Len(ops') = 3 /\ ops'[1] = SaveStatus /\ ops'[2] = SaveEvidence
    BY <1>3
  <2> QED
    BY <1>1, <2>1
<1>4. ASSUME NEW x, ops' = <<x, SaveStatus, SaveEvidence>>
      PROVE  Due(SaveStatus)' /\ Due(SaveEvidence)'
  <2>1. Len(ops') = 3 /\ ops'[2] = SaveStatus /\ ops'[3] = SaveEvidence
    BY <1>4
  <2> QED
    BY <1>1, <2>1
<1>5. ASSUME NEW x, NEW y, NEW z, ops' = <<x, SaveStatus, SaveEvidence, y, z>>
      PROVE  Due(SaveStatus)' /\ Due(SaveEvidence)'
  <2>1. Len(ops') = 5 /\ ops'[2] = SaveStatus /\ ops'[3] = SaveEvidence
    BY <1>5
  <2> QED
    BY <1>1, <2>1
<1>6. ASSUME ops' \in {Saves, Append(Saves, Block)} PROVE ~Opens'
  <2>1. Head(ops') = SaveStatus
    BY <1>6, QueuesMade
  <2> QED
    BY <2>1, OpNames DEF Opens
<1> QED
  BY <1>2, <1>3, <1>4, <1>5, <1>6, QueuesMade

\* A step of a section writes what is due, or leaves it due.
LEMMA DurableSection ==
  ASSUME TypeOK, QueueOK, DurableInv, Section PROVE DurableInv'
<1>0. /\ ops \in Seq(Ops) /\ ops # <<>> /\ ops' = Tail(ops)
  BY SectionFrame DEF TypeOK
<1>5. ~Opens'
  BY <1>0, StartsFirst DEF Opens
<1>1. CASE StartLoop
  <2>1. Head(ops).do = "start"
    BY <1>1 DEF StartLoop, Doing, Next_op
  <2>2. ops \in Starting
    BY <1>0, <2>1, QueueHeads, OpNames DEF QueueOK
  <2>3. ops' = Saves
    BY <1>0, <2>2, QueueTail, QueuesMade
  <2> QED
    BY <1>5, <2>3, BothDue DEF DurableInv
<1>2. CASE WriteStatus
  <2>1. Head(ops).do = "saveStatus" /\ UNCHANGED <<loop, known, fileEvidence>>
        /\ fileStatus' = [status |-> loop.status, fallback |-> loop.fallback]
    BY <1>2 DEF WriteStatus, Doing, Next_op
  <2>2. StatusSaved'
    BY <2>1 DEF StatusSaved, NoFile
  <2>3. Due(SaveEvidence) => Due(SaveEvidence)'
    BY <1>0, <2>1, DueStays, OpNames
  <2>4. EvidenceSaved => EvidenceSaved'
    BY <2>1 DEF EvidenceSaved
  <2> QED
    BY <1>5, <2>1, <2>2, <2>3, <2>4 DEF DurableInv, Live
<1>3. CASE WriteEvidence
  <2>1. Head(ops).do = "saveEvidence" /\ UNCHANGED <<loop, known, fileStatus>>
        /\ fileEvidence' = [evidence |-> loop.evidence, lastSourced |-> loop.lastSourced]
    BY <1>3 DEF WriteEvidence, Doing, Next_op
  <2>2. EvidenceSaved'
    BY <2>1 DEF EvidenceSaved
  <2>3. Due(SaveStatus) => Due(SaveStatus)'
    BY <1>0, <2>1, DueStays, OpNames
  <2>4. StatusSaved => StatusSaved'
    BY <2>1 DEF StatusSaved
  <2> QED
    BY <1>5, <2>1, <2>2, <2>3, <2>4 DEF DurableInv, Live
<1>4. CASE RecordResult \/ InstallPlan \/ CompleteRun \/ BlockRun
  <2>1. /\ Head(ops).do \in {"record", "install", "complete", "block"}
        /\ UNCHANGED <<loop, known, fileStatus, fileEvidence>>
    BY <1>4 DEF RecordResult, InstallPlan, CompleteRun, BlockRun, Doing, Next_op, disk
  <2>2. /\ Due(SaveEvidence) => Due(SaveEvidence)'
        /\ Due(SaveStatus) => Due(SaveStatus)'
    BY <1>0, <2>1, DueStays, OpNames
  <2>3. (EvidenceSaved => EvidenceSaved') /\ (StatusSaved => StatusSaved')
    BY <2>1 DEF EvidenceSaved, StatusSaved
  <2> QED
    BY <1>5, <2>1, <2>2, <2>3 DEF DurableInv, Live
<1> QED
  BY <1>1, <1>2, <1>3, <1>4 DEF Section

\* After a crash the loop is what the files hold.
LEMMA DurableCrash ==
  ASSUME TypeOK, Crash PROVE DurableInv'
<1> SUFFICES ASSUME Live' PROVE EvidenceSaved' /\ StatusSaved'
  BY DEF DurableInv
<1>1. /\ fileStatus # NoFile /\ fileEvidence # NoFile /\ UNCHANGED <<fileStatus, fileEvidence>>
      /\ loop' = Reloaded /\ Loadable = "live"
  BY DEF Crash, Live, Loadable, disk
<1>2. loop' = [evidence    |-> fileEvidence.evidence,
               lastSourced |-> fileEvidence.lastSourced,
               status      |-> Reread(fileStatus.status),
               fallback    |-> fileStatus.fallback]
  BY <1>1 DEF Reloaded
<1>3. fileEvidence \in [evidence : EvidenceMaps, lastSourced : [Domains -> SUBSET Intents]]
  BY <1>1 DEF TypeOK, EvidenceFiles
<1>4. EvidenceSaved'
  BY <1>1, <1>2, <1>3 DEF EvidenceSaved
<1>5. \A s : Reread(Reread(s)) = Reread(s)
  BY DEF Reread
<1>6. loop'.status = Reread(fileStatus.status) /\ loop'.fallback = fileStatus.fallback
  BY <1>2
<1>7. Reread(loop'.status) = Reread(fileStatus.status)
  BY <1>5, <1>6
<1>8. StatusSaved'
  BY <1>1, <1>6, <1>7 DEF StatusSaved
<1> QED
  BY <1>4, <1>8

\* Every other step that changes the loop has both files to write, but for the
\* start of an action that the files need not remember.
LEMMA DurableElse ==
  ASSUME TypeOK, QueueOK, DurableInv, [Next]_vars, ~Section, ~Crash PROVE DurableInv'
<1>0. loop \in LoopStates /\ UNCHANGED <<fileStatus, fileEvidence>>
  BY FileSteps DEF TypeOK
<1>1. ASSUME ops' \in {Saves, Append(Saves, Block)} PROVE DurableInv'
  BY <1>1, BothDue DEF DurableInv
<1>2. CASE UNCHANGED <<loop, known>>
  <2>1. (EvidenceSaved => EvidenceSaved') /\ (StatusSaved => StatusSaved')
    BY <1>0, <1>2 DEF EvidenceSaved, StatusSaved
  <2>2. CASE ops = <<>>
    <3>1. ~Due(SaveEvidence) /\ ~Due(SaveStatus)
      BY <2>2 DEF Due
    <3> QED
      BY <1>2, <2>1, <3>1 DEF DurableInv, Live, Opens
  <2>3. CASE ops # <<>> /\ ~StartRefused
    <3>1. UNCHANGED ops
      BY <2>3, QueueSteps
    <3>2. Due(SaveEvidence)' = Due(SaveEvidence) /\ Due(SaveStatus)' = Due(SaveStatus)
      BY <3>1 DEF Due
    <3> QED
      BY <1>2, <2>1, <3>1, <3>2 DEF DurableInv, Live, Opens
  <2>4. CASE StartRefused
    <3>1. Opens /\ ~Opens'
      BY <2>4 DEF StartRefused, Opens, Next_op
    <3> QED
      BY <1>2, <2>1, <3>1 DEF DurableInv, Live
  <2> QED
    BY <2>2, <2>3, <2>4
<1>3. ASSUME NEW a \in Domains, ops = <<>>, loop' = Malformed(a),
             UNCHANGED <<known, ops, disk>>
      PROVE  DurableInv'
  <2>1. ~Due(SaveEvidence) /\ ~Due(SaveStatus)
    BY <1>3 DEF Due
  <2>2. /\ loop'.evidence = loop.evidence /\ loop'.lastSourced = loop.lastSourced
        /\ loop'.fallback = loop.fallback
        /\ loop.status \in [Actions -> ActionStates]
    BY <1>0, <1>3 DEF Malformed, LoopStates
  <2>3. \A b \in Actions : \/ loop'.status[b] = loop.status[b]
                           \/ loop.status[b] = "waiting" /\ loop'.status[b] = "running"
    BY <1>0, <1>3 DEF Malformed, LoopStates, Domains, Actions
  <2>4. Reread(loop'.status) = Reread(loop.status)
    BY <2>3 DEF Reread
  <2>5. (EvidenceSaved => EvidenceSaved') /\ (StatusSaved => StatusSaved')
    BY <1>0, <2>2, <2>4 DEF EvidenceSaved, StatusSaved
  <2> QED
    BY <1>3, <2>1, <2>5 DEF DurableInv, Live, Opens
<1>4. ASSUME NEW w \in Workers, NEW result \in Results, NEW shown \in BOOLEAN,
             LandPlan(w, result, shown)
      PROVE  DurableInv'
  <2>3. ~Opens'
    <3>1. Head(ops') = Rec(result)
      BY <1>4, QueuesMade DEF LandPlan, Rec, Ins, Com
    <3> QED
      BY <3>1, OpNames DEF Opens
  <2>1. CASE shown
    <3>1. ops' = <<Rec(result), SaveStatus, SaveEvidence, Ins(result), Com(result)>>
      BY <1>4, <2>1, QueuesMade DEF LandPlan, Rec, Ins, Com
    <3> QED
      BY <2>3, <3>1, BothDue DEF DurableInv
  <2>2. CASE ~shown
    <3>1. ops' = <<Rec(result), SaveStatus, SaveEvidence>>
      BY <1>4, <2>2, QueuesMade DEF LandPlan, Rec
    <3> QED
      BY <2>3, <3>1, BothDue DEF DurableInv
  <2> QED
    BY <2>1, <2>2
<1>5. CASE FinishRead
  <2>1. UNCHANGED <<loop, known>> \/ ops' = Saves
    BY <1>5 DEF FinishRead
  <2> QED
    BY <1>1, <1>2, <2>1
<1>6. CASE ResumeMissing
  BY <1>1, <1>6 DEF ResumeMissing
<1> QED
  BY <1>1, <1>2, <1>3, <1>4, <1>5, <1>6, LoopSteps DEF Section

\* Between two sections the files hold what memory holds, whatever threads, reads,
\* edits and crashes there were: a crash then loses nothing but the work in flight.
THEOREM QuiescentIsDurable == Spec => []QuiescentLoopIsDurable
<1>1. Init => QueueOK /\ DurableInv
  <2> SUFFICES ASSUME Init PROVE QueueOK /\ DurableInv
    OBVIOUS
  <2>1. ops \in Saving /\ known = "none"
    BY DEF Init, Saving
  <2> QED
    BY <2>1 DEF QueueOK, DurableInv, Live
<1>2. TypeOK /\ (QueueOK /\ DurableInv) /\ [Next]_vars => (QueueOK /\ DurableInv)'
  BY QueueInv, DurableSection, DurableCrash, DurableElse
<1>3. DurableInv => QuiescentLoopIsDurable
  <2> SUFFICES ASSUME DurableInv, LockFree, Live PROVE EvidenceSaved /\ StatusSaved
    BY DEF QuiescentLoopIsDurable, EvidenceSaved, StatusSaved
  <2>1. ~Due(SaveEvidence) /\ ~Due(SaveStatus)
    BY DEF Due, LockFree
  <2> QED
    BY <2>1 DEF DurableInv
<1> QED
  BY <1>1, <1>2, <1>3, TypeCorrect, PTL DEF Spec

-----------------------------------------------------------------------------
(* Late results.                                                            *)

\* An action under way has a loop to come back to.
FlyingInv == \A w \in Workers : flight[w].pc = "flying" => Live

\* Only a dispatch, which needs the loop, sets an action going; a crash ends all.
LEMMA FlyingStep == ASSUME TypeOK, FlyingInv, [Next]_vars PROVE FlyingInv'
<1>1. CASE Crash
  BY <1>1 DEF Crash, FlyingInv, IdleFlight
<1> SUFFICES ASSUME ~Crash PROVE FlyingInv'
  BY <1>1
<1>2. Live => Live'
  BY LiveStays
<1>3. ASSUME NEW w \in Workers, NEW f, flight' = [flight EXCEPT ![w] = f],
             f.pc = "flying" => Live
      PROVE  FlyingInv'
  <2>1. \A v \in Workers : flight'[v] = IF v = w THEN f ELSE flight[v]
    BY <1>3 DEF TypeOK
  <2> QED
    BY <1>2, <1>3, <2>1 DEF FlyingInv
<1>4. ASSUME NEW w \in Workers, NEW pc \in {"landed", "refused"}, MoveTo(w, pc),
             flight[w].pc # "idle"
      PROVE  FlyingInv'
  <2> DEFINE f == [flight[w] EXCEPT !.pc = pc]
  <2>1. f.pc # "flying"
    BY <1>4, FlightType DEF TypeOK
  <2>2. flight' = [flight EXCEPT ![w] = f]
    BY <1>4 DEF MoveTo
  <2> HIDE DEF f
  <2> QED
    BY <1>3, <2>1, <2>2
<1>5. ASSUME NEW w \in Workers, Worker(w) PROVE FlyingInv'
  <2>1. CASE \/ Refuse(w) \/ DeliverMalformed(w) \/ DeliverRefused(w)
             \/ \E item \in Items : Deliver(w, item)
             \/ \E blocks \in BOOLEAN : Raise(w, blocks)
             \/ \E result \in Results, shown \in BOOLEAN : LandPlan(w, result, shown)
    <3>1. flight[w].pc # "idle"
      BY <2>1 DEF Refuse, DeliverMalformed, DeliverRefused, Deliver, Raise, LandPlan, Waiting
    <3>2. \E pc \in {"landed", "refused"} : MoveTo(w, pc)
      BY <2>1 DEF Refuse, DeliverMalformed, DeliverRefused, Deliver, Raise, LandPlan
    <3> QED
      BY <1>4, <3>1, <3>2
  <2>2. ASSUME NEW a \in Actions, Claim(w, a) PROVE FlyingInv'
    <3> DEFINE f == [pc |-> "claimed", action |-> a, intent |-> run.intent,
                     last |-> {}, ready |-> "gaps", watch |-> "on"]
    <3>1. f.pc # "flying" /\ flight' = [flight EXCEPT ![w] = f]
      BY <2>2 DEF Claim
    <3> HIDE DEF f
    <3> QED
      BY <1>3, <3>1
  <2>3. CASE Dispatch(w)
    <3> DEFINE a == flight[w].action
               f == [flight[w] EXCEPT !.pc = "flying", !.intent = run.intent,
                       !.last = IF a \in Domains THEN loop.lastSourced[a] ELSE {},
                       !.ready = IF a = "planner" THEN Readiness ELSE "gaps"]
    <3>1. Live /\ flight' = [flight EXCEPT ![w] = f]
      BY <2>3 DEF Dispatch, Executing
    <3> HIDE DEF f
    <3> QED
      BY <1>3, <3>1
  <2>4. CASE Release(w)
    <3>1. Retire(w).pc # "flying" /\ flight' = [flight EXCEPT ![w] = Retire(w)]
      BY <2>4, FlightType DEF Release, Retire, IdleFlight, TypeOK
    <3> QED
      BY <1>3, <3>1
  <2>5. CASE Expire(w)
    <3> DEFINE f == [flight[w] EXCEPT !.watch = "expired"]
    <3>1. flight' = [flight EXCEPT ![w] = f] /\ f.pc = flight[w].pc
      BY <2>5, FlightType DEF Expire, TypeOK
    <3> HIDE DEF f
    <3> QED
      BY <1>3, <3>1 DEF FlyingInv
  <2>6. CASE TimeoutAction(w)
    <3> DEFINE f == IF flight[w].pc = "released" THEN IdleFlight
                    ELSE [flight[w] EXCEPT !.watch = "done"]
    <3>1. flight[w].pc # "idle" /\ flight' = [flight EXCEPT ![w] = f]
      BY <2>6 DEF TimeoutAction
    <3>2. f.pc # "flying" \/ f.pc = flight[w].pc
      BY <3>1, FlightType DEF TypeOK, IdleFlight
    <3> HIDE DEF f
    <3> QED
      BY <1>3, <3>1, <3>2 DEF FlyingInv
  <2> QED
    BY <1>5, <2>1, <2>2, <2>3, <2>4, <2>5, <2>6 DEF Worker
<1>6. ASSUME UNCHANGED flight PROVE FlyingInv'
  BY <1>2, <1>6 DEF FlyingInv
<1>7. Section \/ Host \/ Reader \/ Editor \/ (\E d \in Drivers : Driver(d)) => UNCHANGED flight
  BY SectionFrame DEF Host, HostStart, HostRestart, ResumeMissing, HostSubmit,
       HostSubmitMalformed, Reader, BeginRead, FinishRead, Editor, EditRead, EditPrepare,
       EditStart, EditRaises, EditInstall, EditComplete, EditFails, EditFail, EditSteps,
       Driver, Settle, Decide
<1>8. UNCHANGED vars \/ StartRefused => UNCHANGED flight
  BY DEF vars, memory, StartRefused
<1> QED
  BY <1>5, <1>6, <1>7, <1>8 DEF Next

\* Who refuses a result: only the thread that took it back, through the two gates.
LEMMA RefusingSteps ==
  ASSUME TypeOK, [Next]_vars, NEW w \in Workers,
         flight[w].pc = "flying", flight'[w].pc = "refused"
  PROVE  DeliverRefused(w)
<1>1. ASSUME NEW v \in Workers, NEW f, flight' = [flight EXCEPT ![v] = f],
             f.pc # "refused" \/ f.pc = flight[v].pc
      PROVE  FALSE
  BY <1>1 DEF TypeOK
<1>2. ASSUME NEW v \in Workers, Worker(v), ~DeliverRefused(w) PROVE FALSE
  <2>1. CASE DeliverRefused(v)
    BY <1>2, <2>1 DEF DeliverRefused, MoveTo, TypeOK
  <2>2. ASSUME flight[v].pc # "idle", MoveTo(v, "landed") PROVE FALSE
    <3> DEFINE f == [flight[v] EXCEPT !.pc = "landed"]
    <3>1. f.pc # "refused" /\ flight' = [flight EXCEPT ![v] = f]
      BY <2>2, FlightType DEF TypeOK, MoveTo
    <3> HIDE DEF f
    <3> QED
      BY <1>1, <3>1
  <2>3. CASE \/ Refuse(v) \/ DeliverMalformed(v)
             \/ \E item \in Items : Deliver(v, item)
             \/ \E blocks \in BOOLEAN : Raise(v, blocks)
             \/ \E result \in Results, shown \in BOOLEAN : LandPlan(v, result, shown)
    BY <2>2, <2>3 DEF Refuse, DeliverMalformed, Deliver, Raise, LandPlan, Waiting
  <2>4. ASSUME NEW a \in Actions, Claim(v, a) PROVE FALSE
    <3> DEFINE f == [pc |-> "claimed", action |-> a, intent |-> run.intent,
                     last |-> {}, ready |-> "gaps", watch |-> "on"]
    <3>1. f.pc # "refused" /\ flight' = [flight EXCEPT ![v] = f]
      BY <2>4 DEF Claim
    <3> HIDE DEF f
    <3> QED
      BY <1>1, <3>1
  <2>5. CASE Dispatch(v)
    <3> DEFINE a == flight[v].action
               f == [flight[v] EXCEPT !.pc = "flying", !.intent = run.intent,
                       !.last = IF a \in Domains THEN loop.lastSourced[a] ELSE {},
                       !.ready = IF a = "planner" THEN Readiness ELSE "gaps"]
    <3>1. flight[v].pc # "idle" /\ flight' = [flight EXCEPT ![v] = f]
      BY <2>5 DEF Dispatch, Waiting
    <3>2. f.pc = "flying"
      BY <3>1, FlightType DEF TypeOK
    <3> HIDE DEF f
    <3> QED
      BY <1>1, <3>1, <3>2
  <2>6. CASE Release(v)
    <3>1. Retire(v).pc # "refused" /\ flight' = [flight EXCEPT ![v] = Retire(v)]
      BY <2>6, FlightType DEF Release, Retire, IdleFlight, TypeOK
    <3> QED
      BY <1>1, <3>1
  <2>7. CASE Expire(v)
    <3> DEFINE f == [flight[v] EXCEPT !.watch = "expired"]
    <3>1. flight' = [flight EXCEPT ![v] = f] /\ f.pc = flight[v].pc
      BY <2>7, FlightType DEF Expire, TypeOK
    <3> HIDE DEF f
    <3> QED
      BY <1>1, <3>1
  <2>8. CASE TimeoutAction(v)
    <3> DEFINE f == IF flight[v].pc = "released" THEN IdleFlight
                    ELSE [flight[v] EXCEPT !.watch = "done"]
    <3>1. flight[v].pc # "idle" /\ flight' = [flight EXCEPT ![v] = f]
      BY <2>8 DEF TimeoutAction
    <3>2. f.pc # "refused" \/ f.pc = flight[v].pc
      BY <3>1, FlightType DEF TypeOK, IdleFlight
    <3> HIDE DEF f
    <3> QED
      BY <1>1, <3>1, <3>2
  <2> QED
    BY <1>2, <2>1, <2>3, <2>4, <2>5, <2>6, <2>7, <2>8 DEF Worker
<1>3. ~UNCHANGED flight
  OBVIOUS
<1>4. Section \/ Host \/ Reader \/ Editor \/ (\E d \in Drivers : Driver(d)) => UNCHANGED flight
  BY SectionFrame DEF Host, HostStart, HostRestart, ResumeMissing, HostSubmit,
       HostSubmitMalformed, Reader, BeginRead, FinishRead, Editor, EditRead, EditPrepare,
       EditStart, EditRaises, EditInstall, EditComplete, EditFails, EditFail, EditSteps,
       Driver, Settle, Decide
<1>5. UNCHANGED vars \/ StartRefused => UNCHANGED flight
  BY DEF vars, memory, StartRefused
<1>6. ~Crash
  BY DEF Crash, IdleFlight
<1> QED
  BY <1>2, <1>3, <1>4, <1>5, <1>6 DEF Next

\* The late result of an action of the run itself is taken in although the
\* watchdog, a settlement or another domain's failure has blocked the run: its
\* claim, which nobody else frees, opens both gates.
THEOREM LateResultsCount == Spec => LateResultAccepted
<1>1. Init => FlyingInv
  BY DEF Init, FlyingInv, IdleFlight
<1>2. TypeOK /\ FlyingInv /\ [Next]_vars => FlyingInv'
  BY FlyingStep
<1>3. TypeOK /\ SingleFlight /\ FlyingInv /\ [Next]_vars =>
        [\A w \in Workers : /\ flight[w].pc = "flying"
                             /\ flight'[w].pc = "refused"
                             => run.status \notin {"RUNNING", "BLOCKED"}]_vars
  <2> SUFFICES ASSUME TypeOK, SingleFlight, FlyingInv, [Next]_vars, NEW w \in Workers,
                      flight[w].pc = "flying", flight'[w].pc = "refused"
               PROVE  run.status \notin {"RUNNING", "BLOCKED"}
    OBVIOUS
  <2>1. ~Accepts(flight[w].action)
    BY RefusingSteps DEF DeliverRefused
  <2>2. Live /\ flight[w].action \in inFlight
    BY DEF FlyingInv, SingleFlight, Busy
  <2> QED
    BY <2>1, <2>2 DEF Accepts
<1> QED
  BY <1>1, <1>2, <1>3, TypeCorrect, NoDoubleExecution, PTL DEF Spec, LateResultAccepted

=============================================================================
