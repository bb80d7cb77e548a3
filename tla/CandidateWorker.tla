--------------------------- MODULE CandidateWorker ---------------------------
(***************************************************************************)
(* The comparison phase of one discovery run (trip_application.py): tool    *)
(* calls start a worker thread that compares candidates, poll it, settle it *)
(* as lost when this process has none, retry a failed comparison, or select *)
(* a candidate and so turn the run into a direct plan, whose loop is        *)
(* ActionLoop's matter.  A revision may be asked for as well, though there  *)
(* is no plan to revise.                                                    *)
(*                                                                          *)
(* No lock spans two store calls: every read, test of the worker's          *)
(* registration and store call is a step of its own.  Guided and open       *)
(* discovery differ in data only.                                           *)
(***************************************************************************)
EXTENDS Integers, FiniteSets

CONSTANTS
  Callers,     \* threads of tool calls
  Workers,     \* threads of _candidate_comparison_background, each used once
  MaxStarts,   \* bound: calls that set out to start or retry a comparison
  MaxRevisions, \* bound: calls that ask for a revision
  MaxCrashes   \* bound: process crashes explored

ASSUME MaxStartsAssumption ==
  MaxStarts \in Nat /\ IsFiniteSet(Workers) /\ Cardinality(Workers) >= MaxStarts
ASSUME MaxRevisionsAssumption == MaxRevisions \in Nat
ASSUME MaxCrashesAssumption == MaxCrashes \in Nat

INSTANCE RunRecord WITH Intents <- {"discovery", "direct"}

\* Results of this phase: the options of worker t's comparison, the account of a
\* failed one, which may carry a fallback card, or of a lost one, which does not.
OptionsOf(t) == [kind |-> "comparison", by |-> t]
Options      == {OptionsOf(t) : t \in Workers}
Lost         == [kind |-> "lost"]
PhaseResults == {NoResult, Unfinished, Lost} \union Options

Codes == {"none", "GUIDED_COMPARISON_UNAVAILABLE", "INTERNAL_ERROR_WORKER_LOST",
          "INTERNAL_ERROR", "REVISION_EXECUTION_FAILED"}
RetryableBlockCodes == {"GUIDED_COMPARISON_UNAVAILABLE", "INTERNAL_ERROR_WORKER_LOST"}

CallerSteps == {"idle", "polled", "settling", "starting", "registering", "spawning",
                "selected", "continued", "asked", "prepared", "revising"}
WorkerSteps == {"new", "reading", "comparing", "publishing", "completing",
                "failing", "blocking", "leaving", "gone"}
NoFile == [kind |-> "none"]

VARIABLES
  run,          \* the run record, memory and run.json
  registered,   \* run_id \in _cancellations
  caller,       \* what each tool call does next
  card,         \* the result the card that was selected comes from
  asked,        \* the intent a call that revises the run read last
  worker,       \* what each comparison thread does next
  error,        \* the code a failing thread would block the run with
  guided,       \* evidence/guided-comparison.json: whose evidence it holds
  loop,         \* does the run have an action loop
  starts, revisions, crashes   \* how many there have been

threads == <<registered, caller, card, asked, worker, error>>
bounds  == <<starts, revisions, crashes>>
vars    == <<run, threads, guided, loop, bounds>>

Init ==
  /\ run = [status |-> "CONFIRMED", intent |-> "discovery", code |-> "none",
            result |-> NoResult]
  /\ registered = FALSE
  /\ caller = [c \in Callers |-> "idle"] /\ card = [c \in Callers |-> NoResult]
  /\ asked = [c \in Callers |-> run.intent]
  /\ worker = [t \in Workers |-> "new"] /\ error = [t \in Workers |-> "none"]
  /\ guided = NoFile /\ loop = FALSE
  /\ starts = 0 /\ revisions = 0 /\ crashes = 0

CallerGoes(c, from, to) == caller[c] = from /\ caller' = [caller EXCEPT ![c] = to]
WorkerGoes(t, from, to) == worker[t] = from /\ worker' = [worker EXCEPT ![t] = to]

-----------------------------------------------------------------------------
(* The run record.                                                         *)

\* _is_retryable_comparison_block
Retryable == /\ run.status = "BLOCKED" /\ run.code \in RetryableBlockCodes
             /\ run.intent = "discovery"

Startable == CanStart(run) \/ Retryable

BlockedWith(r, code) ==
  IF run.status = "RUNNING" THEN [Blocked(run, r) EXCEPT !.code = code] ELSE run

-----------------------------------------------------------------------------
(* Polling: execute_trip on a RUNNING run.                                  *)

Poll(c) ==
  /\ run.status = "RUNNING" /\ run.intent = "discovery" /\ ~loop
  /\ CallerGoes(c, "idle", "polled")
  /\ UNCHANGED <<run, registered, card, asked, worker, error, guided, loop, bounds>>

LookForWorker(c) ==
  /\ CallerGoes(c, "polled", IF registered THEN "idle" ELSE "settling")
  /\ UNCHANGED <<run, registered, card, asked, worker, error, guided, loop, bounds>>

\* Mutant: the run is settled as lost whatever has become of it.
SettleLostAnyway(c) ==
  /\ CallerGoes(c, "settling", "idle")
  /\ run' = [run EXCEPT !.status = "BLOCKED", !.result = Lost,
                        !.code = "INTERNAL_ERROR_WORKER_LOST"]
  /\ UNCHANGED <<registered, card, asked, worker, error, guided, loop, bounds>>

\* _settle_lost_candidate_worker; block() raises when the run is not RUNNING.
SettleLost(c) ==
  /\ CallerGoes(c, "settling", "idle")
  /\ run' = BlockedWith(Lost, "INTERNAL_ERROR_WORKER_LOST")
  /\ UNCHANGED <<registered, card, asked, worker, error, guided, loop, bounds>>

-----------------------------------------------------------------------------
(* Starting and retrying: execute_trip on a CONFIRMED or retryable run.     *)

\* execute_trip reads the run, and _start_candidate_comparison its mode again:
\* one step, since a mode seen by the second read was there at the first.
SetOut(c) ==
  /\ starts < MaxStarts /\ starts' = starts + 1
  /\ Startable /\ run.intent = "discovery"
  /\ CallerGoes(c, "idle", "starting")
  /\ UNCHANGED <<run, registered, card, asked, worker, error, guided, loop, revisions, crashes>>

Start(c) ==
  /\ CallerGoes(c, "starting", IF Startable THEN "registering" ELSE "idle")
  /\ run' = IF Startable THEN Started(run) ELSE run
  /\ UNCHANGED <<registered, card, asked, worker, error, guided, loop, bounds>>

\* Mutant: the registration is not looked up.
RegisterAnyway(c) ==
  /\ CallerGoes(c, "registering", "spawning")
  /\ registered' = TRUE
  /\ UNCHANGED <<run, card, asked, worker, error, guided, loop, bounds>>

\* _ensure_candidate_comparison_worker leaves a registered worker to it.
Register(c) ==
  /\ CallerGoes(c, "registering", IF registered THEN "idle" ELSE "spawning")
  /\ registered' = TRUE
  /\ UNCHANGED <<run, card, asked, worker, error, guided, loop, bounds>>

Spawn(c, t) ==
  /\ CallerGoes(c, "spawning", "idle") /\ WorkerGoes(t, "new", "reading")
  /\ UNCHANGED <<run, registered, card, asked, error, guided, loop, bounds>>

SpawnFails(c) ==
  /\ CallerGoes(c, "spawning", "idle")
  /\ registered' = FALSE
  /\ UNCHANGED <<run, card, asked, worker, error, guided, loop, bounds>>

-----------------------------------------------------------------------------
(* Selecting a candidate, and direct planning.                              *)

\* select_candidate reads the run: a card of a completed comparison, or the
\* fallback card of one that failed.
Choose(c) ==
  /\ \/ run.status = "COMPLETED" /\ run.result \in Options
     \/ run.status = "BLOCKED" /\ run.result = Unfinished
  /\ CallerGoes(c, "idle", "selected")
  /\ card' = [card EXCEPT ![c] = run.result]
  /\ UNCHANGED <<run, registered, asked, worker, error, guided, loop, bounds>>

\* continue_with_intent
Continue(c) ==
  LET may == run.status = "COMPLETED" \/ Retryable IN
  /\ CallerGoes(c, "selected", IF may THEN "continued" ELSE "idle")
  /\ run' = IF may THEN [run EXCEPT !.status = "CONFIRMED", !.intent = "direct",
                                    !.code = "none"]
            ELSE run
  /\ UNCHANGED <<registered, card, asked, worker, error, guided, loop, bounds>>

\* guided_evidence_for_selection, unless the card is the fallback, and then
\* start_action_loop; either may raise.
StartSelected(c) ==
  LET can == CanStart(run) /\ (card[c] = Unfinished \/ guided # NoFile) IN
  /\ CallerGoes(c, "continued", "idle")
  /\ run' = IF can THEN Started(run) ELSE run
  /\ loop' = (can \/ loop)
  /\ UNCHANGED <<registered, card, asked, worker, error, guided, bounds>>

\* execute_trip on a direct plan whose loop was not started: execute_direct_plan
\* or, when the run is RUNNING already, resume_missing_action_loop.
ExecuteDirect(c) ==
  /\ caller[c] = "idle" /\ run.intent = "direct" /\ ~loop
  /\ run.status \in {"CONFIRMED", "RUNNING"}
  /\ run' = Started(run) /\ loop' = TRUE
  /\ UNCHANGED <<threads, guided, bounds>>

-----------------------------------------------------------------------------
(* Revising: revise_trip and revise_run, which ask for no mode.              *)

\* The intent is read here; status and result are tested now and again below.
AskRevision(c) ==
  /\ revisions < MaxRevisions /\ revisions' = revisions + 1
  /\ CallerGoes(c, "idle", "asked")
  /\ asked' = [asked EXCEPT ![c] = run.intent]
  /\ UNCHANGED <<run, registered, card, worker, error, guided, loop, starts, crashes>>

\* prepare_revision
PrepareRevision(c) ==
  /\ CallerGoes(c, "asked", IF CanRevise(run) THEN "prepared" ELSE "idle")
  /\ run' = IF CanRevise(run) THEN [Revised(run, asked[c]) EXCEPT !.code = "none"] ELSE run
  /\ UNCHANGED <<registered, card, asked, worker, error, guided, loop, bounds>>

StartRevision(c) ==
  /\ CallerGoes(c, "prepared", IF Startable THEN "revising" ELSE "idle")
  /\ run' = IF Startable THEN Started(run) ELSE run
  /\ UNCHANGED <<registered, card, asked, worker, error, guided, loop, bounds>>

\* No result of this phase has a plan: the executor raises, and the run fails
\* whatever has become of it.
FailRevision(c) ==
  /\ CallerGoes(c, "revising", "idle")
  /\ run' = [Failed(run) EXCEPT !.code = "REVISION_EXECUTION_FAILED"]
  /\ UNCHANGED <<registered, card, asked, worker, error, guided, loop, bounds>>

-----------------------------------------------------------------------------
(* The worker.                                                             *)

Alive(t) == worker[t] \notin {"new", "gone"}

\* A run that was turned into a direct plan is refused (TravelAgentError).
ReadRun(t) ==
  /\ WorkerGoes(t, "reading",
                IF run.intent = "discovery" THEN "comparing" ELSE "failing")
  /\ error' = [error EXCEPT ![t] = IF run.intent = "discovery" THEN @
                                   ELSE "GUIDED_COMPARISON_UNAVAILABLE"]
  /\ UNCHANGED <<run, registered, caller, card, asked, guided, loop, bounds>>

Compare(t) ==
  /\ WorkerGoes(t, "comparing", "publishing")
  /\ UNCHANGED <<run, registered, caller, card, asked, error, guided, loop, bounds>>

\* Mutant: the exception's type is taken for the code.
RaiseTypeName(t, code) ==
  /\ worker[t] \in {"comparing", "publishing", "completing"}
  /\ worker' = [worker EXCEPT ![t] = "failing"]
  /\ error' = [error EXCEPT ![t] = "TravelAgentError"]
  /\ UNCHANGED <<run, registered, caller, card, asked, guided, loop, bounds>>

\* The comparison, the file write or an event write raises.
Raise(t, code) ==
  /\ worker[t] \in {"comparing", "publishing", "completing"}
  /\ worker' = [worker EXCEPT ![t] = "failing"]
  /\ error' = [error EXCEPT ![t] = code]
  /\ UNCHANGED <<run, registered, caller, card, asked, guided, loop, bounds>>

\* Mutant: the run is completed before the evidence is on disk.
CompleteFirst(t) ==
  /\ WorkerGoes(t, "publishing", "leaving")
  /\ run' = Completed(run, OptionsOf(t))
  /\ UNCHANGED <<registered, caller, card, asked, error, guided, loop, bounds>>

\* persist_guided_evidence
Publish(t) ==
  /\ WorkerGoes(t, "publishing", "completing")
  /\ guided' = OptionsOf(t)
  /\ UNCHANGED <<run, registered, caller, card, asked, error, loop, bounds>>

Complete(t) ==
  /\ WorkerGoes(t, "completing", IF CanComplete(run) THEN "leaving" ELSE "failing")
  /\ run' = Completed(run, OptionsOf(t))
  /\ error' = [error EXCEPT ![t] = IF CanComplete(run) THEN @
                                   ELSE "GUIDED_COMPARISON_UNAVAILABLE"]
  /\ UNCHANGED <<registered, caller, card, asked, guided, loop, bounds>>

\* The handler of the exception reads the run and blocks it if it is RUNNING.
Handle(t) ==
  /\ WorkerGoes(t, "failing", IF run.status = "RUNNING" THEN "blocking" ELSE "leaving")
  /\ UNCHANGED <<run, registered, caller, card, asked, error, guided, loop, bounds>>

BlockFailed(t) ==
  /\ WorkerGoes(t, "blocking", "leaving")
  /\ run' = BlockedWith(Unfinished, error[t])
  /\ UNCHANGED <<registered, caller, card, asked, error, guided, loop, bounds>>

\* Mutant: the registration outlives the worker.
LeaveRegistered(t) ==
  /\ WorkerGoes(t, "leaving", "gone")
  /\ UNCHANGED <<run, registered, caller, card, asked, error, guided, loop, bounds>>

\* finally: the registration is removed.
Leave(t) ==
  /\ WorkerGoes(t, "leaving", "gone")
  /\ registered' = FALSE
  /\ UNCHANGED <<run, caller, card, asked, error, guided, loop, bounds>>

-----------------------------------------------------------------------------
\* A crash ends every thread; run.json, the evidence and the loop are on disk.
Crash ==
  /\ crashes < MaxCrashes /\ crashes' = crashes + 1
  /\ registered' = FALSE
  /\ caller' = [c \in Callers |-> "idle"]
  /\ worker' = [t \in Workers |-> IF Alive(t) THEN "gone" ELSE worker[t]]
  /\ UNCHANGED <<run, card, asked, error, guided, loop, starts, revisions>>

Call(c) == \/ LookForWorker(c) \/ SettleLost(c)
           \/ Start(c) \/ Register(c) \/ (\E t \in Workers : Spawn(c, t)) \/ SpawnFails(c)
           \/ Continue(c) \/ StartSelected(c)
           \/ PrepareRevision(c) \/ StartRevision(c) \/ FailRevision(c)

Ask(c) == Poll(c) \/ SetOut(c) \/ Choose(c) \/ ExecuteDirect(c) \/ AskRevision(c)

Work(t) == \/ ReadRun(t) \/ Compare(t) \/ Publish(t) \/ Complete(t)
           \/ Handle(t) \/ BlockFailed(t) \/ Leave(t)
           \/ \E code \in {"GUIDED_COMPARISON_UNAVAILABLE", "INTERNAL_ERROR"} :
                Raise(t, code)

Next == \/ \E c \in Callers : Ask(c) \/ Call(c)
        \/ \E t \in Workers : Work(t)
        \/ Crash

Spec == Init /\ [][Next]_vars

\* Calls and workers that have begun go on, a comparison ends because each of
\* its queries has a deadline, and the host polls a run that is RUNNING.
FairSpec == /\ Spec
            /\ \A c \in Callers : WF_vars(Call(c)) /\ WF_vars(Poll(c))
            /\ \A t \in Workers : WF_vars(Work(t))

-----------------------------------------------------------------------------
(* Properties.                                                             *)

\* Every variable stays in the type the code gives it.
TypeOK ==
  /\ run \in [status : Statuses \ {"AWAITING_CONFIRMATION"},
              intent : {"discovery", "direct"}, code : Codes, result : PhaseResults]
  /\ registered \in BOOLEAN /\ loop \in BOOLEAN
  /\ caller \in [Callers -> CallerSteps] /\ card \in [Callers -> PhaseResults]
  /\ asked \in [Callers -> {"discovery", "direct"}]
  /\ worker \in [Workers -> WorkerSteps] /\ error \in [Workers -> Codes]
  /\ guided \in {NoFile} \union Options
  /\ starts \in 0 .. MaxStarts /\ revisions \in 0 .. MaxRevisions /\ crashes \in 0 .. MaxCrashes

\* A comparison is never run by two threads at once, however starts, retries,
\* polls and dying workers interleave: a worker about to start or alive is
\* registered, and there is one at most.
OneWorker ==
  /\ \A t \in Workers : Alive(t) => registered
  /\ \A c \in Callers : caller[c] = "spawning" => registered
  /\ \A s, t \in Workers : Alive(s) /\ Alive(t) => s = t
  /\ \A c, d \in Callers : caller[c] = "spawning" /\ caller[d] = "spawning" => c = d
  /\ \A c \in Callers, t \in Workers : ~(caller[c] = "spawning" /\ Alive(t))

\* A comparison is completed with options whose evidence is on disk, from the
\* same comparison: a selection hands that file over to the action loop.
OptionsAreBacked ==
  [][run.status # "COMPLETED" /\ run'.status = "COMPLETED" => run'.result = guided']_vars

\* Options once shown are not overwritten, and stay on show until the user selects
\* one of them or asks for a revision: a poll that has seen no worker, or a failing
\* worker, comes too late.  The revision may be one that was begun before they were
\* shown and fails only now.
OptionsStay ==
  [][run.status = "COMPLETED" /\ run' # run =>
       /\ run'.result = run.result
       /\ \E c \in Callers :
            /\ caller'[c] # caller[c]
            /\ \/ caller[c] = "selected" /\ run'.status = "CONFIRMED" /\ run'.intent = "direct"
               \/ caller[c] = "asked" /\ run'.status = "CONFIRMED"
               \/ caller[c] = "revising" /\ run'.status = "FAILED"]_vars

\* A run that has a loop is the loop's to settle, whatever its mode.
Comparing == run.status = "RUNNING" /\ run.intent = "discovery" /\ ~loop

\* Every comparison settles, even if its worker was never spawned, died with the
\* process, or the retry that restarted it relied on a worker about to leave.
ComparisonSettles == Comparing ~> ~Comparing

\* A run is settled as WORKER_LOST only when its thread cannot come back: nobody
\* is comparing for it or about to start the comparison.
LostMeansLost ==
  [][\A c \in Callers :
       caller[c] = "settling" /\ caller'[c] = "idle" /\ run' # run =>
         /\ \A t \in Workers : ~Alive(t)
         /\ \A d \in Callers : caller[d] \notin {"registering", "spawning"}]_vars

\* prepare_revision says 上一版继续可用, the last version stays available: what is
\* revised is not overwritten before the revision has ended.
RevisedIsKept ==
  [][\A c \in Callers :
       caller[c] = "revising" /\ caller'[c] = "revising" => run'.result = run.result]_vars
=============================================================================
