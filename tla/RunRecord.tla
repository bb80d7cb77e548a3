----------------------------- MODULE RunRecord -----------------------------
(***************************************************************************)
(* The persisted record of one run (AgentRun, run.json) and the transitions *)
(* InMemoryAgentStore offers on it.  Every store call takes the store's     *)
(* lock, changes the record and writes run.json before it returns, so other *)
(* threads see the record and its file change together: one record stands   *)
(* for both.  Pure operators only; the modules of the components that call  *)
(* the store own the variable.                                              *)
(***************************************************************************)

CONSTANT Intents    \* the travel intents a user may ask for

Statuses == {"AWAITING_CONFIRMATION", "CONFIRMED", "RUNNING",
             "COMPLETED", "BLOCKED", "FAILED"}

\* run.result, reduced to what the guards of the code tell apart: discovery's
\* candidate cards; a result without an installable plan (the placeholder of a
\* blocked run, a planner's draft); a PlanVersion computed for an intent.
NoResult   == [kind |-> "none"]
Comparison == [kind |-> "comparison"]
Unfinished == [kind |-> "unfinished"]
PlanFor(i) == [kind |-> "plan", intent |-> i, edited |-> FALSE]
Edited(r)  == [r EXCEPT !.edited = TRUE]

Results == {NoResult, Comparison, Unfinished} \union
           [kind : {"plan"}, intent : Intents, edited : BOOLEAN]

Runs == [status : Statuses, intent : Intents, result : Results]

-----------------------------------------------------------------------------
\* Guards: the status tests that make a store call raise.

CanStart(run)    == run.status = "CONFIRMED"
CanComplete(run) == run.status = "RUNNING"
CanResume(run)   == run.status = "COMPLETED"
CanRevise(run)   == /\ run.status \in {"COMPLETED", "BLOCKED", "FAILED"}
                    /\ run.result # NoResult

\* Transitions.

Started(run)     == [run EXCEPT !.status = "RUNNING"]
Resumed(run)     == [run EXCEPT !.status = "RUNNING"]
Recorded(run, r) == [run EXCEPT !.result = r]       \* record_result: no guard
Revised(run, i)  == [run EXCEPT !.status = "CONFIRMED", !.intent = i]

\* Mutant: a failed run does not keep the result it had.
FailedBare(run)  == [run EXCEPT !.status = "FAILED", !.result = NoResult]

Failed(run)      == [run EXCEPT !.status = "FAILED"]   \* fail: no guard
Completed(run, r) == IF CanComplete(run)
                     THEN [run EXCEPT !.status = "COMPLETED", !.result = r]
                     ELSE run                       \* complete() raises

\* block() raises unless the run is RUNNING; no caller handles the exception
\* by touching the run again.
Blocked(run, r)  == IF run.status = "RUNNING"
                    THEN [run EXCEPT !.status = "BLOCKED", !.result = r]
                    ELSE run

=============================================================================
