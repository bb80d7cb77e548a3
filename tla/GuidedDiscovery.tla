---------------------------- MODULE GuidedDiscovery ----------------------------
(* One comparison of candidate destinations (build_guided_comparison): collectors *)
(* run in threads, one loop takes their answers, gives up on those that are late  *)
(* and streams each candidate's card when all its domains have an outcome; then   *)
(* the reachable candidates are offered and the others rejected with a reason.    *)
(* Afterwards candidates are read again and one is selected.                      *)
EXTENDS EvidenceKernel

CONSTANTS
    Candidates,  \* the seeds of this comparison
    Configured,  \* the domains that have a collector
    Says,        \* what the collector of each domain may come up with
    Lendable,    \* what other runs may have found out about the trains before
    Timeout,     \* how long each of them may take
    Tolerance,   \* the age up to which railway evidence is fresh
    MaxTime      \* bound on the clock

Domains == {"railway", "map", "web"}

ASSUME ConfiguredAssumption == Configured \subseteq Domains
ASSUME TimesAssumption == /\ Timeout \in [Domains -> Nat \ {0}]
                          /\ Tolerance \in Nat /\ MaxTime \in Nat \ {0}

Futures == Candidates \X Configured

\* What railway evidence says: trips that leave enough of the window, or too little,
\* or of unknown length; estimated ones; sources that disagree.  Of other domains it only
\* matters whether there is evidence.
Usable == {"near", "far", "untimed", "estimated"}
Failures == {"no_source_found", "collector_error", "collector_timeout",
             "cancelled_by_user", "collector_not_configured"}

ASSUME SaysAssumption ==
    Says \in [Domains -> SUBSET (Usable \union {"conflicting", "no_source_found",
                                               "collector_error"})]
ASSUME LendableAssumption == Lendable \subseteq Usable

\* An outcome of one domain of a candidate: what is known, since when, whether it was
\* lent by the broker after a failure, and whether the collector took too long.
Answered(reply, at) == [answer |-> reply, at |-> at, lent |-> FALSE, timedOut |-> FALSE]
Missing(reason) == Answered(reason, NoTime)
NoCheck == Missing("none")
TimedOut == [answer |-> "collector_timeout", at |-> NoTime, lent |-> FALSE, timedOut |-> TRUE]

VARIABLES
    now,
    answer,     \* what each collector thread has come up with
    pending,    \* the futures the loop still waits for
    batch,      \* those it has found completed and not handled yet
    check,      \* checks[seed_id][domain]
    card,       \* the card streamed for each candidate
    cancel,     \* the caller's cancellation event
    phase,      \* where the loop is
    told,       \* whether the result says that the comparison was cancelled
    selected,   \* the candidate the run goes on with
    rail        \* the railway evidence of the selected run: whose it is, and from when

vars == <<now, answer, pending, batch, check, card, cancel, phase, told, selected, rail>>

Start == 1       \* earlier stamps are those of other runs
ReadAt == Start  \* read_at is taken before anything is collected
Taken == Answered("none", Start)   \* a future whose answer is no longer looked at
NoCard == [d \in Domains |-> NoCheck]
NoRail == [of |-> "nobody", at |-> NoTime]
Policies == PoliciesOf(Tolerance, MaxTime)

-----------------------------------------------------------------------------
(* Outcomes as evidence, and what is made of them.                              *)

\* The item behind an outcome; what the broker lends carries the failed refresh.
ItemOf(c) ==
    IF c.answer \in Failures THEN MissingItem(c.answer)
    ELSE [MissingItem(NoReason) EXCEPT
            !.status = CASE c.answer = "estimated" -> "estimated"
                         [] c.answer = "conflicting" -> "conflicting"
                         [] OTHER -> "sourced",
            !.valued = TRUE, !.valueAt = c.at, !.sources = <<c.at>>,
            !.details = IF c.answer = "conflicting" THEN 1 ELSE 0,
            !.failure = IF c.lent THEN FailedAt(NoTime) ELSE NoFailure]

Outcome == [answer : {"none", "conflicting"} \union Failures \union Usable,
            at : 0 .. MaxTime \union {NoTime}, lent : BOOLEAN, timedOut : BOOLEAN]

\* The verdict on each outcome of the railway domain, read as of the comparison's start.
Verdict == [c \in Outcome |-> ProjectDomain(Policies, "railway", ItemOf(c), ReadAt)]
Supported(c) == Verdict[c].support \in {"sourced", "estimated"}

\* stale_after_failure: the outcome stays, or what another run collected is lent.
AfterFailure(c, d) ==
    {c} \union {[answer |-> a, at |-> Start - 1, lent |-> TRUE, timedOut |-> c.timedOut] :
                    a \in IF d = "railway" THEN Lendable ELSE {}}

\* assess_reachability
Admitted(c) == Supported(c) /\ c.answer \in {"near", "estimated"}

\* The reason of a verdict without support.
Unsupported(support) ==
    IF support = "conflicting" THEN "railway_support_conflicting"
    ELSE "railway_support_unknown"

\* Mutant: a late collector whose evidence was not found in time is called unreachable.
ReasonUntimed(c) ==
    CASE ~Supported(c) -> Unsupported(Verdict[c].support)
      [] Supported(c) /\ c.answer = "untimed" -> "railway_duration_unavailable"
      [] OTHER -> "net_playable_below_threshold"

ReasonOf(c) ==
    CASE c.timedOut -> "railway_check_timed_out"
      [] ~c.timedOut /\ ~Supported(c) ->
            Unsupported(Verdict[c].support)
      [] ~c.timedOut /\ Supported(c) /\ c.answer = "untimed" ->
            "railway_duration_unavailable"
      [] OTHER -> "net_playable_below_threshold"

\* _rejection_next_action: that of the evidence, or else "no trains were found".
RejectionAction(c) ==
    CASE ReasonOf(c) = "railway_check_timed_out" -> "auto_refetch"
      [] ReasonOf(c) # "railway_check_timed_out"
            /\ Verdict[c].token # "verified" ->
            Verdict[c].action.kind
      [] OTHER -> "user_supply"

\* emit_ready_options: a card for each candidate all of whose domains have an outcome.
Cards(checks) ==
    [c \in Candidates |->
        IF card[c] = NoCard /\ \A d \in Domains : checks[c][d] # NoCheck
        THEN checks[c] ELSE card[c]]
Streamed == {c \in Candidates : card[c] # NoCard}

-----------------------------------------------------------------------------
(* The comparison.                                                              *)

Init ==
    /\ now = Start
    /\ answer = [f \in Futures |-> NoCheck]
    /\ pending = Futures /\ batch = {}
    /\ check = [c \in Candidates |-> [d \in Domains |->
                    IF d \in Configured THEN NoCheck
                    ELSE Missing("collector_not_configured")]]
    /\ card = [c \in Candidates |-> NoCard]
    /\ cancel = FALSE
    /\ phase = "looking"
    /\ told = FALSE
    /\ selected = "nobody" /\ rail = NoRail

\* A collector answers, raises (as "collector_error"), or never comes back.
Collector(f) ==
    /\ f \in pending /\ answer[f] = NoCheck
    /\ \E a \in Says[f[2]] :
          answer' = [answer EXCEPT ![f] = Answered(a, now)]
    /\ UNCHANGED <<now, pending, batch, check, card, cancel, phase, told, selected, rail>>

Cancel ==
    /\ phase # "returned" /\ ~cancel /\ cancel' = TRUE
    /\ UNCHANGED <<now, answer, pending, batch, check, card, phase, told, selected, rail>>

\* Mutant: the candidates are not streamed once more when the caller has cancelled.
LookSilently ==
    /\ phase = "looking"
    /\ IF cancel \/ pending = {}
       THEN /\ check' = [c \in Candidates |-> [d \in Domains |->
                    IF <<c, d>> \in pending THEN Missing("cancelled_by_user")
                    ELSE check[c][d]]]
            /\ pending' = {} /\ phase' = "ending" /\ UNCHANGED card
       ELSE phase' = "waiting" /\ UNCHANGED <<check, card, pending>>
    /\ UNCHANGED <<now, answer, batch, cancel, told, selected, rail>>

\* Top of the loop: leave it when nothing is pending or the caller has cancelled.
Look ==
    /\ phase = "looking"
    /\ IF cancel \/ pending = {}
       THEN LET checks == [c \in Candidates |-> [d \in Domains |->
                    IF <<c, d>> \in pending THEN Missing("cancelled_by_user")
                    ELSE check[c][d]]]
            IN  /\ check' = checks /\ card' = Cards(checks)
                /\ pending' = {} /\ phase' = "ending"
       ELSE phase' = "waiting" /\ UNCHANGED <<check, card, pending>>
    /\ UNCHANGED <<now, answer, batch, cancel, told, selected, rail>>

Wait ==
    /\ phase = "waiting" /\ phase' = "handling"
    /\ batch' = {f \in pending : answer[f] # NoCheck}
    /\ UNCHANGED <<now, answer, pending, check, card, cancel, told, selected, rail>>

\* Usable evidence is published for other runs first: when that write fails, the
\* evidence is lost to this comparison too.
Outcomes(f) ==
    LET a == answer[f]
    IN  IF a.answer \in Usable
        THEN {a} \union AfterFailure(Missing("collector_error"), f[2])
        ELSE AfterFailure(IF a.answer = "conflicting" THEN a ELSE Missing(a.answer), f[2])

\* Mutant: a future whose answer was taken still has a deadline.
HandleKeeping ==
    /\ phase = "handling" /\ batch # {}
    /\ \E f \in batch :
          /\ \E outcome \in Outcomes(f) : check' = [check EXCEPT ![f[1]][f[2]] = outcome]
          /\ batch' = batch \ {f}
          /\ answer' = [answer EXCEPT ![f] = Taken]
    /\ UNCHANGED <<now, pending, card, cancel, phase, told, selected, rail>>

Handle ==
    /\ phase = "handling" /\ batch # {}
    /\ \E f \in batch :
          /\ \E outcome \in Outcomes(f) : check' = [check EXCEPT ![f[1]][f[2]] = outcome]
          /\ batch' = batch \ {f} /\ pending' = pending \ {f}
          /\ answer' = [answer EXCEPT ![f] = Taken]
    /\ UNCHANGED <<now, card, cancel, phase, told, selected, rail>>

Late(f) == now - Start >= Timeout[f[2]]

\* One look at the clock, once what had been found completed is handled: what completes
\* after that is late all the same.
Deadlines ==
    /\ phase = "handling" /\ batch = {} /\ phase' = "expiring"
    /\ batch' = {f \in pending : Late(f)}
    /\ UNCHANGED <<now, answer, pending, check, card, cancel, told, selected, rail>>

\* Mutant: a collector that is late is told so but still waited for.
GiveUpKeeping ==
    /\ phase = "expiring" /\ batch # {}
    /\ \E f \in batch :
          /\ \E outcome \in AfterFailure(TimedOut, f[2]) :
                check' = [check EXCEPT ![f[1]][f[2]] = outcome]
          /\ batch' = batch \ {f}
    /\ UNCHANGED <<now, answer, pending, card, cancel, phase, told, selected, rail>>

\* A late future is given up; when its thread has answered, nobody reads that.
GiveUp ==
    /\ phase = "expiring" /\ batch # {}
    /\ \E f \in batch :
          /\ \E outcome \in AfterFailure(TimedOut, f[2]) :
                check' = [check EXCEPT ![f[1]][f[2]] = outcome]
          /\ batch' = batch \ {f} /\ pending' = pending \ {f}
          /\ answer' = [answer EXCEPT ![f] = IF @ = NoCheck THEN NoCheck ELSE Taken]
    /\ UNCHANGED <<now, card, cancel, phase, told, selected, rail>>

\* End of the round: the candidates with an outcome in every domain are streamed.
Emit ==
    /\ phase = "expiring" /\ batch = {} /\ phase' = "looking"
    /\ card' = Cards(check)
    /\ UNCHANGED <<now, answer, pending, batch, check, cancel, told, selected, rail>>

\* The result reads the cancellation again; what it says of the candidates follows from
\* their outcomes, which no longer change.
End ==
    /\ phase = "ending" /\ phase' = "returned"
    /\ told' = cancel
    /\ UNCHANGED <<now, answer, pending, batch, check, card, cancel, selected, rail>>

\* The options: those _admit_reachable lets through.
Options ==
    IF phase = "returned" THEN {c \in Streamed : Admitted(check[c]["railway"])} ELSE {}

\* rejected_candidates: the reachability failures, each with its reason and next action.
Rejected ==
    LET reject(c) == [of |-> c, reason |-> ReasonOf(check[c]["railway"]),
                      action |-> RejectionAction(check[c]["railway"])]
    IN  IF phase = "returned" THEN {reject(c) : c \in Streamed \ Options} ELSE {}

-----------------------------------------------------------------------------
(* Afterwards: the evidence of all candidates is in guided-comparison.json.      *)

\* select_candidate: the run goes on with the evidence of the option.
Select ==
    /\ phase = "returned" /\ selected = "nobody"
    /\ \E c \in Options :
          selected' = c /\ rail' = [of |-> c, at |-> check[c]["railway"].at]
    /\ UNCHANGED <<now, answer, pending, batch, check, card, cancel, phase, told>>

\* Candidates are read where reads collect again: stale railway evidence of each
\* candidate is asked for with the run's own intent, and whatever came of the last one
\* replaces the run's railway evidence.  The file keeps what it has; before a selection
\* there is no loop to write to.
ReadCandidates ==
    /\ selected # "nobody"
    /\ \E c \in Candidates :
          /\ NeedsRefetch(Policies, "railway", ItemOf(check[c]["railway"]), now, 0)
          /\ rail' \in {[of |-> selected, at |-> now],
                        [of |-> c, at |-> check[c]["railway"].at]}
    /\ UNCHANGED <<now, answer, pending, batch, check, card, cancel, phase, told, selected>>

Tick ==
    /\ now < MaxTime /\ now' = now + 1
    /\ UNCHANGED <<answer, pending, batch, check, card, cancel, phase, told, selected, rail>>

Loop == Look \/ Wait \/ Handle \/ Deadlines \/ GiveUp \/ Emit \/ End

Next ==
    \/ \E f \in Futures : Collector(f)
    \/ Cancel
    \/ Loop
    \/ Select \/ ReadCandidates
    \/ Tick

\* The loop waits 50 ms at most and the clock goes on; no collector need ever answer.
Spec == Init /\ [][Next]_vars /\ WF_vars(Loop) /\ WF_vars(Tick)

-----------------------------------------------------------------------------
(* Properties.                                                                  *)

\* Types of the variables: clock, threads, the loop, the result and the selected run.
TypeOK ==
    /\ now \in Start .. MaxTime
    /\ answer \in [Futures -> Outcome]
    /\ batch \subseteq pending /\ pending \subseteq Futures
    /\ check \in [Candidates -> [Domains -> Outcome]]
    /\ card \in [Candidates -> [Domains -> Outcome]]
    /\ cancel \in BOOLEAN /\ phase \in {"looking", "waiting", "handling", "expiring", "ending",
                                       "returned"}
    /\ told \in BOOLEAN
    /\ selected \in Candidates \union {"nobody"}
    /\ rail \in [of : Candidates \union {"nobody"}, at : 0 .. MaxTime \union {NoTime}]

\* What was streamed about a candidate is what the comparison returns: no late answer,
\* deadline or cancellation changes an outcome after its card went out.
StreamedIsReturned ==
    \A c \in Candidates : card[c] # NoCard => card[c] = check[c]

\* Every candidate ends up among the options or among the rejected, never in both, and
\* the rejected come with something that can be done about it; nobody is offered whose
\* trains could not be found.
NobodyVanishes ==
    phase = "returned" =>
        /\ {x.of : x \in Rejected} = Candidates \ Options
        /\ \A x \in Rejected : x.action # "none"
        /\ \A c \in Options : check[c]["railway"].answer \notin Failures

\* The result gives the reason that was the case: a candidate whose trains nobody
\* answered for is told apart from one without trains and is to be asked again; one about
\* whose trains the sources disagree, with no earlier evidence in their place, is
\* rejected for just that; and a comparison that was cut short says it was cancelled.
ReasonsAreTold ==
    phase = "returned" =>
        /\ \A x \in Rejected :
            /\ <<x.of, "railway">> \in Futures /\ answer[<<x.of, "railway">>] = NoCheck
            /\ ~told
            => x.reason = "railway_check_timed_out" /\ x.action = "auto_refetch"
        /\ \A c \in Candidates : check[c]["railway"].answer = "conflicting" =>
            \E x \in Rejected : /\ x.of = c /\ x.reason = "railway_support_conflicting"
                                /\ x.action = "user_choice"
        /\ (\E c \in Candidates, d \in Domains : check[c][d].answer = "cancelled_by_user")
            => told

\* The comparison ends, whether or not the collectors answer.
ComparisonEnds == <>(phase = "returned")

-----------------------------------------------------------------------------
(* What documents of the code say and its steps do not keep.                    *)

\* Once a candidate is selected, the run's railway evidence is about that candidate.
RailIsOfSelection == rail.of = selected
=============================================================================
