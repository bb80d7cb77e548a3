----------------------------- MODULE EvidenceKernel -----------------------------
(* The evidence kernel (evidence_core.py) and the projection that feeds it       *)
(* (evidence_projection.py): what support and how fresh a stored item is at the  *)
(* moment it is read, and what is to be done about it.  Pure operators; times    *)
(* are numbers, NoTime stands for a stamp that is absent or does not parse.      *)
EXTENDS Integers, FiniteSets, Sequences, SequencesExt

NoTime == -1
NoReason == "none"

-----------------------------------------------------------------------------
(* Values and tokens.                                                          *)

SupportValues == {"sourced", "estimated", "conflicting", "unknown"}
FreshnessValues == {"fresh", "stale", "undated"}

\* _TOKEN_TABLE and combine_token.
Token(support, freshness) ==
    CASE support \in {"conflicting", "unknown"} -> support
      [] support = "sourced" /\ freshness = "fresh" -> "verified"
      [] support = "sourced" /\ freshness = "stale" -> "sourced_stale"
      [] support = "sourced" /\ freshness = "undated" -> "sourced_undated"
      [] support = "estimated" /\ freshness = "fresh" -> "estimated"
      [] support = "estimated" /\ freshness = "stale" -> "estimated_stale"
      [] support = "estimated" /\ freshness = "undated" -> "estimated_undated"

TokenSupport(token) ==
    CASE token \in {"verified", "sourced_stale", "sourced_undated"} -> "sourced"
      [] token \in {"estimated", "estimated_stale", "estimated_undated"} -> "estimated"
      [] OTHER -> token

\* "absorbed": the token of a conflicting or unknown fact carries no freshness.
TokenFreshness(token) ==
    CASE token \in {"verified", "estimated"} -> "fresh"
      [] token \in {"sourced_stale", "estimated_stale"} -> "stale"
      [] token \in {"sourced_undated", "estimated_undated"} -> "undated"
      [] OTHER -> "absorbed"

DerivationsEstimated == {"api_estimate", "model_estimate", "rule_derived"}
DerivationsSourced == {"direct_observation", "official_report", "user_supplied"}

UnknownReasons == {"no_source_found", "collector_not_configured", "collector_timeout",
    "collector_error", "classification_failed", "cancelled_by_user",
    "input_precondition_unmet", "internal_contract_violation",
    "source_rejected_by_policy"}
ReasonCodes == UnknownReasons \union {"sources_disagree", "derived_by_rule",
    "derived_by_provider_estimate", "beyond_tolerance_window", "refresh_failed",
    "retrieved_at_absent"}

-----------------------------------------------------------------------------
(* One fact.  fact.conclusion says whether its value carries a conclusion (also *)
(* a confirmed absence, fact.absent), fact.details and fact.refs count the      *)
(* conflict details and the sources that disagree, fact.sources are the stamps  *)
(* of its sources.                                                              *)

SourcesComplete(fact) ==
    fact.sources # <<>> /\ \A i \in DOMAIN fact.sources : fact.sources[i] # NoTime

\* classify_support raises instead.
ContractBroken(fact) == fact.conclusion /\ fact.details > 0 /\ fact.refs < 2

\* The first rule that applies wins.
ClassifySupport(fact) ==
    LET verdict(support, reason) ==
            [support |-> support, reason |-> reason, absent |-> FALSE]
    IN  CASE ~fact.conclusion ->
                verdict("unknown",
                        IF fact.reason = NoReason THEN "no_source_found" ELSE fact.reason)
          [] fact.conclusion /\ fact.details > 0 ->
                verdict("conflicting", "sources_disagree")
          [] fact.conclusion /\ fact.details = 0
                /\ fact.derivation \in DerivationsEstimated ->
                verdict("estimated", IF fact.derivation = "rule_derived"
                                     THEN "derived_by_rule"
                                     ELSE "derived_by_provider_estimate")
          [] fact.conclusion /\ fact.details = 0
                /\ fact.derivation \in DerivationsSourced /\ SourcesComplete(fact) ->
                [support |-> "sourced", reason |-> NoReason, absent |-> fact.absent]
          [] OTHER -> verdict("unknown", "classification_failed")

ResolveFreshness(at, now, tolerance, failed, failedAt) ==
    LET base == IF now - at <= tolerance THEN "fresh" ELSE "stale"
        capped == /\ failed \/ failedAt # NoTime
                  /\ failedAt = NoTime \/ failedAt > at
    IN  IF at = NoTime \/ at > now
        THEN [value |-> "undated", capped |-> FALSE]
        ELSE [value |-> IF capped THEN "stale" ELSE base, capped |-> capped]

FirstRetrievedAt(fact) ==
    LET stamped == SelectSeq(fact.sources, LAMBDA at : at # NoTime)
    IN  IF stamped = <<>> THEN NoTime ELSE stamped[1]

-----------------------------------------------------------------------------
(* What is to be done about a fact that is not verified.                        *)

ReasonFor(support, freshness, reason, capped) ==
    LET staleReason == IF capped THEN "refresh_failed" ELSE "beyond_tolerance_window"
    IN  CASE support \in {"sourced", "estimated"} /\ freshness = "stale" -> staleReason
          [] support \in {"sourced", "estimated"} /\ freshness = "undated" ->
                "retrieved_at_absent"
          [] OTHER -> IF reason # NoReason THEN reason
                      ELSE CASE support = "conflicting" -> "sources_disagree"
                             [] support = "estimated" -> "derived_by_provider_estimate"
                             [] OTHER -> "classification_failed"

\* Mutant: the user is to choose what to do about a refresh that failed.
KindOfChoice(reason) ==
    CASE reason = "refresh_failed" -> "user_choice"
      [] reason = "beyond_tolerance_window" -> "auto_refetch"
      [] OTHER -> "user_supply"

KindOf(reason) ==
    CASE reason \in {"no_source_found", "collector_not_configured",
                     "input_precondition_unmet"} -> "user_supply"
      [] reason \in {"collector_timeout", "collector_error", "source_rejected_by_policy",
                     "beyond_tolerance_window", "refresh_failed"} -> "auto_refetch"
      [] reason \in {"classification_failed", "cancelled_by_user",
                     "retrieved_at_absent"} -> "user_confirm"
      [] reason = "sources_disagree" -> "user_choice"
      [] reason \in {"internal_contract_violation", "derived_by_rule",
                     "derived_by_provider_estimate"} -> "accept_as_is"

ActorOf(reason) ==
    CASE reason \in {"no_source_found", "cancelled_by_user", "input_precondition_unmet",
                     "sources_disagree", "retrieved_at_absent"} -> "user"
      [] reason \in {"derived_by_rule", "derived_by_provider_estimate"} -> "either"
      [] OTHER -> "system"

ResolveBlocking(support, freshness, critical, onStale) ==
    LET expired == critical /\ support = "sourced" /\ freshness # "fresh"
        stops == onStale \in {"auto_refetch", "block"}
    IN  [blocking |-> \/ critical /\ support \in {"unknown", "conflicting"}
                      \/ expired /\ stops,
         conditional |-> \/ critical /\ support = "estimated"
                         \/ expired /\ ~stops]

\* build_next_action; "verified" facts have none.  options counts the choices.
NextAction(verdict, fresh, policy, options) ==
    LET reason == ReasonFor(verdict.support, fresh.value, verdict.reason, fresh.capped)
    IN  [kind |-> KindOf(reason), reason |-> reason, actor |-> ActorOf(reason),
         blocking |-> ResolveBlocking(verdict.support, fresh.value,
                                      policy.critical, policy.onStale).blocking,
         options |-> IF KindOf(reason) = "user_choice" THEN options ELSE 0]

NoAction == [kind |-> "none"]

\* validate_next_action: what it requires of an action, given the token.
ValidNextAction(action, token) ==
    IF token = "verified" THEN action = NoAction
    ELSE /\ action # NoAction
         /\ action.reason \in ReasonCodes
         /\ (action.kind = "user_choice") <=> (action.options > 0)

\* evaluate_fact: support, freshness, token and next action of one fact.
EvaluateFact(fact, policy, now) ==
    LET verdict == ClassifySupport(fact)
        fresh == ResolveFreshness(IF fact.at # NoTime THEN fact.at ELSE FirstRetrievedAt(fact),
                                  now, policy.tolerance, fact.failed, fact.failedAt)
        token == Token(verdict.support, fresh.value)
    IN  [token |-> token, support |-> verdict.support, freshness |-> fresh.value,
         absent |-> verdict.absent,
         conditional |-> ResolveBlocking(verdict.support, fresh.value,
                                         policy.critical, policy.onStale).conditional,
         action |-> IF token = "verified" THEN NoAction
                    ELSE NextAction(verdict, fresh, policy, fact.refs)]

-----------------------------------------------------------------------------
(* Aggregation over the facts something was derived from.                       *)

AggregateSupport(supports, derived) ==
    CASE "conflicting" \in supports -> "conflicting"
      [] "conflicting" \notin supports /\ "unknown" \in supports -> "unknown"
      [] supports \intersect {"conflicting", "unknown"} = {}
            /\ (derived \/ "estimated" \in supports) -> "estimated"
      [] OTHER -> "sourced"

AggregateFreshness(freshnesses) ==
    CASE "undated" \in freshnesses -> "undated"
      [] "undated" \notin freshnesses /\ "stale" \in freshnesses -> "stale"
      [] OTHER -> "fresh"

-----------------------------------------------------------------------------
(* Stored items.  item.status is the EvidenceStatus, item.valued whether there   *)
(* is a value, item.snapshotAt, freshnessAt and valueAt the three places of its  *)
(* collection time, item.sources the stamps of its sources, item.failure its     *)
(* refresh-failure record (item.failure.at is NoTime when it has no time),       *)
(* item.routes whether its facts include routes between places, and              *)
(* item.routeFailure whether it says that looking for them failed.               *)

NoFailure == [present |-> FALSE, at |-> NoTime]
FailedAt(at) == [present |-> TRUE, at |-> at]

MissingItem(reason) ==
    [status |-> "missing", valued |-> FALSE, snapshotAt |-> NoTime,
     freshnessAt |-> NoTime, valueAt |-> NoTime, sources |-> <<>>,
     failure |-> NoFailure, routes |-> FALSE, routeFailure |-> FALSE,
     details |-> 0, reason |-> reason]

IsUsable(item) == item.status \in {"sourced", "estimated"}

LatestOf(stamps) ==
    LET known == ToSet(stamps) \ {NoTime}
    IN  IF known = {} THEN NoTime ELSE CHOOSE t \in known : \A u \in known : u <= t

\* _retrieved_at, item_retrieved_at and normalized_retrieved_at: one order of places.
RetrievedAt(item) ==
    CASE item.snapshotAt # NoTime -> item.snapshotAt
      [] item.snapshotAt = NoTime /\ item.freshnessAt # NoTime -> item.freshnessAt
      [] item.snapshotAt = NoTime /\ item.freshnessAt = NoTime
            /\ item.valueAt # NoTime -> item.valueAt
      [] OTHER -> LatestOf(item.sources)

DataTypeFor(domain, item) ==
    CASE domain = "railway" -> "railway_schedule_fare"
      [] domain = "map" -> IF item.routes THEN "route_duration" ELSE "poi_coordinate"
      [] OTHER -> "destination_profile"

\* READ_POLICIES, of the data types used here; the broker's FRESHNESS_POLICIES have the
\* same durations.
PoliciesOf(short, long) ==
    [type \in {"railway_schedule_fare", "route_duration", "poi_coordinate",
               "destination_profile"} |->
        IF type \in {"railway_schedule_fare", "route_duration"}
        THEN [tolerance |-> short, critical |-> TRUE, onStale |-> "auto_refetch"]
        ELSE [tolerance |-> long, critical |-> FALSE,
              onStale |-> "flag_for_confirmation"]]

\* _refresh_failure: a failed search for routes counts too, and has no time.
RefreshFailed(item) == item.failure.present \/ item.routeFailure

\* _fact_from_item: everything that is not usable or conflicting has no value.
FactFromItem(item) ==
    LET at == RetrievedAt(item)
        stamps == IF item.sources = <<>> THEN <<at>>
                  ELSE [i \in DOMAIN item.sources |->
                            IF item.sources[i] = NoTime THEN at ELSE item.sources[i]]
        fact(conclusion, details, derivation, reason) ==
            [conclusion |-> conclusion, absent |-> FALSE, details |-> details,
             refs |-> IF details = 0 THEN 0 ELSE IF details < 2 THEN 2 ELSE details,
             derivation |-> derivation, sources |-> IF conclusion THEN stamps ELSE <<>>,
             reason |-> reason, at |-> at,
             failed |-> conclusion /\ RefreshFailed(item),
             failedAt |-> IF conclusion THEN item.failure.at ELSE NoTime]
    IN  CASE item.status = "conflicting" /\ item.details > 0 ->
                fact(TRUE, item.details, "direct_observation", NoReason)
          [] item.status = "estimated" /\ item.valued ->
                fact(TRUE, 0, "api_estimate", NoReason)
          [] item.status = "sourced" /\ item.valued ->
                fact(TRUE, 0, "direct_observation", NoReason)
          [] OTHER -> fact(FALSE, 0, "direct_observation", item.reason)

\* project_domain, under the policies of the deployment.
ProjectDomain(policies, domain, item, now) ==
    EvaluateFact(FactFromItem(item), policies[DataTypeFor(domain, item)], now)

WithRefreshFailure(item, now) == [item EXCEPT !.failure = FailedAt(now)]

\* Mutant: the time of the failure is looked for in the wrong place.
NeverThrottled(item, now, throttle) == item.failure.at > now + throttle

Throttled(item, now, throttle) ==
    /\ item.failure.present /\ item.failure.at # NoTime
    /\ now - item.failure.at < throttle

\* needs_refetch: only critical data whose policy is to collect it again.
NeedsRefetch(policies, domain, item, now, throttle) ==
    LET policy == policies[DataTypeFor(domain, item)]
    IN  /\ policy.critical /\ policy.onStale = "auto_refetch"
        /\ TokenFreshness(ProjectDomain(policies, domain, item, now).token) = "stale"
        /\ ~Throttled(item, now, throttle)
=============================================================================
