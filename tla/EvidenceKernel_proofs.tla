------------------------ MODULE EvidenceKernel_proofs ------------------------
(* The verdict of the evidence kernel on any item with a known status and reason,  *)
(* under any policies and at any time.                                             *)
EXTENDS EvidenceKernel, TLAPS

\* The verdict on any item of which the status and the reason are known passes the check
\* of validate_next_action, and what is not verified comes with something to do.
LEMMA VerdictValid ==
  ASSUME NEW policies, NEW d, NEW item, NEW at,
         item.details \in Nat, item.reason \in UnknownReasons \union {NoReason},
         item.status \in {"sourced", "estimated", "missing", "conflicting"}
  PROVE  LET verdict == ProjectDomain(policies, d, item, at)
         IN  /\ ValidNextAction(verdict.action, verdict.token)
             /\ verdict.token # "verified" => verdict.action.kind # "none"
<1> DEFINE fact == FactFromItem(item)
           policy == policies[DataTypeFor(d, item)]
           verdict == ClassifySupport(fact)
           fresh == ResolveFreshness(
                      IF fact.at # NoTime THEN fact.at ELSE FirstRetrievedAt(fact),
                      at, policy.tolerance, fact.failed, fact.failedAt)
           token == Token(verdict.support, fresh.value)
           reason == ReasonFor(verdict.support, fresh.value, verdict.reason, fresh.capped)
           action == NextAction(verdict, fresh, policy, fact.refs)
<1>1. /\ fact.conclusion \in BOOLEAN
      /\ fact.reason \in UnknownReasons \union {NoReason}
      /\ fact.details \in Nat /\ fact.refs \in Nat
      /\ fact.conclusion /\ fact.details > 0 => fact.refs > 0
      /\ fact.derivation \in {"direct_observation", "api_estimate"}
  BY DEF FactFromItem, NoReason
<1> HIDE DEF fact
<1>2. /\ verdict.support \in SupportValues
      /\ verdict.support = "unknown" => verdict.reason \in UnknownReasons
      /\ verdict.support = "conflicting" => verdict.reason = "sources_disagree" /\ fact.refs > 0
      /\ verdict.support = "estimated" => verdict.reason = "derived_by_provider_estimate"
  <2>1. CASE ~fact.conclusion
    BY <1>1, <2>1 DEF ClassifySupport, SupportValues, UnknownReasons
  <2>2. CASE fact.conclusion /\ fact.details > 0
    BY <1>1, <2>2 DEF ClassifySupport, SupportValues
  <2>3. CASE fact.conclusion /\ fact.details = 0
    BY <1>1, <2>3 DEF ClassifySupport, SupportValues, UnknownReasons, DerivationsEstimated,
       DerivationsSourced
  <2>4. QED
    BY <1>1, <2>1, <2>2, <2>3
<1>3. fresh.value \in FreshnessValues
  BY DEF ResolveFreshness, FreshnessValues
<1> HIDE DEF verdict, fresh
<1>4. token # "verified" => reason \in ReasonCodes /\ (reason = "sources_disagree"
                                                        => verdict.support = "conflicting")
  BY <1>2, <1>3 DEF Token, ReasonFor, ReasonCodes, UnknownReasons, SupportValues,
     FreshnessValues, NoReason
<1>5. token # "verified" /\ reason = "sources_disagree" => fact.refs > 0
  BY <1>2, <1>4
<1>6. ASSUME token # "verified" PROVE ValidNextAction(action, token) /\ action.kind # "none"
  <2>1. KindOf(reason) = "user_choice" <=> reason = "sources_disagree"
    BY <1>4, <1>6 DEF KindOf, ReasonCodes, UnknownReasons
  <2>2. KindOf(reason) # "none"
    BY <1>4, <1>6 DEF KindOf, ReasonCodes, UnknownReasons
  <2>3. /\ action.kind = KindOf(reason) /\ action.reason = reason
        /\ action.options = IF KindOf(reason) = "user_choice" THEN fact.refs ELSE 0
    BY DEF NextAction
  <2>4. action # NoAction
    BY <2>2, <2>3 DEF NoAction
  <2>5. QED
    BY <1>1, <1>4, <1>5, <1>6, <2>1, <2>2, <2>3, <2>4 DEF ValidNextAction
<1>7. LET v == ProjectDomain(policies, d, item, at)
      IN  v.token = token /\ v.action = IF token = "verified" THEN NoAction ELSE action
  BY DEF ProjectDomain, EvaluateFact, fact, verdict, fresh
<1>8. QED
  BY <1>6, <1>7 DEF ValidNextAction

\* Sources that disagree are told as such, and the user is to choose.
LEMMA ConflictVerdict ==
  ASSUME NEW policies, NEW d, NEW item, NEW at,
         item.status = "conflicting", item.details = 1
  PROVE  LET verdict == ProjectDomain(policies, d, item, at)
         IN  /\ verdict.support = "conflicting" /\ verdict.token = "conflicting"
             /\ verdict.action.kind = "user_choice"
<1> DEFINE fact == FactFromItem(item)
<1>1. fact.conclusion = TRUE /\ fact.details = 1
  BY DEF FactFromItem
<1> HIDE DEF fact
<1>2. ClassifySupport(fact).support = "conflicting"
      /\ ClassifySupport(fact).reason = "sources_disagree"
  BY <1>1 DEF ClassifySupport
<1>3. ASSUME NEW fresh, NEW capped
      PROVE  /\ Token("conflicting", fresh) = "conflicting"
             /\ KindOf(ReasonFor("conflicting", fresh, "sources_disagree", capped)) = "user_choice"
  BY DEF Token, ReasonFor, KindOf, NoReason
<1>4. QED
  BY <1>2, <1>3 DEF ProjectDomain, EvaluateFact, NextAction, fact

=============================================================================
