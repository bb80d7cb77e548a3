------------------------- MODULE GuidedDiscovery_proofs -------------------------
(* GuidedDiscovery for any candidates, collectors, deadlines and answers: what was  *)
(* streamed about a candidate is what the comparison returns, every candidate is     *)
(* offered or rejected, and the rejected with the reason that was the case.          *)
EXTENDS GuidedDiscovery, EvidenceKernel_proofs

\* The shape of the tables, as far as the argument needs it.
Shapes ==
    /\ check = [c \in Candidates |-> [d \in Domains |-> check[c][d]]]
    /\ card = [c \in Candidates |-> [d \in Domains |-> card[c][d]]]
    /\ pending \subseteq Futures

\* The loop handles what it waits for, and between two rounds there is nothing to handle.
BatchOK ==
    /\ batch \subseteq pending
    /\ phase \notin {"handling", "expiring"} => batch = {}

\* A pending future has no outcome, so that no card has gone out for its candidate.
CardsOK ==
    /\ \A f \in pending : check[f[1]][f[2]] = NoCheck
    /\ \A c \in Candidates : card[c] # NoCard =>
        card[c] = check[c] /\ \A d \in Domains : <<c, d>> \notin pending

IInv == Shapes /\ BatchOK /\ CardsOK

\* The domains of a candidate have an outcome each when a card goes out.
LEMMA CardsOfChecks ==
  ASSUME NEW checks, NEW c \in Candidates, Cards(checks)[c] # NoCard
  PROVE  \/ card[c] # NoCard /\ Cards(checks)[c] = card[c]
         \/ Cards(checks)[c] = checks[c] /\ \A d \in Domains : checks[c][d] # NoCheck
BY DEF Cards

\* An outcome for pending futures that are then no longer pending keeps the invariant.
LEMMA TakeStep ==
  ASSUME IInv, NEW f \in pending, NEW outcome,
         check' = [check EXCEPT ![f[1]][f[2]] = outcome],
         pending' = pending \ {f}, batch' = batch \ {f}, UNCHANGED card,
         UNCHANGED phase
  PROVE  IInv'
<1>1. PICK c \in Candidates, d \in Configured : f = <<c, d>>
  BY DEF IInv, Shapes, Futures
<1>2. d \in Domains
  BY ConfiguredAssumption
<1>3. /\ \A x \in Candidates : x # c => check'[x] = check[x]
      /\ \A e \in Domains : e # d => check'[c][e] = check[c][e]
      /\ check' = [x \in Candidates |-> [e \in Domains |-> check'[x][e]]]
  <2>1. f[1] = c /\ f[2] = d
    BY <1>1
  <2>2. check' = [check EXCEPT ![c] = [check[c] EXCEPT ![d] = outcome]]
    BY <2>1
  <2>3. check = [x \in Candidates |-> [e \in Domains |-> check[x][e]]]
    BY DEF IInv, Shapes
  <2>4. /\ check'[c] = [check[c] EXCEPT ![d] = outcome]
        /\ \A x \in Candidates : x # c => check'[x] = check[x]
        /\ check' = [x \in Candidates |-> check'[x]]
    BY <2>2, <2>3
  <2>5. \A x \in Candidates : check[x] = [e \in Domains |-> check[x][e]]
    BY <2>3
  <2>6. /\ \A e \in Domains : e # d => check'[c][e] = check[c][e]
        /\ check'[c] = [e \in Domains |-> check'[c][e]]
    BY <1>2, <2>4, <2>5
  <2>7. \A x \in Candidates : check'[x] = [e \in Domains |-> check'[x][e]]
    BY <2>4, <2>5, <2>6
  <2> QED
    BY <2>4, <2>6, <2>7
<1>4. Shapes'
  BY <1>3 DEF IInv, Shapes
<1>5. BatchOK'
  BY DEF IInv, BatchOK
<1>6. CardsOK'
  <2>1. ASSUME NEW g \in pending'
        PROVE  check'[g[1]][g[2]] = NoCheck
    <3>1. PICK x \in Candidates, e \in Domains : g = <<x, e>>
      BY ConfiguredAssumption DEF IInv, Shapes, Futures
    <3>2. g \in pending /\ (x # c \/ e # d)
      BY <1>1, <3>1
    <3> QED
      BY <1>3, <3>1, <3>2 DEF IInv, CardsOK
  <2>2. ASSUME NEW x \in Candidates, card[x] # NoCard
        PROVE  card[x] = check'[x] /\ \A e \in Domains : <<x, e>> \notin pending'
    <3>1. x # c
      BY <1>1, <1>2, <2>2 DEF IInv, CardsOK
    <3> QED
      BY <1>3, <2>2, <3>1 DEF IInv, CardsOK
  <2> QED
    BY <2>1, <2>2 DEF CardsOK
<1> QED
  BY <1>4, <1>5, <1>6 DEF IInv

\* Cards go out for candidates without pending futures only.
LEMMA EmitStep ==
  ASSUME IInv, Emit
  PROVE  IInv'
<1>1. card' = Cards(check) /\ UNCHANGED <<pending, batch, check>>
      /\ phase = "expiring" /\ phase' = "looking"
  BY DEF Emit
<1>2. Shapes'
  <2>1. card' = [c \in Candidates |-> [d \in Domains |-> card'[c][d]]]
    <3>1. \A c \in Candidates : card'[c] = [d \in Domains |-> card'[c][d]]
      BY <1>1 DEF Cards, IInv, Shapes
    <3>2. card' = [c \in Candidates |-> card'[c]]
      BY <1>1 DEF Cards
    <3> QED
      BY <3>1, <3>2
  <2> QED
    BY <1>1, <2>1 DEF IInv, Shapes
<1>3. ASSUME NEW c \in Candidates, card'[c] # NoCard
      PROVE  card'[c] = check[c] /\ \A d \in Domains : <<c, d>> \notin pending
  <2>1. CASE card[c] # NoCard /\ card'[c] = card[c]
    BY <2>1 DEF IInv, CardsOK
  <2>2. CASE card'[c] = check[c] /\ \A d \in Domains : check[c][d] # NoCheck
    <3>1. ASSUME NEW d \in Domains, <<c, d>> \in pending PROVE FALSE
      BY <2>2, <3>1 DEF IInv, CardsOK
    <3> QED
      BY <2>2, <3>1
  <2> QED
    BY <1>1, <1>3, <2>1, <2>2, CardsOfChecks
<1>4. BatchOK'
  BY <1>1 DEF IInv, BatchOK, Emit
<1>5. CardsOK'
  BY <1>1, <1>3 DEF IInv, CardsOK
<1> QED
  BY <1>2, <1>4, <1>5 DEF IInv

\* When the loop is left, what is pending is cancelled and nothing that has a card changes.
LEMMA LookStep ==
  ASSUME IInv, Look
  PROVE  IInv'
<1>1. CASE ~ (cancel \/ pending = {})
  <2>1. UNCHANGED <<check, card, pending, batch>> /\ phase = "looking" /\ phase' = "waiting"
    BY <1>1 DEF Look
  <2>2. Shapes' /\ CardsOK'
    BY <2>1 DEF IInv, Shapes, CardsOK
  <2>3. BatchOK'
    BY <2>1 DEF IInv, BatchOK
  <2> QED
    BY <2>2, <2>3 DEF IInv
<1>2. CASE cancel \/ pending = {}
  <2> DEFINE checks == [c \in Candidates |-> [d \in Domains |->
                          IF <<c, d>> \in pending THEN Missing("cancelled_by_user")
                          ELSE check[c][d]]]
  <2>1. /\ check' = checks /\ card' = Cards(checks) /\ pending' = {}
        /\ phase' = "ending" /\ batch' = batch /\ phase = "looking"
    BY <1>2 DEF Look
  <2>2. batch = {}
    BY <2>1 DEF IInv, BatchOK
  <2>3. ASSUME NEW c \in Candidates, \A d \in Domains : <<c, d>> \notin pending
        PROVE  checks[c] = check[c]
    <3>1. checks[c] = [d \in Domains |-> check[c][d]]
      BY <2>3
    <3> QED
      BY <3>1 DEF IInv, Shapes
  <2>4. checks = [c \in Candidates |-> [d \in Domains |-> checks[c][d]]]
    OBVIOUS
  <2> HIDE DEF checks
  <2>5. card' = [c \in Candidates |-> [d \in Domains |-> card'[c][d]]]
    <3>1. \A c \in Candidates : card'[c] = [d \in Domains |-> card'[c][d]]
      BY <2>1, <2>4 DEF Cards, IInv, Shapes
    <3>2. card' = [c \in Candidates |-> card'[c]]
      BY <2>1 DEF Cards
    <3> QED
      BY <3>1, <3>2
  <2>6. ASSUME NEW c \in Candidates, card'[c] # NoCard
        PROVE  card'[c] = checks[c]
    <3>1. CASE card[c] # NoCard /\ card'[c] = card[c]
      BY <2>3, <3>1 DEF IInv, CardsOK
    <3> QED
      BY <2>1, <2>6, <3>1, CardsOfChecks
  <2> QED
    BY <2>1, <2>2, <2>4, <2>5, <2>6 DEF IInv, Shapes, BatchOK, CardsOK
<1> QED
  BY <1>1, <1>2
\* The other steps of the loop and those of its surroundings.
LEMMA OtherStep ==
  ASSUME IInv,
         \/ \E f \in Futures : Collector(f)
         \/ Cancel \/ Wait \/ Deadlines \/ End \/ Select \/ ReadCandidates \/ Tick
         \/ UNCHANGED vars
  PROVE  IInv'
<1>1. UNCHANGED <<check, card, pending>>
  BY DEF Collector, Cancel, Wait, Deadlines, End, Select, ReadCandidates, Tick, vars
<1>2. \/ UNCHANGED <<batch, phase>>
      \/ batch' = {f \in pending : answer[f] # NoCheck} /\ phase' = "handling"
      \/ batch' = {f \in pending : Late(f)} /\ phase' = "expiring"
      \/ batch' = batch /\ phase = "ending" /\ phase' = "returned"
  BY DEF Collector, Cancel, Wait, Deadlines, End, Select, ReadCandidates, Tick, vars
<1>3. Shapes' /\ CardsOK'
  BY <1>1 DEF IInv, Shapes, CardsOK
<1>4. BatchOK'
  BY <1>1, <1>2 DEF IInv, BatchOK
<1> QED
  BY <1>3, <1>4 DEF IInv

\* Before anything is collected there are no cards, and only what has a collector waits.
LEMMA InitInv == Init => IInv
<1> SUFFICES ASSUME Init PROVE IInv
  OBVIOUS
<1>1. Shapes
  BY DEF Init, Shapes, NoCard
<1>2. BatchOK
  BY DEF Init, BatchOK
<1>3. CardsOK
  BY ConfiguredAssumption DEF Init, CardsOK, Futures
<1> QED
  BY <1>1, <1>2, <1>3 DEF IInv

\* Every step keeps the invariant.
LEMMA NextInv == IInv /\ [Next]_vars => IInv'
<1> SUFFICES ASSUME IInv, [Next]_vars PROVE IInv'
  OBVIOUS
<1>1. CASE Handle
  <2>1. PICK f \in batch :
          /\ \E outcome \in Outcomes(f) : check' = [check EXCEPT ![f[1]][f[2]] = outcome]
          /\ batch' = batch \ {f} /\ pending' = pending \ {f}
    BY <1>1 DEF Handle
  <2>2. f \in pending /\ UNCHANGED <<card, phase>>
    BY <1>1 DEF Handle, IInv, BatchOK
  <2> QED
    BY <2>1, <2>2, TakeStep
<1>2. CASE GiveUp
  <2>1. PICK f \in batch :
          /\ \E outcome \in AfterFailure(TimedOut, f[2]) :
                check' = [check EXCEPT ![f[1]][f[2]] = outcome]
          /\ batch' = batch \ {f} /\ pending' = pending \ {f}
    BY <1>2 DEF GiveUp
  <2>2. f \in pending /\ UNCHANGED <<card, phase>>
    BY <1>2 DEF GiveUp, IInv, BatchOK
  <2> QED
    BY <2>1, <2>2, TakeStep
<1> QED
  BY <1>1, <1>2, LookStep, EmitStep, OtherStep DEF Next, Loop

\* No late answer, deadline or cancellation changes an outcome after the candidate's card
\* went out, for any candidates and collectors, in whatever order they answer.
THEOREM StreamedStays == Spec => []StreamedIsReturned
<1>1. IInv => StreamedIsReturned
  BY DEF IInv, CardsOK, StreamedIsReturned
<1> QED
  BY <1>1, InitInv, NextInv, PTL DEF Spec

-----------------------------------------------------------------------------
(* What is known about every future, and what the result makes of it.           *)

Replies == Usable \union {"conflicting", "no_source_found", "collector_error"}

\* A future that is waited for has answered with one of its collector's replies, or not.
AnswersOK ==
    /\ \A f \in pending : \/ answer[f] = NoCheck
                          \/ \E a \in Replies, t \in Start .. MaxTime : answer[f] = Answered(a, t)
    /\ phase = "handling" => \A f \in batch : answer[f] # NoCheck

\* An outcome is missing only while it is waited for; one that nobody answered for was
\* timed out or cancelled.
OutcomesOK ==
    /\ \A c \in Candidates, d \in Domains :
        /\ check[c][d] = NoCheck => <<c, d>> \in pending
        /\ check[c][d].answer = "conflicting" => ~check[c][d].timedOut
        /\ check[c][d].answer = "cancelled_by_user" => cancel
    /\ \A f \in Futures \ pending : answer[f] = NoCheck => cancel \/ check[f[1]][f[2]].timedOut

\* When the loop has been left every candidate has its card.
EndOK ==
    /\ phase \in {"ending", "returned"} => \A c \in Candidates : card[c] # NoCard
    /\ phase = "returned" => told = cancel

Told == TypeOK /\ AnswersOK /\ OutcomesOK /\ EndOK

\* The outcomes that the loop writes are outcomes, and say what they were made of.
LEMMA OutcomeTypes ==
  /\ NoCheck \in Outcome /\ TimedOut \in Outcome /\ Taken \in Outcome
  /\ \A r \in Failures : Missing(r) \in Outcome /\ Missing(r).answer = r
                         /\ Missing(r).timedOut = FALSE
  /\ \A a \in Replies, t \in Start .. MaxTime :
        Answered(a, t) \in Outcome /\ Answered(a, t).answer = a /\ Answered(a, t).timedOut = FALSE
  /\ Taken # NoCheck /\ NoCheck.answer = "none"
<1>1. 1 \in 0 .. MaxTime /\ \A t \in Start .. MaxTime : t \in 0 .. MaxTime
  BY TimesAssumption DEF Start
<1>2. NoTime \in 0 .. MaxTime \union {NoTime}
  OBVIOUS
<1>3. ASSUME NEW a \in {"none"} \union Failures \union Replies,
             NEW t \in 0 .. MaxTime \union {NoTime}
      PROVE  /\ Answered(a, t) \in Outcome /\ Answered(a, t).answer = a
             /\ Answered(a, t).timedOut = FALSE /\ Answered(a, t).at = t
  <2>1. a \in {"none", "conflicting"} \union Failures \union Usable
    BY DEF Replies, Failures
  <2>2. QED
    BY <2>1 DEF Answered, Outcome
<1>4. "none" \in {"none"} \union Failures \union Replies
  OBVIOUS
<1>5. 1 # NoTime
  BY DEF NoTime
<1>6. TimedOut \in Outcome
  BY <1>2 DEF TimedOut, Outcome, Failures
<1>7. \A r \in {"none"} \union Failures :
         Missing(r) \in Outcome /\ Missing(r).answer = r
         /\ Missing(r).timedOut = FALSE /\ Missing(r).at = NoTime
  <2>1. \A r : Missing(r) = Answered(r, NoTime)
    BY DEF Missing
  <2>2. QED
    BY <1>2, <1>3, <2>1
<1>8. NoCheck \in Outcome /\ NoCheck.answer = "none" /\ NoCheck.at = NoTime
  BY <1>7 DEF NoCheck
<1>9. Taken \in Outcome /\ Taken.at = 1
  <2>1. Taken = Answered("none", 1) /\ 1 \in 0 .. MaxTime \union {NoTime}
    BY <1>1 DEF Taken, Start
  <2>2. QED
    BY <1>3, <1>4, <2>1
<1>10. \A a \in Replies, t \in Start .. MaxTime :
         /\ Answered(a, t) \in Outcome /\ Answered(a, t).answer = a
         /\ Answered(a, t).timedOut = FALSE
  BY <1>1, <1>3
<1>11. Taken # NoCheck
  BY <1>5, <1>8, <1>9
<1>12. QED
  BY <1>6, <1>7, <1>8, <1>9, <1>10, <1>11

\* What remains after a failure, and what the broker may lend in its place.
LEMMA FailureTypes ==
  ASSUME NEW c \in Outcome, NEW d, NEW o \in AfterFailure(c, d)
  PROVE  o = c \/ (o \in Outcome /\ o.answer \in Usable /\ o.timedOut = c.timedOut)
<1>1. Start - 1 \in 0 .. MaxTime
  BY TimesAssumption DEF Start
<1>2. CASE \E a \in Lendable :
             o = [answer |-> a, at |-> Start - 1, lent |-> TRUE, timedOut |-> c.timedOut]
  <2>1. PICK a \in Lendable :
             o = [answer |-> a, at |-> Start - 1, lent |-> TRUE, timedOut |-> c.timedOut]
    BY <1>2
  <2>2. a \in Usable
    BY LendableAssumption
  <2>3. QED
    BY <1>1, <2>1, <2>2 DEF Outcome
<1>3. QED
  BY <1>2 DEF AfterFailure

\* The outcomes of an answer, and of a collector that is late.
LEMMA HandledTypes ==
  ASSUME NEW f, NEW a \in Replies, NEW t \in Start .. MaxTime, answer[f] = Answered(a, t),
         NEW o \in Outcomes(f)
  PROVE  /\ o \in Outcome /\ o.answer \notin {"none", "cancelled_by_user"}
         /\ o.answer = "conflicting" => ~o.timedOut
<1>1. answer[f] \in Outcome /\ answer[f].answer = a /\ ~answer[f].timedOut
  BY OutcomeTypes
<1>2. a \in Usable \/ a = "conflicting" \/ a \in {"no_source_found", "collector_error"}
  BY DEF Replies
<1>3. CASE a \in Usable
  <2>1. o = answer[f] \/ o \in AfterFailure(Missing("collector_error"), f[2])
    BY <1>1, <1>3 DEF Outcomes
  <2>2. QED
    BY <1>1, <1>3, <2>1, FailureTypes, OutcomeTypes DEF Usable, Failures
<1>4. CASE a = "conflicting"
  <2>1. o \in AfterFailure(answer[f], f[2])
    BY <1>1, <1>4 DEF Outcomes, Usable
  <2>2. QED
    BY <1>1, <1>4, <2>1, FailureTypes DEF Usable
<1>5. CASE a \in {"no_source_found", "collector_error"}
  <2>1. o \in AfterFailure(Missing(a), f[2]) /\ a \in Failures
    BY <1>1, <1>5 DEF Outcomes, Usable, Failures
  <2>2. Missing(a) \in Outcome /\ Missing(a).answer = a
    BY <2>1, OutcomeTypes
  <2>3. QED
    BY <1>5, <2>1, <2>2, FailureTypes DEF Usable
<1>6. QED
  BY <1>2, <1>3, <1>4, <1>5

\* A future that was given up on is marked as timed out, whatever is lent in its place.
LEMMA GivenUpTypes ==
  ASSUME NEW d, NEW o \in AfterFailure(TimedOut, d)
  PROVE  /\ o \in Outcome /\ o.timedOut
         /\ o.answer \notin {"none", "cancelled_by_user", "conflicting"}
<1>1. TimedOut.timedOut = TRUE /\ TimedOut.answer = "collector_timeout"
  BY DEF TimedOut
<1>2. QED
  BY <1>1, OutcomeTypes, FailureTypes DEF Usable

\* What the types say of one outcome.
LEMMA CheckTypes ==
  ASSUME TypeOK, NEW c \in Candidates, NEW d \in Domains
  PROVE  check[c][d] \in Outcome
  BY DEF TypeOK

\* Taking the answer of a future, or giving it up.
LEMMA TakeTold ==
  ASSUME Told, IInv, NEW f \in batch, NEW outcome \in Outcome, NEW mark \in Outcome,
         check' = [check EXCEPT ![f[1]][f[2]] = outcome],
         answer' = [answer EXCEPT ![f] = mark],
         mark = NoCheck => outcome.timedOut,
         outcome.answer \notin {"none", "cancelled_by_user"},
         outcome.answer = "conflicting" => ~outcome.timedOut,
         pending' = pending \ {f}, batch' = batch \ {f},
         phase \in {"handling", "expiring"},
         UNCHANGED <<now, card, cancel, phase, told, selected, rail>>
  PROVE  Told'
<1>1. f \in pending /\ f \in Futures
  BY DEF Told, TypeOK
<1>2. PICK c \in Candidates, d \in Configured : f = <<c, d>>
  BY <1>1 DEF Futures
<1>3. d \in Domains /\ f[1] = c /\ f[2] = d
  BY <1>2, ConfiguredAssumption
<1>4. /\ check' \in [Candidates -> [Domains -> Outcome]]
      /\ \A x \in Candidates, e \in Domains :
            check'[x][e] = IF x = c /\ e = d THEN outcome ELSE check[x][e]
  <2>1. check' = [check EXCEPT ![c] = [check[c] EXCEPT ![d] = outcome]]
    BY <1>3
  <2>2. check \in [Candidates -> [Domains -> Outcome]]
    BY DEF Told, TypeOK
  <2>3. [check[c] EXCEPT ![d] = outcome] \in [Domains -> Outcome]
    BY <1>3, <2>2
  <2>4. QED
    BY <1>3, <2>1, <2>2, <2>3
<1>5. /\ answer' \in [Futures -> Outcome]
      /\ answer'[f] = mark /\ \A g \in Futures : g # f => answer'[g] = answer[g]
  BY <1>1 DEF Told, TypeOK
<1>6. TypeOK'
  BY <1>4, <1>5 DEF Told, TypeOK
<1>7. AnswersOK'
  <2>1. \A g \in pending' : g \in pending /\ g # f /\ g \in Futures
    BY DEF Told, TypeOK
  <2>2. \A g \in batch' : g \in batch /\ g # f /\ g \in Futures
    BY DEF Told, TypeOK
  <2>3. QED
    BY <1>5, <2>1, <2>2 DEF Told, AnswersOK
<1>8. OutcomesOK'
  <2>1. ASSUME NEW x \in Candidates, NEW e \in Domains
        PROVE  /\ check'[x][e] = NoCheck => <<x, e>> \in pending'
               /\ check'[x][e].answer = "conflicting" => ~check'[x][e].timedOut
               /\ check'[x][e].answer = "cancelled_by_user" => cancel'
    <3>1. CASE x = c /\ e = d
      BY <1>4, <2>1, <3>1, OutcomeTypes
    <3>2. CASE ~(x = c /\ e = d)
      <4>1. <<x, e>> # f
        BY <1>2, <3>2
      <4>2. check'[x][e] = check[x][e]
        BY <1>4, <3>2
      <4>3. QED
        BY <4>1, <4>2 DEF Told, OutcomesOK
    <3>3. QED
      BY <3>1, <3>2
  <2>2. ASSUME NEW g \in Futures \ pending', answer'[g] = NoCheck
        PROVE  cancel' \/ check'[g[1]][g[2]].timedOut
    <3>1. CASE g = f
      BY <1>3, <1>4, <1>5, <2>2, <3>1
    <3>2. CASE g # f
      <4>1. PICK x \in Candidates, e \in Configured : g = <<x, e>>
        BY DEF Futures
      <4>2. e \in Domains /\ ~(x = c /\ e = d)
        BY <1>2, <3>2, <4>1, ConfiguredAssumption
      <4>3. check'[x][e] = check[x][e] /\ g[1] = x /\ g[2] = e
        BY <1>4, <4>1, <4>2
      <4>4. g \in Futures \ pending /\ answer[g] = NoCheck
        BY <1>5, <2>2, <3>2
      <4>5. QED
        BY <4>3, <4>4 DEF Told, OutcomesOK
    <3>3. QED
      BY <3>1, <3>2
  <2>3. QED
    BY <2>1, <2>2 DEF OutcomesOK
<1>9. EndOK'
  BY DEF Told, EndOK
<1>10. QED
  BY <1>6, <1>7, <1>8, <1>9 DEF Told

\* Cards are outcomes of every domain; when nothing is waited for, everybody has one.
LEMMA CardsTypes ==
  ASSUME TypeOK, NEW checks \in [Candidates -> [Domains -> Outcome]]
  PROVE  /\ Cards(checks) \in [Candidates -> [Domains -> Outcome]]
         /\ (\A c \in Candidates, d \in Domains : checks[c][d] # NoCheck)
              => \A c \in Candidates : Cards(checks)[c] # NoCard
<1>1. \A c \in Candidates : checks[c] \in [Domains -> Outcome] /\ card[c] \in [Domains -> Outcome]
  BY DEF TypeOK
<1>2. "railway" \in Domains /\ NoCard["railway"] = NoCheck
  BY DEF Domains, NoCard
<1>3. \A c \in Candidates :
         Cards(checks)[c] = IF card[c] = NoCard /\ \A d \in Domains : checks[c][d] # NoCheck
                            THEN checks[c] ELSE card[c]
  BY DEF Cards
<1>4. Cards(checks) \in [Candidates -> [Domains -> Outcome]]
  BY <1>1, <1>3 DEF Cards
<1>5. ASSUME \A c \in Candidates, d \in Domains : checks[c][d] # NoCheck, NEW c \in Candidates
      PROVE  Cards(checks)[c] # NoCard
  BY <1>2, <1>3, <1>5
<1>6. QED
  BY <1>4, <1>5

\* Answers are taken with what they say.
LEMMA HandleTold ==
  ASSUME Told, IInv, Handle
  PROVE  Told'
<1>1. PICK f \in batch :
        /\ \E outcome \in Outcomes(f) : check' = [check EXCEPT ![f[1]][f[2]] = outcome]
        /\ batch' = batch \ {f} /\ pending' = pending \ {f}
        /\ answer' = [answer EXCEPT ![f] = Taken]
  BY DEF Handle
<1>2. PICK outcome \in Outcomes(f) : check' = [check EXCEPT ![f[1]][f[2]] = outcome]
  BY <1>1
<1>3. phase = "handling" /\ UNCHANGED <<now, card, cancel, phase, told, selected, rail>>
  BY DEF Handle
<1>4. f \in pending /\ answer[f] # NoCheck
  BY <1>3 DEF Told, TypeOK, AnswersOK
<1>5. PICK a \in Replies, t \in Start .. MaxTime : answer[f] = Answered(a, t)
  BY <1>4 DEF Told, AnswersOK
<1>6. /\ outcome \in Outcome /\ outcome.answer \notin {"none", "cancelled_by_user"}
      /\ outcome.answer = "conflicting" => ~outcome.timedOut
  BY <1>5, HandledTypes
<1>7. Taken \in Outcome /\ Taken # NoCheck
  BY OutcomeTypes
<1>8. QED
  BY <1>1, <1>2, <1>3, <1>6, <1>7, TakeTold

\* The late are given up, marked as timed out; what their threads said is not read.
LEMMA GiveUpTold ==
  ASSUME Told, IInv, GiveUp
  PROVE  Told'
<1>1. PICK f \in batch :
        /\ \E outcome \in AfterFailure(TimedOut, f[2]) :
              check' = [check EXCEPT ![f[1]][f[2]] = outcome]
        /\ batch' = batch \ {f} /\ pending' = pending \ {f}
        /\ answer' = [answer EXCEPT ![f] = IF @ = NoCheck THEN NoCheck ELSE Taken]
  BY DEF GiveUp
<1>2. PICK outcome \in AfterFailure(TimedOut, f[2]) :
        check' = [check EXCEPT ![f[1]][f[2]] = outcome]
  BY <1>1
<1>3. PICK mark \in {NoCheck, Taken} : answer' = [answer EXCEPT ![f] = mark]
  BY <1>1
<1>4. phase = "expiring" /\ UNCHANGED <<now, card, cancel, phase, told, selected, rail>>
  BY DEF GiveUp
<1>5. /\ outcome \in Outcome /\ outcome.timedOut
      /\ outcome.answer \notin {"none", "cancelled_by_user", "conflicting"}
  BY GivenUpTypes
<1>6. mark \in Outcome
  BY OutcomeTypes
<1>7. QED
  BY <1>1, <1>2, <1>3, <1>4, <1>5, <1>6, TakeTold

\* The loop is left when nothing is waited for, or when it has been cancelled and what is
\* waited for is told so: every candidate gets its card.
LEMMA LookTold ==
  ASSUME Told, IInv, Look
  PROVE  Told'
<1>1. CASE ~(cancel \/ pending = {})
  <2>1. /\ phase' = "waiting"
        /\ UNCHANGED <<now, answer, pending, batch, check, card, cancel, told, selected, rail>>
    BY <1>1 DEF Look
  <2>2. QED
    BY <2>1 DEF Told, TypeOK, AnswersOK, OutcomesOK, EndOK
<1>2. CASE cancel \/ pending = {}
  <2> DEFINE checks == [c \in Candidates |-> [d \in Domains |->
                          IF <<c, d>> \in pending THEN Missing("cancelled_by_user")
                          ELSE check[c][d]]]
  <2>1. /\ check' = checks /\ card' = Cards(checks) /\ pending' = {}
        /\ phase' = "ending" /\ batch' = batch /\ phase = "looking"
        /\ UNCHANGED <<now, answer, batch, cancel, told, selected, rail>>
    BY <1>2 DEF Look
  <2>2. batch = {}
    BY <2>1 DEF IInv, BatchOK
  <2>3. /\ Missing("cancelled_by_user") \in Outcome
        /\ Missing("cancelled_by_user").answer = "cancelled_by_user"
        /\ Missing("cancelled_by_user") # NoCheck
    BY OutcomeTypes DEF Failures
  <2>4. \A c \in Candidates, d \in Domains :
           /\ checks[c][d] = IF <<c, d>> \in pending THEN Missing("cancelled_by_user")
                             ELSE check[c][d]
           /\ check[c][d] \in Outcome
    BY CheckTypes DEF Told
  <2>5. checks \in [Candidates -> [Domains -> Outcome]]
    BY <2>3, <2>4
  <2> HIDE DEF checks
  <2>6. ASSUME NEW c \in Candidates, NEW d \in Domains
        PROVE  /\ checks[c][d] # NoCheck
               /\ checks[c][d].answer = "conflicting" => ~checks[c][d].timedOut
               /\ checks[c][d].answer = "cancelled_by_user" => cancel
    <3>1. CASE <<c, d>> \in pending
      <4>1. cancel /\ checks[c][d] = Missing("cancelled_by_user")
        BY <1>2, <2>4, <3>1
      <4>2. QED
        BY <2>3, <4>1
    <3>2. CASE <<c, d>> \notin pending
      BY <2>4, <3>2 DEF Told, OutcomesOK
    <3>3. QED
      BY <3>1, <3>2
  <2>7. ASSUME NEW f \in Futures, answer[f] = NoCheck
        PROVE  cancel \/ checks[f[1]][f[2]].timedOut
    <3>1. PICK c \in Candidates, d \in Configured : f = <<c, d>>
      BY DEF Futures
    <3>2. d \in Domains /\ f[1] = c /\ f[2] = d
      BY <3>1, ConfiguredAssumption
    <3>3. CASE f \in pending
      BY <1>2, <3>3
    <3>4. CASE f \notin pending
      BY <2>4, <2>7, <3>1, <3>2, <3>4 DEF Told, OutcomesOK
    <3>5. QED
      BY <3>3, <3>4
  <2>8. /\ Cards(checks) \in [Candidates -> [Domains -> Outcome]]
        /\ \A c \in Candidates : Cards(checks)[c] # NoCard
    BY <2>5, <2>6, CardsTypes DEF Told
  <2>9. TypeOK'
    BY <2>1, <2>2, <2>5, <2>8 DEF Told, TypeOK
  <2>10. AnswersOK' /\ EndOK'
    BY <2>1, <2>8 DEF AnswersOK, EndOK
  <2>11. OutcomesOK'
    BY <2>1, <2>6, <2>7 DEF OutcomesOK
  <2>12. QED
    BY <2>9, <2>10, <2>11 DEF Told
<1>3. QED
  BY <1>1, <1>2

\* A thread comes up with one of its collector's replies.
LEMMA CollectorTold ==
  ASSUME Told, NEW f \in Futures, Collector(f)
  PROVE  Told'
<1>1. PICK a \in Says[f[2]] : answer' = [answer EXCEPT ![f] = Answered(a, now)]
  BY DEF Collector
<1>2. /\ f \in pending /\ answer[f] = NoCheck
      /\ UNCHANGED <<now, pending, batch, check, card, cancel, phase, told, selected, rail>>
  BY DEF Collector
<1>3. a \in Replies /\ now \in Start .. MaxTime
  <2>1. f[2] \in Domains
    BY ConfiguredAssumption DEF Futures
  <2>2. QED
    BY <2>1, SaysAssumption DEF Replies, Told, TypeOK
<1>4. Answered(a, now) \in Outcome
  BY <1>3, OutcomeTypes
<1>5. /\ answer' \in [Futures -> Outcome]
      /\ answer'[f] = Answered(a, now) /\ \A g \in Futures : g # f => answer'[g] = answer[g]
  BY <1>1, <1>4 DEF Told, TypeOK
<1>6. TypeOK'
  BY <1>2, <1>5 DEF Told, TypeOK
<1>7. pending \subseteq Futures /\ batch \subseteq Futures
  BY DEF Told, TypeOK
<1>8. AnswersOK'
  BY <1>2, <1>3, <1>5, <1>7 DEF Told, AnswersOK
<1>9. OutcomesOK' /\ EndOK'
  BY <1>2, <1>5 DEF Told, OutcomesOK, EndOK
<1>10. QED
  BY <1>6, <1>8, <1>9 DEF Told

\* The steps that touch neither answers nor outcomes.
LEMMA OtherTold ==
  ASSUME Told, IInv,
         \/ Cancel \/ Wait \/ Deadlines \/ Emit \/ End \/ Select \/ ReadCandidates \/ Tick
         \/ UNCHANGED vars
  PROVE  Told'
<1>1. UNCHANGED <<answer, pending, check>> /\ (cancel => cancel')
  BY DEF Cancel, Wait, Deadlines, Emit, End, Select, ReadCandidates, Tick, vars
<1>2. \/ UNCHANGED <<batch, phase>>
      \/ batch' = {f \in pending : answer[f] # NoCheck} /\ phase' = "handling"
      \/ batch' = {f \in pending : Late(f)} /\ phase' = "expiring"
      \/ batch' = batch /\ phase' \in {"looking", "returned"}
  BY DEF Cancel, Wait, Deadlines, Emit, End, Select, ReadCandidates, Tick, vars
<1>3. AnswersOK'
  BY <1>1, <1>2 DEF Told, AnswersOK
<1>4. OutcomesOK'
  BY <1>1 DEF Told, OutcomesOK
<1>5. EndOK'
  BY DEF Told, EndOK, Cancel, Wait, Deadlines, Emit, End, Select, ReadCandidates, Tick, vars
<1>6. /\ batch' \subseteq pending'
      /\ phase' \in {"looking", "waiting", "handling", "expiring", "ending", "returned"}
      /\ told' \in BOOLEAN /\ cancel' \in BOOLEAN /\ now' \in Start .. MaxTime
  <2>1. batch' \subseteq pending'
    BY <1>1, <1>2 DEF Told, TypeOK
  <2>2. /\ phase' \in {"looking", "waiting", "handling", "expiring", "ending", "returned"}
        /\ told' \in BOOLEAN /\ cancel' \in BOOLEAN
    BY DEF Told, TypeOK, Cancel, Wait, Deadlines, Emit, End, Select, ReadCandidates, Tick, vars
  <2>3. now' = now \/ (now < MaxTime /\ now' = now + 1)
    BY DEF Cancel, Wait, Deadlines, Emit, End, Select, ReadCandidates, Tick, vars
  <2>4. now' \in Start .. MaxTime
    BY <2>3, TimesAssumption DEF Told, TypeOK, Start
  <2>5. QED
    BY <2>1, <2>2, <2>4
<1>7. card' \in [Candidates -> [Domains -> Outcome]]
  <2>1. card' = card \/ card' = Cards(check)
    BY DEF Cancel, Wait, Deadlines, Emit, End, Select, ReadCandidates, Tick, vars
  <2>2. QED
    BY <2>1, CardsTypes DEF Told, TypeOK
<1>8. /\ selected' \in Candidates \union {"nobody"}
      /\ rail' \in [of : Candidates \union {"nobody"}, at : 0 .. MaxTime \union {NoTime}]
  <2>1. ASSUME NEW c \in Candidates
        PROVE  check[c]["railway"].at \in 0 .. MaxTime \union {NoTime}
    BY CheckTypes DEF Domains, Outcome, Told
  <2>2. now \in 0 .. MaxTime
    BY TimesAssumption DEF Told, TypeOK, Start
  <2>3. ASSUME NEW c \in Candidates \union {"nobody"}, NEW t \in 0 .. MaxTime \union {NoTime}
        PROVE  [of |-> c, at |-> t] \in [of : Candidates \union {"nobody"},
                                        at : 0 .. MaxTime \union {NoTime}]
    OBVIOUS
  <2>4. CASE Select
    <3>1. PICK c \in Candidates :
            selected' = c /\ rail' = [of |-> c, at |-> check[c]["railway"].at]
      BY <2>4 DEF Select, Options, Streamed
    <3>2. QED
      BY <2>1, <2>3, <3>1
  <2>5. CASE ReadCandidates
    <3>1. PICK c \in Candidates :
            rail' \in {[of |-> selected, at |-> now], [of |-> c, at |-> check[c]["railway"].at]}
      BY <2>5 DEF ReadCandidates
    <3>2. selected' = selected /\ selected \in Candidates \union {"nobody"}
      BY <2>5 DEF ReadCandidates, Told, TypeOK
    <3>3. QED
      BY <2>1, <2>2, <2>3, <3>1, <3>2
  <2>6. CASE UNCHANGED <<selected, rail>>
    BY <2>6 DEF Told, TypeOK
  <2>7. QED
    BY <2>4, <2>5, <2>6 DEF Cancel, Wait, Deadlines, Emit, End, Tick, vars
<1>9. TypeOK'
  BY <1>1, <1>6, <1>7, <1>8 DEF Told, TypeOK
<1>10. QED
  BY <1>3, <1>4, <1>5, <1>9 DEF Told

\* At first every future is waited for and nobody has answered.
LEMMA InitTold == Init => Told
<1> SUFFICES ASSUME Init PROVE Told
  OBVIOUS
<1>1. /\ NoCheck \in Outcome
      /\ Missing("collector_not_configured") \in Outcome
      /\ Missing("collector_not_configured").answer = "collector_not_configured"
      /\ NoCheck.answer = "none"
  BY OutcomeTypes DEF Failures
<1>2. \A c \in Candidates, d \in Domains :
         check[c][d] = IF d \in Configured THEN NoCheck
                       ELSE Missing("collector_not_configured")
  BY DEF Init
<1>3. /\ answer \in [Futures -> Outcome] /\ pending = Futures /\ batch = {}
      /\ check \in [Candidates -> [Domains -> Outcome]]
      /\ card \in [Candidates -> [Domains -> Outcome]]
  BY <1>1 DEF Init, NoCard
<1>4. rail \in [of : Candidates \union {"nobody"}, at : 0 .. MaxTime \union {NoTime}]
  BY DEF Init, NoRail
<1>5. now \in Start .. MaxTime
  BY TimesAssumption DEF Init, Start
<1>6. TypeOK
  BY <1>3, <1>4, <1>5 DEF Init, TypeOK
<1>7. AnswersOK /\ EndOK
  BY DEF Init, AnswersOK, EndOK
<1>8. OutcomesOK
  BY <1>1, <1>2, <1>3 DEF OutcomesOK, Futures
<1>9. QED
  BY <1>6, <1>7, <1>8 DEF Told

\* Every step keeps what is known about the futures.
LEMMA NextTold == IInv /\ Told /\ [Next]_vars => Told'
BY HandleTold, GiveUpTold, LookTold, CollectorTold, OtherTold DEF Next, Loop

\* Both invariants hold throughout.
LEMMA ToldAlways == Spec => [](IInv /\ Told)
BY InitInv, NextInv, InitTold, NextTold, PTL DEF Spec

\* The clock, the threads, the outcomes and the selected run keep to their types.
THEOREM TypeCorrect == Spec => []TypeOK
<1>1. Told => TypeOK
  BY DEF Told
<1>2. QED
  BY <1>1, ToldAlways, PTL

\* What is known about an outcome as evidence.
LEMMA ItemTypes ==
  ASSUME NEW c \in Outcome
  PROVE  /\ ItemOf(c).details \in Nat
         /\ ItemOf(c).reason \in UnknownReasons \union {NoReason}
         /\ ItemOf(c).status \in {"sourced", "estimated", "missing", "conflicting"}
         /\ c.answer = "conflicting"
              => ItemOf(c).status = "conflicting" /\ ItemOf(c).details = 1
<1>1. CASE c.answer \in Failures
  BY <1>1 DEF ItemOf, MissingItem, Failures, UnknownReasons
<1>2. CASE c.answer \notin Failures
  BY <1>2 DEF ItemOf, MissingItem, Failures
<1>3. QED
  BY <1>1, <1>2

\* The verdict on an outcome, from those on items in general.
LEMMA VerdictOf ==
  ASSUME NEW c \in Outcome
  PROVE  /\ Verdict[c].token # "verified" => Verdict[c].action.kind # "none"
         /\ c.answer = "conflicting"
              => /\ Verdict[c].support = "conflicting" /\ Verdict[c].token = "conflicting"
                 /\ Verdict[c].action.kind = "user_choice"
<1>1. Verdict[c] = ProjectDomain(Policies, "railway", ItemOf(c), ReadAt)
  BY DEF Verdict
<1>2. QED
  BY <1>1, ItemTypes, VerdictValid, ConflictVerdict

\* When the comparison returns, every candidate has a card and is offered or rejected.
LEMMA ReturnedSplit ==
  ASSUME IInv, Told, phase = "returned"
  PROVE  /\ Options = {c \in Candidates : Admitted(check[c]["railway"])}
         /\ \A x : x \in Rejected <=>
              \E c \in Candidates \ Options :
                 x = [of |-> c, reason |-> ReasonOf(check[c]["railway"]),
                      action |-> RejectionAction(check[c]["railway"])]
         /\ \A c \in Candidates : check[c]["railway"] \in Outcome
         /\ told = cancel /\ \A c \in Candidates, d \in Domains : <<c, d>> \notin pending
<1>1. Streamed = Candidates
  BY DEF Told, EndOK, Streamed
<1>2. Options = {c \in Candidates : Admitted(check[c]["railway"])}
  BY <1>1 DEF Options
<1>3. Rejected = {[of |-> c, reason |-> ReasonOf(check[c]["railway"]),
                   action |-> RejectionAction(check[c]["railway"])] : c \in Candidates \ Options}
  BY <1>1 DEF Rejected
<1>4. \A c \in Candidates : check[c]["railway"] \in Outcome
  BY CheckTypes DEF Told, Domains
<1>5. told = cancel /\ \A c \in Candidates, d \in Domains : <<c, d>> \notin pending
  BY DEF Told, EndOK, IInv, CardsOK
<1>6. QED
  BY <1>2, <1>3, <1>4, <1>5

\* Every candidate is offered or rejected, the rejected with something to do about it, and
\* nobody is offered whose trains could not be found.
THEOREM AllAccountedFor == Spec => []NobodyVanishes
<1>1. ASSUME IInv, Told PROVE NobodyVanishes
  <2> SUFFICES ASSUME phase = "returned"
               PROVE  /\ {x.of : x \in Rejected} = Candidates \ Options
                      /\ \A x \in Rejected : x.action # "none"
                      /\ \A c \in Options : check[c]["railway"].answer \notin Failures
    BY DEF NobodyVanishes
  <2>1. {x.of : x \in Rejected} = Candidates \ Options
    <3>1. ASSUME NEW c \in Candidates \ Options PROVE \E x \in Rejected : x.of = c
      <4> DEFINE x == [of |-> c, reason |-> ReasonOf(check[c]["railway"]),
                       action |-> RejectionAction(check[c]["railway"])]
      <4>1. x \in Rejected /\ x.of = c
        BY <1>1, ReturnedSplit
      <4>2. QED
        BY <4>1
    <3>2. ASSUME NEW x \in Rejected PROVE x.of \in Candidates \ Options
      BY <1>1, ReturnedSplit
    <3>3. QED
      BY <3>1, <3>2
  <2>2. ASSUME NEW x \in Rejected PROVE x.action # "none"
    <3>1. PICK c \in Candidates : x.action = RejectionAction(check[c]["railway"])
                                  /\ check[c]["railway"] \in Outcome
      BY <1>1, ReturnedSplit
    <3>2. QED
      BY <3>1, VerdictOf DEF RejectionAction
  <2>3. ASSUME NEW c \in Options PROVE check[c]["railway"].answer \notin Failures
    BY <1>1, ReturnedSplit DEF Admitted, Failures
  <2>4. QED
    BY <2>1, <2>2, <2>3
<1>2. QED
  BY <1>1, ToldAlways, PTL

\* The reason of a rejection is the one that was the case, and a comparison that was cut
\* short says that it was cancelled.
THEOREM ReasonsHold == Spec => []ReasonsAreTold
<1>1. ASSUME IInv, Told PROVE ReasonsAreTold
  <2> SUFFICES ASSUME phase = "returned"
               PROVE  ReasonsAreTold
    BY DEF ReasonsAreTold
  <2> "railway" \in Domains
    BY DEF Domains
  <2>1. ASSUME NEW x \in Rejected, <<x.of, "railway">> \in Futures,
               answer[<<x.of, "railway">>] = NoCheck, ~told
        PROVE  x.reason = "railway_check_timed_out" /\ x.action = "auto_refetch"
    <3>1. PICK c \in Candidates : x = [of |-> c, reason |-> ReasonOf(check[c]["railway"]),
                                       action |-> RejectionAction(check[c]["railway"])]
      BY <1>1, ReturnedSplit
    <3>2. ~cancel /\ <<c, "railway">> \in Futures \ pending
      BY <1>1, <2>1, <3>1, ReturnedSplit
    <3>3. check[c]["railway"].timedOut
      BY <1>1, <2>1, <3>1, <3>2 DEF Told, OutcomesOK
    <3>4. QED
      BY <3>1, <3>3 DEF ReasonOf, RejectionAction
  <2>2. ASSUME NEW c \in Candidates, check[c]["railway"].answer = "conflicting"
        PROVE  \E x \in Rejected : /\ x.of = c /\ x.reason = "railway_support_conflicting"
                                   /\ x.action = "user_choice"
    <3> DEFINE o == check[c]["railway"]
    <3>1. o \in Outcome /\ ~o.timedOut
      BY <1>1, <2>2, ReturnedSplit DEF Told, OutcomesOK
    <3>2. /\ Verdict[o].support = "conflicting" /\ Verdict[o].token = "conflicting"
          /\ Verdict[o].action.kind = "user_choice"
      BY <2>2, <3>1, VerdictOf
    <3>3. ~Supported(o)
      BY <3>2 DEF Supported
    <3>4. ReasonOf(o) = "railway_support_conflicting"
      BY <3>1, <3>2, <3>3 DEF ReasonOf, Unsupported
    <3>5. RejectionAction(o) = "user_choice"
      BY <3>2, <3>4 DEF RejectionAction
    <3>6. c \notin Options
      BY <1>1, <3>3, ReturnedSplit DEF Admitted
    <3>7. [of |-> c, reason |-> ReasonOf(o), action |-> RejectionAction(o)] \in Rejected
      BY <1>1, <3>6, ReturnedSplit
    <3>8. QED
      BY <3>4, <3>5, <3>7
  <2>3. ASSUME NEW c \in Candidates, NEW d \in Domains, check[c][d].answer = "cancelled_by_user"
        PROVE  told
    <3>1. cancel
      BY <1>1, <2>3 DEF Told, OutcomesOK
    <3>2. QED
      BY <1>1, <3>1, ReturnedSplit
  <2>4. QED
    BY <2>1, <2>2, <2>3 DEF ReasonsAreTold
<1>2. QED
  BY <1>1, ToldAlways, PTL

=============================================================================
