------------------------ MODULE EvidenceBroker_proofs ------------------------
(* For every number of runs and collections, every tolerance, throttle and number *)
(* of faults: EvidenceBroker keeps its types; every read passes the kernel's own   *)
(* check; the broker's record only improves; failed reads are spaced; railway      *)
(* evidence collected live is verified until its time is up, and nothing else is   *)
(* shown as fresh.  The invariants are Typed, FailureNoted and Rail.               *)
EXTENDS EvidenceBroker, EvidenceKernel_proofs

-----------------------------------------------------------------------------
(* Types.                                                                       *)

\* Items as they are stored: of the sources one stamp at most is kept.
Sources == {<<>>} \union {<<t>> : t \in Stamp}
Stored ==
    [status : {"sourced", "estimated", "missing", "conflicting"}, valued : BOOLEAN,
     snapshotAt : Stamp, freshnessAt : Stamp, valueAt : Stamp, sources : Sources,
     failure : [present : BOOLEAN, at : Stamp], routes : BOOLEAN,
     routeFailure : BOOLEAN, details : {0, 1}, reason : {NoReason, "collector_error", "no_source_found"}]

\* Items with at most one source are items.
LEMMA StoredIsItem == Stored \subseteq Item
<1>1. Sources \subseteq Seq(Stamp)
  <2>1. <<>> \in Seq(Stamp) /\ \A t \in Stamp : <<t>> \in Seq(Stamp)
    OBVIOUS
  <2>2. QED
    BY <2>1 DEF Sources
<1>2. QED
  BY <1>1 DEF Stored, Item

\* Stamps are integers, the absent one the least.
LEMMA StampFacts == NoTime \in Stamp /\ Stamp \subseteq Int /\ \A t \in Stamp : t >= NoTime
  BY TimesAssumption DEF Stamp, Time, NoTime

\* The latest of at most two stamps.
LEMMA LatestType ==
  ASSUME NEW a \in Sources, NEW b \in Sources
  PROVE  LatestOf(a) \in Stamp /\ LatestOf(a \o b) \in Stamp
<1>1. ASSUME NEW S \in SUBSET Stamp, NEW x \in Stamp, NEW y \in Stamp, S \subseteq {x, y}, S # {}
      PROVE  (CHOOSE t \in S : \A u \in S : u <= t) \in Stamp
  <2>1. \E t \in S : \A u \in S : u <= t
    <3>1. x \in Int /\ y \in Int
      BY StampFacts
    <3>2. CASE x \in S /\ (y \in S => y <= x)
      BY <1>1, <3>1, <3>2
    <3>3. CASE y \in S /\ (x \in S => x <= y)
      BY <1>1, <3>1, <3>3
    <3>4. x \in S \/ y \in S
      BY <1>1
    <3>5. x <= y \/ y <= x
      BY <3>1
    <3>6. QED
      BY <3>2, <3>3, <3>4, <3>5
  <2>2. QED
    BY <2>1
<1>2. ASSUME NEW s, NEW x \in Stamp, NEW y \in Stamp, ToSet(s) \subseteq {x, y}
      PROVE  LatestOf(s) \in Stamp
  BY <1>1, <1>2, StampFacts DEF LatestOf
<1>3. PICK x \in Stamp : a = <<>> \/ a = <<x>>
  BY StampFacts DEF Sources
<1>4. PICK y \in Stamp : b = <<>> \/ b = <<y>>
  BY StampFacts DEF Sources
<1>5. ToSet(a) \subseteq {x, y}
  BY <1>3 DEF ToSet
<1>6. ToSet(a \o b) \subseteq {x, y}
  BY <1>3, <1>4 DEF ToSet
<1>7. QED
  BY <1>2, <1>5, <1>6

\* The latest of two stamps, one stamp or none.
LEMMA OnlyLatest ==
  /\ LatestOf(<<>>) = NoTime
  /\ \A t \in Stamp : LatestOf(<<t>>) = t
  /\ \A s, t \in Stamp : LatestOf(<<s>> \o <<t>>) = IF s <= t THEN t ELSE s
<1> DEFINE latest(known) == IF known = {} THEN NoTime
                            ELSE CHOOSE t \in known : \A u \in known : u <= t
<1>1. \A stamps : LatestOf(stamps) = latest(ToSet(stamps) \ {NoTime})
  BY DEF LatestOf
<1>2. /\ ToSet(<<>>) = {} /\ \A t : ToSet(<<t>>) = {t}
      /\ \A s, t : ToSet(<<s>> \o <<t>>) = {s, t}
  BY DEF ToSet
<1>3. latest({}) = NoTime
  OBVIOUS
<1>4. \A t \in Stamp : latest({t}) = t
  BY StampFacts
<1>5. \A s, t \in Stamp : latest({s, t}) = IF s <= t THEN t ELSE s
  BY StampFacts
<1> HIDE DEF latest
<1>6. \A t \in Stamp : LatestOf(<<t>>) = t
  <2>1. TAKE t \in Stamp
  <2>2. {t} \ {NoTime} = IF t = NoTime THEN {} ELSE {t}
    OBVIOUS
  <2>3. QED
    BY <1>1, <1>2, <1>3, <1>4, <2>2
<1>7. \A s, t \in Stamp : LatestOf(<<s>> \o <<t>>) = IF s <= t THEN t ELSE s
  <2>1. TAKE s, t \in Stamp
  <2>2. {s, t} \ {NoTime} = IF s = NoTime THEN IF t = NoTime THEN {} ELSE {t}
                            ELSE IF t = NoTime THEN {s} ELSE {s, t}
    OBVIOUS
  <2>3. s \in Int /\ t \in Int /\ s >= NoTime /\ t >= NoTime /\ NoTime \in Int
    BY StampFacts
  <2>4. LatestOf(<<s>> \o <<t>>) = latest({s, t} \ {NoTime})
    BY <1>1, <1>2
  <2>5. CASE s = NoTime \/ t = NoTime
    BY <1>3, <1>4, <2>2, <2>3, <2>4, <2>5
  <2>6. CASE s # NoTime /\ t # NoTime
    BY <1>5, <2>2, <2>4, <2>6
  <2>7. QED
    BY <2>5, <2>6
<1>8. QED
  BY <1>1, <1>2, <1>3, <1>6, <1>7

\* The time an item was retrieved is one of its stamps.
LEMMA RetrievedType == ASSUME NEW item \in Stored PROVE RetrievedAt(item) \in Stamp
<1>1. LatestOf(item.sources) \in Stamp
  BY LatestType DEF Stored
<1>2. QED
  BY <1>1 DEF RetrievedAt, Stored

\* What the actions make of items is of their type.
LEMMA MadeTypes ==
  ASSUME NEW t \in Stamp, NEW reason \in {NoReason, "collector_error", "no_source_found"}
  PROVE  /\ MissingItem(reason) \in Stored
         /\ Live(t) \in Stored /\ District(t) \in Stored /\ Failure(t) \in Stored
         /\ Conflict(t) \in Stored
<1>1. <<>> \in Sources /\ <<t>> \in Sources
  BY DEF Sources
<1>2. QED
  BY <1>1, StampFacts DEF MissingItem, Live, District, Failure, Conflict, Absent, Stored,
     NoFailure

\* What the broker lends is an item.
LEMMA LentTypes ==
  ASSUME NEW item \in Stored, NEW failed \in Stored, NEW t \in Stamp
  PROVE  /\ StaleEvidence(item, failed) \in Stored
         /\ WithRefreshFailure(item, t) \in Stored
         /\ \A r : StaleProjection([run |-> r, at |-> t, item |-> item]) \in Stored
<1>1. LatestOf(item.sources) \in Stamp
  BY LatestType DEF Stored
<1>2. QED
  BY <1>1, StampFacts DEF StaleEvidence, WithRefreshFailure, StaleProjection, FailedAt, Stored

\* What the route lookup adds to an item leaves it one.
LEMMA RoutesType ==
  ASSUME NEW item \in Stored, now \in Stamp PROVE RoutesFrom(item) \subseteq Stored
<1>1. <<now>> \in Sources /\ item.sources \in Sources
  BY DEF Sources, Stored
<1>2. Absent \in Stored
  BY MadeTypes, StampFacts DEF Absent
<1>3. /\ [Absent EXCEPT !.status = "estimated", !.valued = TRUE, !.reason = NoReason,
                       !.sources = item.sources, !.routes = TRUE, !.sources = <<now>>] \in Stored
      /\ [Absent EXCEPT !.status = "estimated", !.valued = TRUE, !.reason = NoReason,
                       !.sources = item.sources, !.routeFailure = TRUE] \in Stored
  BY <1>1, <1>2 DEF Stored
<1>4. QED
  BY <1>2, <1>3 DEF RoutesFrom, Stored

\* What merging makes of two items is an item.
LEMMA MergedType ==
  ASSUME NEW old \in Stored, NEW new \in Stored, IsUsable(old), IsUsable(new)
  PROVE  Merged(old, new) \in Stored /\ IsUsable(Merged(old, new))
<1>1. AggregateSupport({old.status, new.status}, FALSE) \in {"sourced", "estimated"}
  BY DEF AggregateSupport, IsUsable
<1>2. <<LatestOf(old.sources \o new.sources)>> \in Sources
  BY LatestType DEF Stored, Sources
<1>3. QED
  BY <1>1, <1>2, StampFacts DEF Merged, IsUsable, Stored

\* The answers of a map query.
LEMMA MapTypes ==
  ASSUME NEW item \in Stored, NEW since \in Stamp, now \in Stamp
  PROVE  MapAnswers(item, since) \subseteq Stored
<1>1. District(now) \in Stored /\ Conflict(now) \in Stored /\ Failure(since) \in Stored
  BY MadeTypes
<1>2. RoutesFrom(item) \subseteq Stored /\ RoutesFrom(District(now)) \subseteq Stored
  BY <1>1, RoutesType
<1>3. QED
  BY <1>1, <1>2 DEF MapAnswers

-----------------------------------------------------------------------------
(* The invariant of the types: what TypeOK says, and one source at most.          *)

Records == [run : Runs \union {"nobody"}, at : Stamp, item : Stored]
Attempts ==
    [phase : {"idle", "asked", "answered", "settled", "degraded", "disputed"},
     since : Stamp, item : Stored]
Landings == [how : {"nothing", "live", "conflict", "fallback"}, at : Stamp]

Typed ==
    /\ domain \in Domains /\ now \in Time /\ faults \in 0 .. MaxFaults
    /\ record \in Records /\ disk \in Records
    /\ asks \in [Runs -> 0 .. MaxAsks]
    /\ attempt \in [Runs -> Attempts]
    /\ shown \in [Runs -> Stored] /\ last \in [Runs -> Stored]
    /\ reader \in [Runs -> [at : Stamp, item : Stored]]
    /\ landed \in [Runs -> Landings] /\ failedRead \in [Runs -> Stamp]

\* The item of a domain nothing was collected for.
LEMMA AbsentStored == Absent \in Stored
  BY MadeTypes, StampFacts DEF Absent

\* Publishing, for a usable answer.
LEMMA PublishType ==
  ASSUME Typed, NEW r \in Runs, NEW item \in Stored, Publish(r, item)
  PROVE  /\ record' \in Records /\ disk' \in Records /\ faults' \in 0 .. MaxFaults
         /\ attempt' \in [Runs -> Attempts]
<1>1. RetrievedAt(item) \in Stamp /\ Idle \in Attempts
  BY RetrievedType, AbsentStored, StampFacts DEF Idle, Attempts
<1>2. [run |-> r, at |-> RetrievedAt(item), item |-> item] \in Records
  BY <1>1 DEF Records
<1>3. [attempt[r] EXCEPT !.phase = "settled"] \in Attempts
  BY DEF Typed, Attempts
<1>4. CASE record = NoRecord \/ record.at <= RetrievedAt(item)
  <2>1. PICK persisted \in {TRUE} \union (IF faults < MaxFaults THEN {FALSE} ELSE {}) :
          /\ record' = [run |-> r, at |-> RetrievedAt(item), item |-> item]
          /\ disk' = IF persisted THEN record' ELSE disk
          /\ faults' = IF persisted THEN faults ELSE faults + 1
          /\ attempt' = [attempt EXCEPT ![r] =
                            IF persisted THEN [@ EXCEPT !.phase = "settled"] ELSE Idle]
    BY <1>4 DEF Publish
  <2>2. faults' \in 0 .. MaxFaults
    <3>1. persisted = TRUE \/ (persisted = FALSE /\ faults < MaxFaults)
      BY <2>1
    <3>2. faults' = faults \/ (faults < MaxFaults /\ faults' = faults + 1)
      BY <2>1, <3>1
    <3>3. QED
      BY <3>2, TimesAssumption DEF Typed
  <2>3. attempt' \in [Runs -> Attempts]
    <3>1. CASE persisted
      <4>1. attempt' = [attempt EXCEPT ![r] = [attempt[r] EXCEPT !.phase = "settled"]]
        BY <2>1, <3>1 DEF Typed
      <4>2. QED
        BY <1>3, <4>1 DEF Typed
    <3>2. CASE ~persisted
      BY <1>1, <2>1, <3>2 DEF Typed
    <3>3. QED
      BY <3>1, <3>2
  <2>4. QED
    BY <1>2, <2>1, <2>2, <2>3 DEF Typed
<1>5. CASE ~(record = NoRecord \/ record.at <= RetrievedAt(item))
  <2>1. /\ attempt' = [attempt EXCEPT ![r] = [attempt[r] EXCEPT !.phase = "settled"]]
        /\ UNCHANGED <<record, disk, faults>>
    BY <1>5 DEF Publish, Typed
  <2>2. QED
    BY <1>3, <2>1 DEF Typed
<1>6. QED
  BY <1>4, <1>5

\* Submitting evidence.
LEMMA SubmittedType ==
  ASSUME Typed, NEW r \in Runs, NEW item \in Stored,
         NEW how \in {"live", "conflict", "fallback"}, Submitted(r, item, how)
  PROVE  /\ shown' \in [Runs -> Stored] /\ last' \in [Runs -> Stored]
         /\ landed' \in [Runs -> Landings] /\ failedRead' \in [Runs -> Stamp]
<1>1. [how |-> how, at |-> RetrievedAt(item)] \in Landings
  BY RetrievedType DEF Landings
<1>2. landed' \in [Runs -> Landings] /\ failedRead' \in [Runs -> Stamp]
  BY <1>1, StampFacts DEF Submitted, Typed
<1>3. last[r] \in Stored
  BY DEF Typed
<1>4. CASE IsUsable(item)
  <2>1. PICK merged \in Stored : /\ shown' = [shown EXCEPT ![r] = merged]
                                 /\ last' = [last EXCEPT ![r] = merged]
    BY <1>3, <1>4, MergedType DEF Submitted
  <2>2. QED
    BY <1>2, <2>1 DEF Typed
<1>5. CASE ~IsUsable(item)
  <2>1. PICK kept \in Stored : shown' = [shown EXCEPT ![r] = kept] /\ last' = last
    BY <1>3, <1>5, LentTypes, StampFacts DEF Submitted
  <2>2. QED
    BY <1>2, <2>1 DEF Typed
<1>6. QED
  BY <1>4, <1>5

\* The types hold initially.
LEMMA TypedInit == Init => Typed
<1>1. Idle \in Attempts /\ NoRecord \in Records /\ Nothing \in Landings
      /\ NotReading \in [at : Stamp, item : Stored]
  BY AbsentStored, StampFacts DEF Idle, Attempts, NoRecord, Records, Nothing, Landings,
     NotReading
<1>2. 0 \in Time /\ 0 \in 0 .. MaxFaults /\ 0 \in 0 .. MaxAsks
  BY TimesAssumption DEF Time
<1>3. QED
  BY <1>1, <1>2, AbsentStored, StampFacts DEF Init, Typed

\* Every step keeps them.
LEMMA TypedNext == Typed /\ [Next]_vars => Typed'
<1> SUFFICES ASSUME Typed, [Next]_vars PROVE Typed'
  OBVIOUS
<1>1. now \in Stamp /\ \A r \in Runs : /\ shown[r] \in Stored /\ last[r] \in Stored
                                       /\ attempt[r] \in Attempts
                                       /\ reader[r].at \in Stamp /\ reader[r].item \in Stored
  BY DEF Typed, Stamp
<1>2. \A r \in Runs : attempt[r].since \in Stamp /\ attempt[r].item \in Stored
  BY <1>1 DEF Attempts
<1>3. Idle \in Attempts /\ NotReading \in [at : Stamp, item : Stored]
  BY AbsentStored, StampFacts DEF Idle, Attempts, NotReading
<1>4. ASSUME NEW r \in Runs, Ask(r) PROVE Typed'
  <2>1. asks' \in [Runs -> 0 .. MaxAsks]
    BY <1>4, TimesAssumption DEF Ask, Typed
  <2>2. [phase |-> "asked", since |-> now, item |-> shown[r]] \in Attempts
    BY <1>1 DEF Attempts
  <2>3. QED
    BY <1>4, <2>1, <2>2 DEF Ask, Typed
<1>5. ASSUME NEW r \in Runs, Answer(r) PROVE Typed'
  <2>1. PICK item \in Stored :
          attempt' = [attempt EXCEPT ![r].phase = "answered", ![r].item = item]
    BY <1>1, <1>2, <1>5, MapTypes, MadeTypes, StampFacts DEF Answer
  <2>2. [attempt[r] EXCEPT !.phase = "answered", !.item = item] \in Attempts
    BY <1>1 DEF Attempts
  <2>3. attempt' = [attempt EXCEPT ![r] =
                       [attempt[r] EXCEPT !.phase = "answered", !.item = item]]
    BY <2>1 DEF Typed
  <2>4. QED
    BY <1>5, <2>2, <2>3 DEF Answer, Typed
<1>6. ASSUME NEW r \in Runs, Settle(r) PROVE Typed'
  <2>1. CASE IsUsableLive(attempt[r].item)
    <3>1. Publish(r, attempt[r].item) /\ UNCHANGED <<domain, now, asks, shown, last, reader,
                                                     landed, failedRead>>
      BY <1>6, <2>1 DEF Settle
    <3>2. QED
      BY <1>2, <3>1, PublishType DEF Typed
  <2>2. CASE ~IsUsableLive(attempt[r].item)
    <3>1. /\ StaleEvidence(last[r], attempt[r].item) \in Stored
          /\ StaleProjection(record) \in Stored
      <4>1. record = [run |-> record.run, at |-> record.at, item |-> record.item]
            /\ record.at \in Stamp /\ record.item \in Stored
        BY DEF Typed, Records
      <4>2. QED
        BY <1>1, <1>2, <4>1, LentTypes
    <3>2. PICK phase \in {"disputed", "degraded"}, item \in Stored :
            attempt' = [attempt EXCEPT ![r].phase = phase, ![r].item = item]
      BY <1>2, <1>6, <2>2, <3>1 DEF Settle
    <3>3. [attempt[r] EXCEPT !.phase = phase, !.item = item] \in Attempts
      BY <1>1 DEF Attempts
    <3>4. attempt' = [attempt EXCEPT ![r] =
                         [attempt[r] EXCEPT !.phase = phase, !.item = item]]
      BY <3>2 DEF Typed
    <3>5. QED
      BY <1>6, <2>2, <3>3, <3>4 DEF Settle, Typed
  <2>3. QED
    BY <2>1, <2>2
<1>7. ASSUME NEW r \in Runs, Submit(r) PROVE Typed'
  <2>1. PICK how \in {"live", "conflict", "fallback"} : Submitted(r, attempt[r].item, how)
    BY <1>7 DEF Submit
  <2>2. attempt' \in [Runs -> Attempts]
    BY <1>3, <1>7 DEF Submit, Typed
  <2>3. QED
    BY <1>2, <1>7, <2>1, <2>2, SubmittedType DEF Submit, Typed
<1>8. ASSUME NEW r \in Runs, HostSubmit(r) PROVE Typed'
  <2>1. asks' \in [Runs -> 0 .. MaxAsks]
    BY <1>8, TimesAssumption DEF HostSubmit, Typed
  <2>2. MissingItem("no_source_found") \in Stored
    BY MadeTypes, StampFacts
  <2>3. QED
    BY <1>8, <2>1, <2>2, SubmittedType DEF HostSubmit, Typed
<1>9. ASSUME NEW r \in Runs, StartRead(r) PROVE Typed'
  BY <1>1, <1>9 DEF StartRead, Typed
<1>10. ASSUME NEW r \in Runs, FinishRead(r) PROVE Typed'
  <2>1. /\ \A item \in {District(now), Conflict(now), Live(now),
                        MissingItem("no_source_found"),
                        WithRefreshFailure(reader[r].item, reader[r].at)} : item \in Stored
        /\ \A how \in {"live", "conflict", "fallback"} :
              [how |-> how, at |-> now] \in Landings /\ [how |-> how, at |-> NoTime] \in Landings
    BY <1>1, MadeTypes, LentTypes, StampFacts DEF Landings
  <2>2. PICK item \in Stored, landing \in Landings, failed \in Stamp :
          /\ shown' = [shown EXCEPT ![r] = item]
          /\ landed' = [landed EXCEPT ![r] = landing]
          /\ failedRead' = [failedRead EXCEPT ![r] = failed]
    <3>1. CASE \E fresh \in IF domain = "map" THEN {District(now), Conflict(now)} ELSE {Live(now)} :
                 /\ shown' = [shown EXCEPT ![r] = fresh]
                 /\ landed' = [landed EXCEPT ![r] =
                       [how |-> IF IsUsable(fresh) THEN "live" ELSE "conflict", at |-> now]]
                 /\ failedRead' = [failedRead EXCEPT ![r] = NoTime]
      BY <2>1, <3>1, StampFacts
    <3>2. CASE /\ shown' = [shown EXCEPT ![r] =
                                WithRefreshFailure(reader[r].item, reader[r].at)]
               /\ landed' = [landed EXCEPT ![r] = [how |-> "fallback", at |-> NoTime]]
               /\ failedRead' = [failedRead EXCEPT ![r] = reader[r].at]
      BY <1>1, <2>1, <3>2
    <3>3. CASE /\ shown' = [shown EXCEPT ![r] = MissingItem("no_source_found")]
               /\ landed' = [landed EXCEPT ![r] = [how |-> "fallback", at |-> NoTime]]
               /\ failedRead' = [failedRead EXCEPT ![r] = NoTime]
      BY <2>1, <3>3, StampFacts
    <3>4. QED
      BY <1>10, <3>1, <3>2, <3>3 DEF FinishRead
  <2>3. QED
    BY <1>3, <1>10, <2>2 DEF FinishRead, Typed
<1>11. CASE Restart
  <2>1. faults' \in 0 .. MaxFaults
    BY <1>11, TimesAssumption DEF Restart, Typed
  <2>2. QED
    BY <1>3, <1>11, <2>1 DEF Restart, Typed
<1>12. CASE Tick
  <2>1. now' \in Time
    BY <1>12, TimesAssumption DEF Tick, Typed, Time
  <2>2. QED
    BY <1>12, <2>1 DEF Tick, Typed
<1>13. CASE UNCHANGED vars
  BY <1>13 DEF vars, Typed
<1>14. QED
  BY <1>4, <1>5, <1>6, <1>7, <1>8, <1>9, <1>10, <1>11, <1>12, <1>13 DEF Next

\* What the types say of each run.
LEMMA TypedRun ==
  ASSUME Typed, NEW r \in Runs
  PROVE  /\ shown[r] \in Stored /\ last[r] \in Stored /\ attempt[r] \in Attempts
         /\ attempt[r].since \in Stamp /\ attempt[r].item \in Stored
         /\ reader[r].at \in Stamp /\ reader[r].item \in Stored
         /\ landed[r] \in Landings /\ failedRead[r] \in Stamp
<1>1. attempt[r] \in Attempts /\ reader[r] \in [at : Stamp, item : Stored]
  BY DEF Typed
<1>2. QED
  BY <1>1 DEF Typed, Attempts

\* Types of the variables: TypeOK.
THEOREM TypeCorrect == Spec => []TypeOK
<1>1. Typed => TypeOK
  <2>1. /\ Records \subseteq [run : Runs \union {"nobody"}, at : Stamp, item : Item]
        /\ Attempts \subseteq [phase : {"idle", "asked", "answered", "settled", "degraded",
                                        "disputed"}, since : Stamp, item : Item]
        /\ [at : Stamp, item : Stored] \subseteq [at : Stamp, item : Item]
    BY StoredIsItem DEF Records, Attempts
  <2>2. SUFFICES ASSUME Typed PROVE TypeOK
    OBVIOUS
  <2>3. shown \in [Runs -> Item] /\ last \in [Runs -> Item]
    BY <2>2, StoredIsItem DEF Typed
  <2>4. attempt \in [Runs -> [phase : {"idle", "asked", "answered", "settled", "degraded",
                                       "disputed"}, since : Stamp, item : Item]]
    BY <2>1, <2>2 DEF Typed
  <2>5. reader \in [Runs -> [at : Stamp, item : Item]]
    BY <2>1, <2>2 DEF Typed
  <2>6. {record, disk} \subseteq [run : Runs \union {"nobody"}, at : Stamp, item : Item]
    BY <2>1, <2>2 DEF Typed
  <2>7. landed \in [Runs -> [how : {"nothing", "live", "conflict", "fallback"}, at : Stamp]]
    BY <2>2 DEF Typed, Landings
  <2>8. QED
    BY <2>2, <2>3, <2>4, <2>5, <2>6, <2>7 DEF Typed, TypeOK
<1>2. QED
  BY <1>1, TypedInit, TypedNext, PTL DEF Spec

-----------------------------------------------------------------------------
(* The safety of reads.                                                         *)

\* Whatever a run shows, the kernel's check of its verdict passes: ReadsAreValid.
THEOREM ReadsRender == Spec => []ReadsAreValid
<1>1. Typed => ReadsAreValid
  <2>1. SUFFICES ASSUME Typed, NEW r \in Runs
                 PROVE  ValidNextAction(Verdict(r, now).action, Verdict(r, now).token)
    BY DEF ReadsAreValid
  <2>2. /\ shown[r].details \in Nat /\ shown[r].reason \in UnknownReasons \union {NoReason}
        /\ shown[r].status \in {"sourced", "estimated", "missing", "conflicting"}
    BY <2>1, TypedRun DEF Stored, UnknownReasons
  <2>3. QED
    BY <2>2, VerdictValid DEF Verdict
<1>2. QED
  BY <1>1, TypedInit, TypedNext, PTL DEF Spec

\* The broker's record is only replaced by one at least as new: RecordOnlyImproves.
THEOREM RecordImproves == Spec => RecordOnlyImproves
<1>1. ASSUME Typed, [Next]_vars, record' # record
      PROVE  record'.at >= record.at \/ record' = disk
  <2>1. ASSUME NEW r \in Runs, Settle(r) PROVE record'.at >= record.at
    <3>1. Publish(r, attempt[r].item) /\ attempt[r].item \in Stored
      BY <1>1, <2>1, TypedRun DEF Settle
    <3>2. RetrievedAt(attempt[r].item) \in Stamp /\ record.at \in Stamp
      BY <1>1, <3>1, RetrievedType DEF Typed, Records
    <3>3. record = NoRecord => record.at = NoTime
      BY DEF NoRecord
    <3>4. record.at <= RetrievedAt(attempt[r].item)
      BY <1>1, <3>1, <3>2, <3>3, StampFacts DEF Publish
    <3>5. record'.at = RetrievedAt(attempt[r].item)
      <4>1. record' = [run |-> r, at |-> RetrievedAt(attempt[r].item), item |-> attempt[r].item]
        BY <1>1, <3>1 DEF Publish
      <4>2. QED
        BY <4>1
    <3>6. QED
      BY <3>2, <3>4, <3>5, StampFacts
  <2>2. ASSUME NEW r \in Runs, Ask(r) \/ Answer(r) \/ Submit(r) \/ HostSubmit(r)
                               \/ StartRead(r) \/ FinishRead(r)
        PROVE  FALSE
    BY <1>1, <2>2 DEF Ask, Answer, Submit, HostSubmit, StartRead, FinishRead
  <2>3. QED
    BY <1>1, <2>1, <2>2 DEF Next, Restart, Tick, vars
<1>2. QED
  BY <1>1, TypedInit, TypedNext, PTL DEF Spec, RecordOnlyImproves

\* A failed read leaves its time with the evidence until something else lands.
FailureNoted == \A r \in Runs : failedRead[r] # NoTime => shown[r].failure = FailedAt(failedRead[r])

\* The time of a failed read stays until something else lands.
LEMMA FailureNotedNext == Typed /\ FailureNoted /\ [Next]_vars => FailureNoted'
<1> SUFFICES ASSUME Typed, FailureNoted, [Next]_vars PROVE FailureNoted'
  OBVIOUS
<1>1. ASSUME NEW r \in Runs, Submit(r) \/ HostSubmit(r) PROVE FailureNoted'
  <2>1. \E item, how : Submitted(r, item, how)
    BY <1>1 DEF Submit, HostSubmit
  <2>2. /\ failedRead' = [failedRead EXCEPT ![r] = NoTime]
        /\ \A s \in Runs \ {r} : shown'[s] = shown[s]
    BY <2>1 DEF Submitted, Typed
  <2>3. QED
    BY <2>2 DEF FailureNoted, Typed
<1>2. ASSUME NEW r \in Runs, FinishRead(r) PROVE FailureNoted'
  <2>1. /\ \A s \in Runs \ {r} : shown'[s] = shown[s] /\ failedRead'[s] = failedRead[s]
        /\ failedRead'[r] # NoTime => shown'[r].failure = FailedAt(failedRead'[r])
    <3>1. CASE failedRead' = [failedRead EXCEPT ![r] = NoTime]
      BY <1>2, <3>1 DEF FinishRead, Typed
    <3>2. CASE /\ shown' = [shown EXCEPT ![r] =
                                WithRefreshFailure(reader[r].item, reader[r].at)]
               /\ failedRead' = [failedRead EXCEPT ![r] = reader[r].at]
      BY <3>2, TypedRun DEF WithRefreshFailure, Stored, Typed
    <3>3. QED
      BY <1>2, <3>1, <3>2 DEF FinishRead
  <2>2. QED
    BY <2>1 DEF FailureNoted
<1>3. CASE UNCHANGED <<shown, failedRead>>
  BY <1>3 DEF FailureNoted
<1>4. QED
  BY <1>1, <1>2, <1>3 DEF Next, Ask, Answer, Settle, StartRead, Restart, Tick, vars

\* A read that failed keeps the next one waiting: FailedReadsAreSpaced.
THEOREM ReadsAreSpaced == Spec => FailedReadsAreSpaced
<1>1. ASSUME Typed, FailureNoted, [Next]_vars, NEW r \in Runs,
             reader[r] = NotReading, reader'[r] # NotReading
      PROVE  failedRead[r] = NoTime \/ now - failedRead[r] >= Throttle
  <2>1. StartRead(r)
    <3>1. ASSUME NEW s \in Runs, StartRead(s) \/ FinishRead(s) PROVE s = r /\ StartRead(s)
      BY <1>1, <3>1 DEF StartRead, FinishRead, Typed
    <3>2. ASSUME NEW s \in Runs, Ask(s) \/ Answer(s) \/ Settle(s) \/ Submit(s) \/ HostSubmit(s)
          PROVE  FALSE
      BY <1>1, <3>2 DEF Ask, Answer, Settle, Submit, HostSubmit
    <3>3. ~Restart /\ ~Tick /\ ~UNCHANGED vars
      BY <1>1 DEF Restart, Tick, vars
    <3>4. QED
      BY <1>1, <3>1, <3>2, <3>3 DEF Next
  <2>2. ~Throttled(shown[r], now, Throttle)
    BY <2>1 DEF StartRead, NeedsRefetch
  <2>3. failedRead[r] # NoTime => ~(now - failedRead[r] < Throttle)
    <3>1. SUFFICES ASSUME failedRead[r] # NoTime PROVE ~(now - failedRead[r] < Throttle)
      OBVIOUS
    <3>2. shown[r].failure = [present |-> TRUE, at |-> failedRead[r]]
      BY <1>1, <3>1 DEF FailureNoted, FailedAt
    <3>3. QED
      BY <2>2, <3>1, <3>2 DEF Throttled
  <2>4. now \in Int /\ failedRead[r] \in Int
    <3>1. now \in Stamp /\ failedRead[r] \in Stamp
      BY <1>1, TypedRun DEF Typed, Stamp
    <3>2. QED
      BY <3>1, StampFacts
  <2>5. QED
    BY <2>3, <2>4, TimesAssumption
<1>2. Init => FailureNoted
  BY DEF Init, FailureNoted
<1>3. Typed /\ FailureNoted /\ [Next]_vars =>
        [\A r \in Runs : reader[r] = NotReading /\ reader'[r] # NotReading
            => failedRead[r] = NoTime \/ now - failedRead[r] >= Throttle]_vars
  BY <1>1
<1>4. QED
  BY <1>2, <1>3, TypedInit, TypedNext, FailureNotedNext, PTL DEF Spec, FailedReadsAreSpaced

-----------------------------------------------------------------------------
(* Verdicts on railway evidence.                                                *)

\* An item that was collected at a known time.
Dated(item) == IsUsable(item) /\ item.snapshotAt \in Time

\* The time of an item that has a snapshot.
LEMMA DatedAt ==
  ASSUME NEW item, Dated(item)
  PROVE  RetrievedAt(item) = item.snapshotAt /\ item.snapshotAt # NoTime
  BY StampFacts DEF Dated, RetrievedAt, Time, NoTime

\* The verdict "fresh" tells of a usable item, retrieved not longer ago than it may be,
\* of which no refresh has failed since.
LEMMA FreshTells ==
  ASSUME NEW policies, NEW d, NEW item \in Stored, NEW at,
         IsUsable(item) => RetrievedAt(item) # NoTime,
         IsFresh(ProjectDomain(policies, d, item, at))
  PROVE  /\ IsUsable(item) /\ ~FailedSince(item)
         /\ at - RetrievedAt(item) <= policies[DataTypeFor(d, item)].tolerance
<1> DEFINE fact == FactFromItem(item)
           verdict == ClassifySupport(fact)
           when == IF fact.at # NoTime THEN fact.at ELSE FirstRetrievedAt(fact)
           fresh == ResolveFreshness(when, at, policies[DataTypeFor(d, item)].tolerance,
                                     fact.failed, fact.failedAt)
<1>1. ProjectDomain(policies, d, item, at).token = Token(verdict.support, fresh.value)
  BY DEF ProjectDomain, EvaluateFact
<1>2. /\ verdict.support \in SupportValues \ {"conflicting", "unknown"}
      /\ fresh.value = "fresh"
  <2> HIDE DEF verdict, fresh
  <2>1. verdict.support \in SupportValues
    BY DEF ClassifySupport, SupportValues, verdict
  <2>2. fresh.value \in FreshnessValues
    BY DEF ResolveFreshness, FreshnessValues, fresh
  <2>3. QED
    BY <1>1, <2>1, <2>2 DEF Token, IsFresh, TokenFreshness, SupportValues, FreshnessValues
<1>3. fact.conclusion /\ ~(fact.details > 0)
  <2> HIDE DEF fact
  <2>1. QED
    BY <1>2 DEF ClassifySupport, SupportValues
<1>4. IsUsable(item) /\ item.valued
  BY <1>3 DEF FactFromItem, IsUsable, Stored
<1>5. /\ fact.at = RetrievedAt(item) /\ fact.failed = (TRUE /\ RefreshFailed(item))
      /\ fact.failedAt = item.failure.at
      /\ fact.sources = IF item.sources = <<>> THEN <<RetrievedAt(item)>>
                        ELSE [i \in DOMAIN item.sources |->
                                IF item.sources[i] = NoTime THEN RetrievedAt(item)
                                ELSE item.sources[i]]
  <2>1. CASE item.status = "sourced"
    BY <1>4, <2>1 DEF FactFromItem
  <2>2. CASE item.status = "estimated"
    BY <1>4, <2>2 DEF FactFromItem
  <2>3. QED
    BY <1>4, <2>1, <2>2 DEF IsUsable
<1> HIDE DEF fact, verdict
<1>6. RetrievedAt(item) # NoTime
  BY <1>4
<1>7. when = RetrievedAt(item)
  BY <1>5, <1>6
<1> HIDE DEF when
<1>8. /\ ~(RefreshFailed(item) /\ (item.failure.at = NoTime \/ item.failure.at > RetrievedAt(item)))
      /\ at - RetrievedAt(item) <= policies[DataTypeFor(d, item)].tolerance
  BY <1>2, <1>5, <1>6, <1>7 DEF ResolveFreshness
<1>9. QED
  BY <1>4, <1>6, <1>8 DEF FailedSince

\* What a railway collection finds.
LEMMA RailLive ==
  ASSUME domain = "railway", NEW t \in Time
  PROVE  /\ Dated(Live(t)) /\ Live(t).snapshotAt = t /\ Live(t).sources = <<t>>
         /\ Live(t).status = "sourced" /\ Live(t).valued /\ Live(t).failure = NoFailure
         /\ ~Live(t).routeFailure
         /\ Live(t) \in Stored /\ ~FailedSince(Live(t)) /\ RetrievedAt(Live(t)) = t
<1>1. /\ Live(t).snapshotAt = t /\ Live(t).sources = <<t>>
      /\ Live(t).status = "sourced" /\ Live(t).valued /\ Live(t).failure = NoFailure
      /\ ~Live(t).routeFailure
  BY DEF Live, Absent, MissingItem
<1>2. Dated(Live(t)) /\ ~FailedSince(Live(t))
  BY <1>1 DEF Dated, IsUsable, FailedSince, RefreshFailed, NoFailure
<1>3. Live(t) \in Stored
  BY MadeTypes DEF Stamp
<1>4. QED
  BY <1>1, <1>2, <1>3, DatedAt

\* It is verified for as long as it may be, and fresh no longer.
LEMMA RailVerdict ==
  ASSUME domain = "railway", NEW t \in Time, NEW at \in Int, t <= at
  PROVE  LET verdict == ProjectDomain(ReadPolicies, domain, Live(t), at)
         IN  /\ at - t <= Tolerance => verdict.token = "verified"
             /\ IsFresh(verdict) => at - t <= Tolerance
<1> DEFINE item == Live(t)
           fact == FactFromItem(item)
           fresh == ResolveFreshness(
                      IF fact.at # NoTime THEN fact.at ELSE FirstRetrievedAt(fact),
                      at, ReadPolicies[DataTypeFor(domain, item)].tolerance,
                      fact.failed, fact.failedAt)
<1>1. /\ fact.conclusion = TRUE /\ fact.details = 0 /\ fact.derivation = "direct_observation"
      /\ fact.sources = <<t>> /\ fact.at = t /\ fact.failed = FALSE /\ fact.failedAt = NoTime
  <2>1. t # NoTime
    BY StampFacts DEF Time, NoTime
  <2>2. /\ item.sources = <<t>> /\ RetrievedAt(item) = t /\ item.status = "sourced"
        /\ item.valued /\ item.failure = NoFailure /\ ~item.routeFailure
    BY RailLive
  <2>3. /\ item.sources # <<>>
        /\ [i \in DOMAIN item.sources |->
               IF item.sources[i] = NoTime THEN RetrievedAt(item) ELSE item.sources[i]] = <<t>>
    BY <2>1, <2>2
  <2> HIDE DEF item
  <2>4. /\ fact.conclusion = TRUE /\ fact.details = 0 /\ fact.derivation = "direct_observation"
        /\ fact.at = RetrievedAt(item) /\ fact.failedAt = item.failure.at
        /\ fact.failed = (TRUE /\ RefreshFailed(item))
        /\ fact.sources = [i \in DOMAIN item.sources |->
               IF item.sources[i] = NoTime THEN RetrievedAt(item) ELSE item.sources[i]]
    BY <2>2, <2>3 DEF FactFromItem
  <2>5. (TRUE /\ RefreshFailed(item)) = FALSE /\ item.failure.at = NoTime
    BY <2>2 DEF NoFailure, RefreshFailed
  <2> HIDE DEF fact
  <2>6. fact.sources = <<t>> /\ fact.at = t /\ fact.failedAt = NoTime
    BY <2>2, <2>3, <2>4, <2>5
  <2>7. fact.failed = FALSE
    BY <2>4, <2>5
  <2>8. QED
    BY <2>4, <2>6, <2>7
<1>2. t # NoTime /\ t \in Int
  BY StampFacts DEF Time, NoTime
<1>3. ReadPolicies[DataTypeFor(domain, item)].tolerance = Tolerance
  BY DEF ReadPolicies, PoliciesOf, DataTypeFor
<1> HIDE DEF fact
<1>4. ClassifySupport(fact).support = "sourced"
  <2>1. SourcesComplete(fact)
    BY <1>1, <1>2 DEF SourcesComplete
  <2>2. QED
    BY <1>1, <2>1 DEF ClassifySupport, DerivationsSourced, DerivationsEstimated
<1>5. fresh.value = IF at - t <= Tolerance THEN "fresh" ELSE "stale"
  BY <1>1, <1>2, <1>3 DEF ResolveFreshness
<1>6. ProjectDomain(ReadPolicies, domain, item, at).token = Token("sourced", fresh.value)
  BY <1>4 DEF ProjectDomain, EvaluateFact, fact
<1> HIDE DEF fresh
<1>7. QED
  BY <1>5, <1>6 DEF Token, IsFresh, TokenFreshness

-----------------------------------------------------------------------------
(* The invariant of a railway query: a live answer is what landed last, or what  *)
(* is shown is missing or marked with a failure since it was collected.          *)

Past == {t \in Time : t <= now}
Spent(item) == item.status = "missing" \/ (Dated(item) /\ FailedSince(item))

\* The collection under way began after the last success.
RailAttempt(r) ==
    /\ attempt[r].phase # "disputed"
    /\ attempt[r].phase # "idle" =>
           attempt[r].since \in Time /\ (IsUsable(last[r]) => last[r].snapshotAt < attempt[r].since)
    /\ attempt[r].phase = "answered" =>
           \/ attempt[r].item = Failure(attempt[r].since)
           \/ \E t \in Past : attempt[r].item = Live(t)
    /\ attempt[r].phase = "settled" => \E t \in Past : attempt[r].item = Live(t)
    /\ attempt[r].phase = "degraded" =>
           \/ attempt[r].item = Failure(attempt[r].since)
           \/ Dated(attempt[r].item) /\ FailedSince(attempt[r].item)

RailShown(r) ==
    /\ IsUsable(last[r]) => Dated(last[r])
    /\ landed[r].how = "live" => landed[r].at \in Past /\ shown[r] = Live(landed[r].at)
    /\ landed[r].how # "live" => Spent(shown[r])

RailReader(r) ==
    reader[r] # NotReading =>
        reader[r].at \in Time /\ Dated(reader[r].item) /\ reader[r].item.snapshotAt < reader[r].at

RailRecord(rec) == rec = NoRecord \/ (rec.at \in Time /\ Dated(rec.item))

Rail ==
    domain = "railway" =>
        /\ RailRecord(record) /\ RailRecord(disk)
        /\ \A r \in Runs : RailAttempt(r) /\ RailShown(r) /\ RailReader(r)

\* Time passes, and each part depends on little.
LEMMA RailKept ==
  ASSUME Typed, Typed', domain = "railway", domain' = domain, now <= now', NEW r \in Runs
  PROVE  /\ RailAttempt(r) /\ attempt'[r] = attempt[r] /\ last'[r] = last[r] => RailAttempt(r)'
         /\ RailShown(r) /\ <<last[r], landed[r], shown[r]>>' = <<last[r], landed[r], shown[r]>>
              => RailShown(r)'
         /\ RailReader(r) /\ reader'[r] = reader[r] => RailReader(r)'
<1>1. \A t \in Past : t \in Past'
  BY TimesAssumption DEF Past, Typed, Time
<1>2. \A t : Live(t)' = Live(t) /\ Failure(t)' = Failure(t)
  BY DEF Live, Failure
<1>3. RailAttempt(r) /\ attempt'[r] = attempt[r] /\ last'[r] = last[r] => RailAttempt(r)'
  BY <1>1, <1>2 DEF RailAttempt
<1>4. RailShown(r) /\ <<last[r], landed[r], shown[r]>>' = <<last[r], landed[r], shown[r]>>
        => RailShown(r)'
  BY <1>1, <1>2 DEF RailShown
<1>5. QED
  BY <1>3, <1>4 DEF RailReader

\* What a run falls back on says that a refresh has failed.
LEMMA RailLent ==
  ASSUME domain = "railway", NEW item, Dated(item), item \in Stored, NEW failed, NEW t \in Time,
         failed.failure.at = NoTime \/ failed.failure.at > item.snapshotAt
  PROVE  /\ Dated(StaleEvidence(item, failed)) /\ FailedSince(StaleEvidence(item, failed))
         /\ \A rec : rec.at = t /\ rec.item = item =>
                Dated(StaleProjection(rec)) /\ FailedSince(StaleProjection(rec))
         /\ item.snapshotAt < t => LET kept == WithRefreshFailure(item, t)
                                   IN  Dated(kept) /\ FailedSince(kept)
<1>1. LET stale == StaleEvidence(item, failed)
      IN  /\ stale.status = "sourced" /\ stale.snapshotAt = item.snapshotAt
          /\ stale.failure = FailedAt(failed.failure.at)
  BY DEF StaleEvidence, Stored
<1>2. \A rec : rec.at = t /\ rec.item = item =>
        LET lent == StaleProjection(rec)
        IN  /\ lent.status = item.status /\ lent.snapshotAt = t
            /\ lent.failure = FailedAt(NoTime)
  BY DEF StaleProjection, Stored
<1>3. LET kept == WithRefreshFailure(item, t)
      IN  /\ kept.status = item.status /\ kept.snapshotAt = item.snapshotAt
          /\ kept.failure = FailedAt(t)
  BY DEF WithRefreshFailure, Stored
<1>4. ASSUME NEW x, x.failure.present, Dated(x),
             x.failure.at = NoTime \/ x.failure.at > x.snapshotAt
      PROVE  FailedSince(x)
  BY <1>4, DatedAt DEF FailedSince, RefreshFailed
<1>5. /\ Dated(StaleEvidence(item, failed)) /\ FailedSince(StaleEvidence(item, failed))
  BY <1>1, <1>4 DEF Dated, IsUsable, FailedAt
<1>6. ASSUME NEW rec, rec.at = t, rec.item = item
      PROVE  Dated(StaleProjection(rec)) /\ FailedSince(StaleProjection(rec))
  BY <1>2, <1>6, <1>4 DEF Dated, IsUsable, FailedAt
<1>7. ASSUME item.snapshotAt < t
      PROVE  LET kept == WithRefreshFailure(item, t) IN Dated(kept) /\ FailedSince(kept)
  <2> DEFINE kept == WithRefreshFailure(item, t)
  <2>1. Dated(kept)
    BY <1>3 DEF Dated, IsUsable
  <2>2. kept.failure.present /\ kept.failure.at > kept.snapshotAt
    BY <1>3, <1>7, StampFacts DEF FailedAt, Dated, Stamp
  <2>3. QED
    BY <1>4, <2>1, <2>2
<1>8. QED
  BY <1>5, <1>6, <1>7

\* At first nothing has been collected.
LEMMA RailInit == Init => Rail
<1>1. Absent.status = "missing"
  BY DEF Absent, MissingItem
<1>2. QED
  BY <1>1 DEF Init, Rail, RailRecord, RailAttempt, RailShown, RailReader, Idle, Nothing, Spent,
     IsUsable

\* Of a submission by a run or its host.
LEMMA RailSubmitted ==
  ASSUME Typed, domain = "railway", NEW r \in Runs, RailShown(r),
         NEW item \in Stored, NEW how \in {"live", "fallback"}, Submitted(r, item, how),
         \/ item.status = "missing" /\ how = "fallback"
              /\ (IsUsable(last[r]) => \/ item.failure.at = NoTime
                                       \/ item.failure.at > last[r].snapshotAt)
         \/ how = "fallback" /\ Dated(item) /\ FailedSince(item)
         \/ how = "live" /\ \E t \in Past : item = Live(t),
         UNCHANGED <<domain, now>>
  PROVE  /\ RailShown(r)'
         /\ \A s \in Runs \ {r} : <<last[s], landed[s], shown[s]>>' = <<last[s], landed[s], shown[s]>>
<1>1. /\ landed'[r] = [how |-> how, at |-> RetrievedAt(item)]
      /\ IsUsable(item) => shown'[r] = item /\ last'[r] = item
      /\ ~IsUsable(item) =>
            /\ last'[r] = last[r]
            /\ shown'[r] = IF IsUsable(last[r]) THEN StaleEvidence(last[r], item) ELSE item
  BY DEF Submitted, Typed
<1>2. \A s \in Runs \ {r} : <<last[s], landed[s], shown[s]>>' = <<last[s], landed[s], shown[s]>>
  BY DEF Submitted, Typed
<1>3. Past' = Past /\ \A t : Live(t)' = Live(t)
  BY DEF Past, Live
<1>4. CASE item.status = "missing" /\ how = "fallback"
             /\ (IsUsable(last[r]) => \/ item.failure.at = NoTime
                                      \/ item.failure.at > last[r].snapshotAt)
  <2>1. ~IsUsable(item)
    BY <1>4 DEF IsUsable
  <2>2. CASE IsUsable(last[r])
    <3>1. Dated(last[r]) /\ last[r] \in Stored
      BY <2>2, TypedRun DEF RailShown
    <3>2. 0 \in Time
      BY TimesAssumption DEF Time
    <3>3. Dated(StaleEvidence(last[r], item)) /\ FailedSince(StaleEvidence(last[r], item))
      BY <1>4, <2>2, <3>1, <3>2, RailLent
    <3>4. QED
      BY <1>1, <1>2, <1>4, <2>1, <2>2, <3>1, <3>3 DEF RailShown, Spent
  <2>3. CASE ~IsUsable(last[r])
    BY <1>1, <1>2, <1>4, <2>1, <2>3 DEF RailShown, Spent
  <2>4. QED
    BY <2>2, <2>3
<1>5. CASE how = "fallback" /\ Dated(item) /\ FailedSince(item)
  BY <1>1, <1>2, <1>5 DEF RailShown, Spent, Dated
<1>6. CASE how = "live" /\ \E t \in Past : item = Live(t)
  <2>1. PICK t \in Past : item = Live(t)
    BY <1>6
  <2>2. t \in Time /\ Dated(item) /\ RetrievedAt(item) = t
    BY <2>1, RailLive DEF Past
  <2>3. QED
    BY <1>1, <1>2, <1>3, <1>6, <2>1, <2>2 DEF RailShown, Dated
<1>7. QED
  BY <1>4, <1>5, <1>6

\* Settling: what is usable is live; what is not gives way to what can be fallen back on.
LEMMA RailSettled ==
  ASSUME Typed, Typed', Rail, domain = "railway", NEW r \in Runs, Settle(r)
  PROVE  /\ RailRecord(record') /\ RailRecord(disk') /\ RailAttempt(r)'
         /\ \A s \in Runs \ {r} : attempt'[s] = attempt[s]
<1> DEFINE item == attempt[r].item
           since == attempt[r].since
<1>1. /\ attempt[r].phase = "answered" /\ RailAttempt(r) /\ RailShown(r)
      /\ RailRecord(record) /\ RailRecord(disk)
  BY DEF Settle, Rail
<1>2. /\ since \in Time /\ (IsUsable(last[r]) => last[r].snapshotAt < since)
      /\ item = Failure(since) \/ \E t \in Past : item = Live(t)
      /\ last[r] \in Stored /\ item \in Stored
  BY <1>1, TypedRun DEF RailAttempt
<1>3. UNCHANGED <<domain, now, last>>
  BY DEF Settle
<1>4. Past' = Past /\ \A t : Live(t)' = Live(t) /\ Failure(t)' = Failure(t)
  BY <1>3 DEF Past, Live, Failure
<1>5. CASE \E t \in Past : item = Live(t)
  <2>1. PICK t \in Past : item = Live(t)
    BY <1>5
  <2>2. t \in Time /\ Dated(item) /\ RetrievedAt(item) = t
    BY <2>1, RailLive DEF Past
  <2>3. Publish(r, item)
    BY <2>2 DEF Settle, IsUsableLive, Dated
  <2>4. \/ attempt' = [attempt EXCEPT ![r] = [attempt[r] EXCEPT !.phase = "settled"]]
        \/ attempt' = [attempt EXCEPT ![r] = Idle]
    <3>1. CASE record = NoRecord \/ record.at <= RetrievedAt(item)
      <4>1. PICK persisted \in {TRUE} \union (IF faults < MaxFaults THEN {FALSE} ELSE {}) :
              attempt' = [attempt EXCEPT ![r] =
                             IF persisted THEN [@ EXCEPT !.phase = "settled"] ELSE Idle]
        BY <2>3, <3>1 DEF Publish
      <4>2. CASE persisted
        BY <4>1, <4>2 DEF Typed
      <4>3. CASE ~persisted
        BY <4>1, <4>3 DEF Typed
      <4>4. QED
        BY <4>2, <4>3
    <3>2. CASE ~(record = NoRecord \/ record.at <= RetrievedAt(item))
      BY <2>3, <3>2 DEF Publish, Typed
    <3>3. QED
      BY <3>1, <3>2
  <2>5. attempt[r] \in Attempts
    BY TypedRun
  <2>6. /\ attempt'[r] = [attempt[r] EXCEPT !.phase = "settled"] \/ attempt'[r] = Idle
        /\ \A s \in Runs \ {r} : attempt'[s] = attempt[s]
    BY <2>4 DEF Typed
  <2>7. RailAttempt(r)'
    <3>1. CASE attempt'[r] = Idle
      BY <3>1 DEF RailAttempt, Idle
    <3>2. CASE attempt'[r] = [attempt[r] EXCEPT !.phase = "settled"]
      <4>1. /\ attempt'[r].phase = "settled" /\ attempt'[r].since = since
            /\ attempt'[r].item = item
        BY <2>5, <3>2 DEF Attempts
      <4>2. QED
        BY <1>2, <1>3, <1>4, <2>1, <4>1 DEF RailAttempt
    <3>3. QED
      BY <2>6, <3>1, <3>2
  <2>8. RailRecord(record') /\ RailRecord(disk')
    <3>1. /\ record' = record \/ record' = [run |-> r, at |-> RetrievedAt(item), item |-> item]
          /\ disk' = disk \/ disk' = record'
      BY <2>3 DEF Publish
    <3>2. RailRecord([run |-> r, at |-> RetrievedAt(item), item |-> item])
      BY <2>2 DEF RailRecord
    <3>3. QED
      BY <1>1, <3>1, <3>2
  <2>9. QED
    BY <2>6, <2>7, <2>8
<1>6. CASE ~\E t \in Past : item = Live(t)
  <2>1. item = Failure(since)
    BY <1>2, <1>6
  <2>2. item.status = "missing" /\ item.failure.at = since
    BY <2>1 DEF Failure, MissingItem, NoFailure
  <2>3. PICK phase, fallback :
          /\ phase = "degraded" /\ attempt' = [attempt EXCEPT ![r].phase = phase,
                                                             ![r].item = fallback]
          /\ fallback = CASE IsUsable(last[r]) -> StaleEvidence(last[r], item)
                          [] ~IsUsable(last[r]) /\ Lends(r) -> StaleProjection(record)
                          [] OTHER -> item
          /\ UNCHANGED <<record, disk>>
    BY <2>2 DEF Settle, IsUsableLive, IsUsable
  <2>4. fallback = item \/ (Dated(fallback) /\ FailedSince(fallback))
    <3>1. CASE IsUsable(last[r])
      BY <1>1, <1>2, <2>2, <2>3, <3>1, RailLent DEF RailShown
    <3>2. CASE ~IsUsable(last[r]) /\ Lends(r)
      <4>1. record.item \in Stored
        BY DEF Typed, Records
      <4>2. record.at \in Time /\ Dated(record.item)
        BY <1>1, <3>2 DEF Lends, RailRecord
      <4>3. (MissingItem("no_source_found")).failure.at = NoTime
        BY DEF MissingItem, NoFailure
      <4>4. Dated(StaleProjection(record)) /\ FailedSince(StaleProjection(record))
        BY <4>1, <4>2, <4>3, RailLent
      <4>5. fallback = StaleProjection(record)
        BY <2>3, <3>2
      <4>6. QED
        BY <4>4, <4>5
    <3>3. CASE ~IsUsable(last[r]) /\ ~Lends(r)
      BY <2>3, <3>3
    <3>4. QED
      BY <3>1, <3>2, <3>3
  <2>5. /\ attempt'[r].phase = "degraded" /\ attempt'[r].item = fallback
        /\ attempt'[r].since = since
        /\ \A s \in Runs \ {r} : attempt'[s] = attempt[s]
    BY <2>3, TypedRun DEF Typed, Attempts
  <2>6. RailAttempt(r)'
    BY <1>2, <1>3, <1>4, <2>1, <2>4, <2>5 DEF RailAttempt
  <2>7. QED
    BY <1>1, <2>3, <2>5, <2>6
<1>7. QED
  BY <1>5, <1>6

\* Reading: whoever begins reads usable evidence, which is dated; a failure marks it.
LEMMA RailFinished ==
  ASSUME Typed, Typed', Rail, domain = "railway", NEW r \in Runs, FinishRead(r)
  PROVE  RailShown(r)' /\ RailReader(r)'
<1>1. RailShown(r) /\ RailReader(r) /\ reader[r] # NotReading /\ reader[r].item \in Stored
  BY TypedRun DEF Rail, FinishRead
<1>2. /\ last'[r] = last[r] /\ reader'[r] = NotReading
      /\ now \in Past /\ Past' = Past /\ \A t : Live(t)' = Live(t)
  BY TimesAssumption DEF FinishRead, Typed, Past, Time, Live
<1>3. NotReading' = NotReading
  BY DEF NotReading, Absent, MissingItem
<1>4. CASE /\ shown' = [shown EXCEPT ![r] = Live(now)]
           /\ landed' = [landed EXCEPT ![r] =
                 [how |-> IF IsUsable(Live(now)) THEN "live" ELSE "conflict", at |-> now]]
  <2>1. now \in Time /\ IsUsable(Live(now))
    BY RailLive DEF Typed, Dated
  <2>2. shown'[r] = Live(now) /\ landed'[r] = [how |-> "live", at |-> now]
    BY <1>4, <2>1 DEF Typed
  <2>3. QED
    BY <1>1, <1>2, <1>3, <2>1, <2>2 DEF RailShown, RailReader
<1>5. CASE /\ shown' = [shown EXCEPT ![r] = WithRefreshFailure(reader[r].item, reader[r].at)]
           /\ landed' = [landed EXCEPT ![r] = [how |-> "fallback", at |-> NoTime]]
  <2>1. /\ reader[r].at \in Time /\ Dated(reader[r].item)
        /\ reader[r].item.snapshotAt < reader[r].at
    BY <1>1 DEF RailReader
  <2>2. (MissingItem("no_source_found")).failure.at = NoTime
    BY DEF MissingItem, NoFailure
  <2>3. LET kept == WithRefreshFailure(reader[r].item, reader[r].at)
        IN  Dated(kept) /\ FailedSince(kept)
    BY <1>1, <2>1, <2>2, RailLent
  <2>4. QED
    BY <1>1, <1>2, <1>3, <1>5, <2>3 DEF RailShown, RailReader, Spent, Typed
<1>6. CASE /\ shown' = [shown EXCEPT ![r] = MissingItem("no_source_found")]
           /\ landed' = [landed EXCEPT ![r] = [how |-> "fallback", at |-> NoTime]]
  <2>1. shown'[r].status = "missing"
    BY <1>6 DEF MissingItem, Typed
  <2>2. QED
    BY <1>1, <1>2, <1>3, <1>6, <2>1 DEF RailShown, RailReader, Spent, Typed
<1>7. QED
  BY <1>4, <1>5, <1>6 DEF FinishRead

\* Every step keeps what railway evidence is.
LEMMA RailNext == Typed /\ Rail /\ [Next]_vars => Rail'
<1> SUFFICES ASSUME Typed, Rail, [Next]_vars, domain' = "railway" PROVE Rail'
  BY DEF Rail
<1>1. domain = "railway" /\ Typed'
  BY TypedNext DEF Next, vars, Ask, Answer, Settle, Submit, HostSubmit, StartRead, FinishRead,
     Restart, Tick
<1>2. /\ RailRecord(record) /\ RailRecord(disk)
      /\ \A r \in Runs : RailAttempt(r) /\ RailShown(r) /\ RailReader(r)
  BY <1>1 DEF Rail
<1>3. \A rec : RailRecord(rec) <=> rec = NoRecord \/ (rec.at \in Time /\ Dated(rec.item))
  BY DEF RailRecord
<1>4. now <= now'
  <2>1. now' = now \/ now' = now + 1
    BY DEF Next, vars, Ask, Answer, Settle, Submit, HostSubmit, StartRead, FinishRead,
       Restart, Tick
  <2>2. QED
    BY <2>1, TimesAssumption DEF Typed, Time
<1>5. ASSUME NEW r \in Runs
      PROVE  /\ attempt'[r] = attempt[r] /\ last'[r] = last[r] => RailAttempt(r)'
             /\ <<last[r], landed[r], shown[r]>>' = <<last[r], landed[r], shown[r]>> => RailShown(r)'
             /\ reader'[r] = reader[r] => RailReader(r)'
  BY <1>1, <1>2, <1>4, RailKept
<1>6. ASSUME NEW r \in Runs, Ask(r) PROVE Rail'
  <2>1. RailAttempt(r)'
    <3>1. attempt'[r] = [phase |-> "asked", since |-> now, item |-> shown[r]] /\ last' = last
      BY <1>6 DEF Ask, Typed
    <3>2. IsUsable(last[r]) => last[r].snapshotAt < now
      BY <1>2, <1>6, DatedAt DEF Ask, LaterThan, RailShown
    <3>3. QED
      BY <3>1, <3>2 DEF RailAttempt, Typed
  <2>2. \A s \in Runs \ {r} : attempt'[s] = attempt[s] /\ last'[s] = last[s]
    BY <1>6 DEF Ask, Typed
  <2>3. QED
    BY <1>2, <1>5, <1>6, <2>1, <2>2 DEF Ask, Rail, RailRecord
<1>7. ASSUME NEW r \in Runs, Answer(r) PROVE Rail'
  <2>1. PICK item \in {Live(now), Failure(attempt[r].since)} :
          attempt' = [attempt EXCEPT ![r].phase = "answered", ![r].item = item]
    BY <1>1, <1>7 DEF Answer
  <2>2. /\ attempt'[r].phase = "answered" /\ attempt'[r].item = item
        /\ attempt'[r].since = attempt[r].since /\ last' = last
        /\ \A s \in Runs \ {r} : attempt'[s] = attempt[s] /\ last'[s] = last[s]
    BY <1>7, <2>1, TypedRun DEF Answer, Typed, Attempts
  <2>3. now \in Past' /\ \A t : Live(t)' = Live(t) /\ Failure(t)' = Failure(t)
    <3>1. now' = now /\ domain' = domain
      BY <1>7 DEF Answer
    <3>2. now \in Past
      BY TimesAssumption DEF Typed, Past, Time
    <3>3. Past' = Past
      BY <3>1 DEF Past
    <3>4. QED
      BY <3>1, <3>2, <3>3 DEF Live, Failure
  <2>4. RailAttempt(r)'
    BY <1>2, <1>7, <2>1, <2>2, <2>3 DEF RailAttempt, Answer
  <2>5. QED
    BY <1>2, <1>5, <1>7, <2>2, <2>4 DEF Answer, Rail, RailRecord
<1>8. ASSUME NEW r \in Runs, Settle(r) PROVE Rail'
  <2>1. /\ RailRecord(record') /\ RailRecord(disk') /\ RailAttempt(r)'
        /\ \A s \in Runs \ {r} : attempt'[s] = attempt[s]
    BY <1>1, <1>8, RailSettled
  <2>2. UNCHANGED <<last, shown, landed, reader>>
    BY <1>8 DEF Settle
  <2>3. QED
    BY <1>2, <1>5, <2>1, <2>2 DEF Rail, RailRecord
<1>9. ASSUME NEW r \in Runs, Submit(r) PROVE Rail'
  <2> DEFINE a == attempt[r]
  <2>1. RailAttempt(r) /\ RailShown(r) /\ a.item \in Stored /\ a.phase \in {"settled", "degraded"}
    BY <1>2, <1>9, TypedRun DEF Submit, RailAttempt
  <2>2. PICK how : /\ how = CASE a.phase = "settled" /\ ~FailedSince(a.item) -> "live"
                              [] a.phase = "disputed" -> "conflict"
                              [] OTHER -> "fallback"
                   /\ Submitted(r, a.item, how)
    BY <1>9 DEF Submit
  <2>3. \/ a.item.status = "missing" /\ how = "fallback"
             /\ (IsUsable(last[r]) => \/ a.item.failure.at = NoTime
                                      \/ a.item.failure.at > last[r].snapshotAt)
        \/ how = "fallback" /\ Dated(a.item) /\ FailedSince(a.item)
        \/ how = "live" /\ \E t \in Past : a.item = Live(t)
    <3>1. CASE a.phase = "settled"
      <4>1. PICK t \in Past : a.item = Live(t)
        BY <2>1, <3>1 DEF RailAttempt
      <4>2. ~FailedSince(a.item)
        BY <1>1, <4>1, RailLive DEF Past
      <4>3. QED
        BY <2>2, <3>1, <4>1, <4>2
    <3>2. CASE a.phase = "degraded"
      <4>1. how = "fallback"
        BY <2>2, <3>2
      <4>2. CASE a.item = Failure(a.since)
        <5>1. a.item.status = "missing" /\ a.item.failure.at = a.since
          BY <1>1, <4>2 DEF Failure, MissingItem, NoFailure
        <5>2. IsUsable(last[r]) => last[r].snapshotAt < a.since
          BY <2>1, <3>2 DEF RailAttempt
        <5>3. IsUsable(last[r]) => last[r].snapshotAt \in Int
          BY <2>1, StampFacts DEF RailShown, Dated, Stamp
        <5>4. a.since \in Int
          BY TypedRun, StampFacts
        <5>5. QED
          BY <4>1, <5>1, <5>2, <5>3, <5>4
      <4>3. CASE Dated(a.item) /\ FailedSince(a.item)
        BY <4>1, <4>3
      <4>4. QED
        BY <2>1, <3>2, <4>2, <4>3 DEF RailAttempt
    <3>3. QED
      BY <2>1, <3>1, <3>2
  <2>4. how \in {"live", "fallback"} /\ UNCHANGED <<domain, now>>
    BY <1>9, <2>3 DEF Submit
  <2>5. /\ RailShown(r)'
        /\ \A s \in Runs \ {r} : <<last[s], landed[s], shown[s]>>' = <<last[s], landed[s], shown[s]>>
    BY <1>1, <2>1, <2>2, <2>3, <2>4, RailSubmitted
  <2>6. attempt'[r] = Idle /\ \A s \in Runs \ {r} : attempt'[s] = attempt[s]
    BY <1>9 DEF Submit, Typed
  <2>7. RailAttempt(r)'
    BY <2>6 DEF RailAttempt, Idle
  <2>8. UNCHANGED <<record, disk, reader>>
    BY <1>9 DEF Submit
  <2>9. QED
    BY <1>2, <1>5, <2>5, <2>6, <2>7, <2>8 DEF Rail, RailRecord
<1>10. ASSUME NEW r \in Runs, HostSubmit(r) PROVE Rail'
  <2> DEFINE item == MissingItem("no_source_found")
  <2>1. item.status = "missing" /\ item.failure.at = NoTime /\ item \in Stored
    BY MadeTypes, StampFacts DEF MissingItem, NoFailure
  <2>2. Submitted(r, item, "fallback") /\ UNCHANGED <<domain, now, record, disk, attempt, reader>>
    BY <1>10 DEF HostSubmit
  <2>3. RailShown(r)
    BY <1>2
  <2> HIDE DEF item
  <2>4. /\ RailShown(r)'
        /\ \A s \in Runs \ {r} : <<last[s], landed[s], shown[s]>>' = <<last[s], landed[s], shown[s]>>
    BY <1>1, <2>1, <2>2, <2>3, RailSubmitted
  <2>5. last'[r] = last[r]
    BY <2>1, <2>2 DEF Submitted, IsUsable
  <2>6. QED
    BY <1>2, <1>5, <2>2, <2>4, <2>5 DEF Rail, RailRecord
<1>11. ASSUME NEW r \in Runs, StartRead(r) PROVE Rail'
  <2>1. reader'[r] = [at |-> now, item |-> shown[r]]
        /\ \A s \in Runs \ {r} : reader'[s] = reader[s]
    BY <1>11 DEF StartRead, Typed
  <2>2. Dated(shown[r])
    <3>1. CASE landed[r].how = "live"
      BY <1>1, <1>2, <3>1, RailLive DEF RailShown, Past
    <3>2. CASE landed[r].how # "live"
      BY <1>2, <1>11, <3>2 DEF RailShown, Spent, StartRead, IsUsable
    <3>3. QED
      BY <3>1, <3>2
  <2>3. shown[r].snapshotAt < now /\ now \in Time
    BY <1>11, <2>2, DatedAt DEF StartRead, LaterThan, Typed
  <2>4. RailReader(r)'
    BY <2>1, <2>2, <2>3 DEF RailReader
  <2>5. UNCHANGED <<record, disk, attempt, shown, last, landed>>
    BY <1>11 DEF StartRead
  <2>6. QED
    BY <1>2, <1>5, <2>1, <2>4, <2>5 DEF Rail, RailRecord
<1>12. ASSUME NEW r \in Runs, FinishRead(r) PROVE Rail'
  <2>1. RailShown(r)' /\ RailReader(r)'
    BY <1>1, <1>12, RailFinished
  <2>2. /\ UNCHANGED <<record, disk, attempt, last>>
        /\ \A s \in Runs \ {r} : <<landed[s], shown[s], reader[s]>>' = <<landed[s], shown[s], reader[s]>>
    BY <1>12 DEF FinishRead, Typed
  <2>3. QED
    BY <1>2, <1>5, <2>1, <2>2 DEF Rail, RailRecord
<1>13. CASE Restart
  <2>1. \A r \in Runs : attempt'[r] = Idle /\ reader'[r] = NotReading
    BY <1>13 DEF Restart
  <2>2. \A r \in Runs : RailAttempt(r)' /\ RailReader(r)'
    <3>1. NotReading' = NotReading /\ Idle.phase = "idle"
      BY DEF NotReading, Absent, MissingItem, Idle
    <3>2. QED
      BY <2>1, <3>1 DEF RailAttempt, RailReader
  <2>3. UNCHANGED <<shown, last, landed, disk>> /\ record' = disk
    BY <1>13 DEF Restart
  <2>4. QED
    BY <1>2, <1>5, <2>2, <2>3 DEF Rail, RailRecord
<1>14. CASE Tick \/ UNCHANGED vars
  <2>1. UNCHANGED <<record, disk, attempt, shown, last, landed, reader>>
    BY <1>14 DEF Tick, vars
  <2>2. QED
    BY <1>2, <1>5, <2>1 DEF Rail, RailRecord
<1>15. QED
  BY <1>6, <1>7, <1>8, <1>9, <1>10, <1>11, <1>12, <1>13, <1>14 DEF Next

\* Live railway evidence is verified until its time is up: LiveRailwayIsVerified.
THEOREM LiveIsVerified == Spec => []LiveRailwayIsVerified
<1>1. Typed /\ Rail => LiveRailwayIsVerified
  <2>1. SUFFICES ASSUME Typed, Rail, NEW r \in Runs, domain = "railway",
                        landed[r].how = "live", now - landed[r].at <= Tolerance
                 PROVE  Verdict(r, now).token = "verified"
    BY DEF LiveRailwayIsVerified
  <2>2. landed[r].at \in Time /\ landed[r].at <= now /\ shown[r] = Live(landed[r].at)
    BY <2>1 DEF Rail, RailShown, Past
  <2>3. now \in Int
    BY <2>1, TimesAssumption DEF Typed, Time
  <2>4. QED
    BY <2>1, <2>2, <2>3, RailVerdict DEF Verdict
<1>2. QED
  BY <1>1, TypedInit, TypedNext, RailInit, RailNext, PTL DEF Spec

-----------------------------------------------------------------------------
(* Map evidence: what is known of the stamps of items, made, lent and merged.    *)

\* No stamp of the item is later than t.
Before(item, t) ==
    /\ item.snapshotAt <= t /\ item.freshnessAt <= t /\ item.valueAt <= t
    /\ LatestOf(item.sources) <= t

\* An item at time t: it has no later stamp and, when it can be used, a source with one.
Held(item, t) == Before(item, t) /\ (IsUsable(item) => LatestOf(item.sources) # NoTime)

\* The item was found after every stamp of the run's last success.
FoundSince(item, old) == Before(old, RetrievedAt(item)) /\ Before(item, RetrievedAt(item))

\* Routes that no refresh has failed to find again.
Clean(item) == IsUsable(item) /\ item.routes /\ ~FailedSince(item)

\* An item is retrieved no later than its latest stamp, and at some time when it is usable.
LEMMA HeldRetrieved ==
  ASSUME NEW item \in Stored, NEW t \in Time
  PROVE  /\ Before(item, t) => RetrievedAt(item) <= t
         /\ Held(item, t) /\ IsUsable(item) => RetrievedAt(item) # NoTime
  BY DEF Before, Held, RetrievedAt

\* What held once holds later.
LEMMA HeldLater ==
  ASSUME NEW item \in Stored, NEW s \in Time, NEW t \in Time, s <= t, Held(item, s)
  PROVE  Held(item, t)
<1>1. /\ item.snapshotAt \in Int /\ item.freshnessAt \in Int /\ item.valueAt \in Int
      /\ LatestOf(item.sources) \in Int
  BY LatestType, StampFacts DEF Stored
<1>2. s \in Int /\ t \in Int
  BY StampFacts DEF Stamp
<1>3. QED
  BY <1>1, <1>2 DEF Held, Before

\* What collections find holds at the time they find it.
LEMMA HeldMade ==
  ASSUME NEW t \in Time, NEW since, NEW reason
  PROVE  /\ Held(MissingItem(reason), t) /\ ~IsUsable(MissingItem(reason))
         /\ Held(Failure(since), t) /\ ~IsUsable(Failure(since))
         /\ Held(Conflict(t), t) /\ ~IsUsable(Conflict(t))
         /\ Held(District(t), t) /\ IsUsable(District(t)) /\ ~District(t).routes
         /\ RetrievedAt(District(t)) = t
<1>1. t \in Stamp /\ t # NoTime /\ NoTime <= t /\ t <= t
  BY StampFacts DEF Stamp, Time, NoTime
<1>2. LatestOf(<<>>) = NoTime /\ LatestOf(<<t>>) = t
  BY <1>1, OnlyLatest
<1>3. LET x == MissingItem(reason)
      IN  /\ x.status = "missing" /\ x.snapshotAt = NoTime /\ x.freshnessAt = NoTime
          /\ x.valueAt = NoTime /\ x.sources = <<>>
  BY DEF MissingItem
<1>4. LET x == Failure(since)
      IN  /\ x.status = "missing" /\ x.snapshotAt = NoTime /\ x.freshnessAt = NoTime
          /\ x.valueAt = NoTime /\ x.sources = <<>>
  BY DEF Failure, MissingItem
<1>5. LET x == Conflict(t)
      IN  /\ x.status = "conflicting" /\ x.snapshotAt = NoTime /\ x.freshnessAt = NoTime
          /\ x.valueAt = t /\ x.sources = <<t>>
  BY DEF Conflict, Absent, MissingItem
<1>6. LET x == District(t)
      IN  /\ x.status = "sourced" /\ x.snapshotAt = NoTime /\ x.freshnessAt = NoTime
          /\ x.valueAt = t /\ x.sources = <<t>> /\ x.routes = FALSE
  BY DEF District, Absent, MissingItem
<1>7. Held(MissingItem(reason), t) /\ ~IsUsable(MissingItem(reason))
  BY <1>1, <1>2, <1>3 DEF Held, Before, IsUsable
<1>8. Held(Failure(since), t) /\ ~IsUsable(Failure(since))
  BY <1>1, <1>2, <1>4 DEF Held, Before, IsUsable
<1>9. Held(Conflict(t), t) /\ ~IsUsable(Conflict(t))
  BY <1>1, <1>2, <1>5 DEF Held, Before, IsUsable
<1>10. Held(District(t), t) /\ IsUsable(District(t)) /\ RetrievedAt(District(t)) = t
  BY <1>1, <1>2, <1>6 DEF Held, Before, IsUsable, RetrievedAt
<1>11. QED
  BY <1>6, <1>7, <1>8, <1>9, <1>10

\* The routes found are found now; when none are found the item says that this failed.
LEMMA HeldRoutes ==
  ASSUME NEW district \in Stored, Held(district, now), IsUsable(district), now \in Time,
         NEW item \in RoutesFrom(district), NEW old, Before(old, now)
  PROVE  /\ Held(item, now)
         /\ \/ ~item.routes /\ RefreshFailed(item)
            \/ item.routes /\ FoundSince(item, old)
<1>1. now \in Stamp /\ now # NoTime /\ NoTime <= now /\ now <= now
  BY StampFacts DEF Stamp, Time, NoTime
<1>2. LatestOf(<<now>>) = now
  BY <1>1, OnlyLatest
<1>3. /\ item.snapshotAt = NoTime /\ item.freshnessAt = NoTime /\ item.valueAt = NoTime
      /\ \/ item.routes = TRUE /\ item.sources = <<now>>
         \/ item.routes = FALSE /\ item.routeFailure = TRUE /\ item.sources = district.sources
  BY DEF RoutesFrom, Absent, MissingItem
<1>4. CASE item.routes = TRUE /\ item.sources = <<now>>
  <2>1. RetrievedAt(item) = now
    BY <1>2, <1>3, <1>4 DEF RetrievedAt
  <2>2. QED
    BY <1>1, <1>2, <1>3, <1>4, <2>1 DEF Held, Before, FoundSince
<1>5. CASE item.routes = FALSE /\ item.routeFailure = TRUE /\ item.sources = district.sources
  BY <1>1, <1>3, <1>5 DEF Held, Before, RefreshFailed
<1>6. QED
  BY <1>3, <1>4, <1>5

\* What a run falls back on has no later stamps, and says that a refresh has failed.
LEMMA HeldLent ==
  ASSUME domain = "map", NEW t \in Time, NEW item \in Stored, Held(item, t), NEW failed
  PROVE  /\ IsUsable(item) => Held(StaleEvidence(item, failed), t)
         /\ FailedSince(StaleEvidence(item, failed))
         /\ RefreshFailed(StaleEvidence(item, failed))
         /\ \A rec : rec.item = item /\ rec.at <= t =>
               Held(StaleProjection(rec), t) /\ RefreshFailed(StaleProjection(rec))
         /\ LET kept == WithRefreshFailure(item, failed)
            IN  /\ Held(kept, t) /\ RefreshFailed(kept)
                /\ RetrievedAt(item) < failed => FailedSince(kept)
<1>1. LET stale == StaleEvidence(item, failed)
      IN  /\ stale.snapshotAt = item.snapshotAt /\ stale.freshnessAt = LatestOf(item.sources)
          /\ stale.valueAt = item.valueAt /\ stale.sources = item.sources
          /\ stale.failure = FailedAt(NoTime) /\ stale.status = "sourced"
  BY DEF StaleEvidence, Stored
<1>2. ASSUME NEW rec, rec.item = item
      PROVE  LET lent == StaleProjection(rec)
             IN  /\ lent.snapshotAt = item.snapshotAt /\ lent.freshnessAt = item.freshnessAt
                 /\ lent.valueAt = rec.at /\ lent.sources = item.sources
                 /\ lent.failure = FailedAt(NoTime) /\ lent.status = item.status
  BY <1>2 DEF StaleProjection, Stored
<1>3. LET kept == WithRefreshFailure(item, failed)
      IN  /\ kept.snapshotAt = item.snapshotAt /\ kept.freshnessAt = item.freshnessAt
          /\ kept.valueAt = item.valueAt /\ kept.sources = item.sources
          /\ kept.failure = FailedAt(failed) /\ kept.status = item.status
  BY DEF WithRefreshFailure, Stored
<1>4. IsUsable(item) => Held(StaleEvidence(item, failed), t)
  BY <1>1 DEF Held, Before, IsUsable
<1>5. RefreshFailed(StaleEvidence(item, failed)) /\ FailedSince(StaleEvidence(item, failed))
  BY <1>1 DEF FailedSince, RefreshFailed, FailedAt
<1>6. ASSUME NEW rec, rec.item = item, rec.at <= t
      PROVE  Held(StaleProjection(rec), t) /\ RefreshFailed(StaleProjection(rec))
  BY <1>2, <1>6 DEF Held, Before, IsUsable, RefreshFailed, FailedAt
<1>7. LET kept == WithRefreshFailure(item, failed)
      IN  /\ Held(kept, t) /\ RefreshFailed(kept)
          /\ RetrievedAt(item) < failed => FailedSince(kept)
  <2> DEFINE kept == WithRefreshFailure(item, failed)
  <2>1. Held(kept, t) /\ RefreshFailed(kept)
    BY <1>3 DEF Held, Before, IsUsable, RefreshFailed, FailedAt
  <2>2. RetrievedAt(kept) = RetrievedAt(item)
    BY <1>3 DEF RetrievedAt
  <2>3. RetrievedAt(item) < failed => kept.failure.at > RetrievedAt(kept)
    BY <1>3, <2>2 DEF FailedAt
  <2>4. QED
    BY <2>1, <2>3 DEF FailedSince
<1>8. QED
  BY <1>4, <1>5, <1>6, <1>7

\* Merging makes no later stamp, forgets no failure of the new item, and makes of an item
\* and itself one that was retrieved at the same time.
LEMMA MergedStamps ==
  ASSUME NEW old \in Stored, NEW new \in Stored, NEW t \in Stamp
  PROVE  /\ Before(old, t) /\ Before(new, t) => Before(Merged(old, new), t)
         /\ LatestOf(new.sources) # NoTime => LatestOf(Merged(old, new).sources) # NoTime
         /\ RefreshFailed(new) => RefreshFailed(Merged(old, new))
         /\ RetrievedAt(Merged(old, old)) = RetrievedAt(old)
<1>1. ASSUME NEW s \in Sources, NEW u \in Sources
      PROVE  /\ LatestOf(s \o u) = IF LatestOf(s) <= LatestOf(u) THEN LatestOf(u) ELSE LatestOf(s)
             /\ LatestOf(s) \in Stamp /\ LatestOf(s \o u) \in Stamp
  <2>1. LatestOf(s) \in Stamp /\ LatestOf(s \o u) \in Stamp
    BY LatestType
  <2>2. LatestOf(s) >= NoTime /\ LatestOf(u) >= NoTime /\ LatestOf(s) \in Int
        /\ LatestOf(u) \in Int /\ NoTime \in Int
    BY LatestType, StampFacts
  <2>3. CASE s = <<>>
    <3>1. s \o u = u
      BY <2>3 DEF Sources
    <3>2. QED
      BY <2>1, <2>2, <2>3, <3>1, OnlyLatest
  <2>4. CASE u = <<>>
    <3>1. s \o u = s
      BY <2>4 DEF Sources
    <3>2. QED
      BY <2>1, <2>2, <2>4, <3>1, OnlyLatest
  <2>5. CASE s # <<>> /\ u # <<>>
    <3>1. PICK x \in Stamp, y \in Stamp : s = <<x>> /\ u = <<y>>
      BY <2>5 DEF Sources
    <3>2. QED
      BY <2>1, <3>1, OnlyLatest
  <2>6. QED
    BY <2>3, <2>4, <2>5
<1>2. old.sources \in Sources /\ new.sources \in Sources
  BY DEF Stored
<1> DEFINE both == LatestOf(old.sources \o new.sources)
<1>3. LatestOf(<<both>>) = both
  BY <1>1, <1>2, OnlyLatest
<1>4. /\ Merged(old, new).snapshotAt \in {old.snapshotAt, new.snapshotAt}
      /\ Merged(old, new).freshnessAt \in {old.freshnessAt, new.freshnessAt}
      /\ Merged(old, new).valueAt \in {old.valueAt, new.valueAt}
      /\ LatestOf(Merged(old, new).sources) = both
  BY <1>3 DEF Merged
<1>5. both \in {LatestOf(old.sources), LatestOf(new.sources)}
  BY <1>1, <1>2
<1>6. Before(old, t) /\ Before(new, t) => Before(Merged(old, new), t)
  BY <1>4, <1>5 DEF Before
<1>7. LatestOf(new.sources) # NoTime => LatestOf(Merged(old, new).sources) # NoTime
  <2>1. /\ both = IF LatestOf(old.sources) <= LatestOf(new.sources)
                  THEN LatestOf(new.sources) ELSE LatestOf(old.sources)
        /\ LatestOf(old.sources) \in Stamp /\ LatestOf(new.sources) \in Stamp
    BY <1>1, <1>2
  <2> HIDE DEF both
  <2>2. LatestOf(old.sources) \in Int /\ LatestOf(new.sources) \in Int /\ NoTime \in Int
        /\ LatestOf(old.sources) >= NoTime /\ LatestOf(new.sources) >= NoTime
    BY <2>1, StampFacts
  <2>3. QED
    BY <1>4, <2>1, <2>2
<1>8. RefreshFailed(new) => RefreshFailed(Merged(old, new))
  BY DEF RefreshFailed, Merged
<1>9. RetrievedAt(Merged(old, old)) = RetrievedAt(old)
  <2>1. LatestOf(old.sources \o old.sources) = LatestOf(old.sources)
        /\ LatestOf(old.sources) \in Stamp
    BY <1>1, <1>2
  <2>2. LatestOf(<<LatestOf(old.sources)>>) = LatestOf(old.sources)
    BY <2>1, OnlyLatest
  <2>3. /\ Merged(old, old).snapshotAt = old.snapshotAt
        /\ Merged(old, old).freshnessAt = old.freshnessAt
        /\ Merged(old, old).valueAt = old.valueAt
        /\ Merged(old, old).sources = <<LatestOf(old.sources)>>
    BY <2>1 DEF Merged
  <2>4. QED
    BY <2>2, <2>3 DEF RetrievedAt
<1>10. QED
  BY <1>6, <1>7, <1>8, <1>9

-----------------------------------------------------------------------------
(* The invariant of a map query: what is shown without a failure is the last      *)
(* success, and what landed after a failure says that one has happened.           *)

\* Routes that come without a failure were those shown when the collection began, or
\* were found since; what replaces a failed collection says that it failed.
MapAttempt(r) ==
    LET a == attempt[r]
    IN  /\ Held(a.item, now)
        /\ a.phase = "asked" /\ Clean(a.item) => a.item = last[r]
        /\ a.phase \in {"answered", "settled"} /\ Clean(a.item) =>
               a.item = last[r] \/ FoundSince(a.item, last[r])
        /\ a.phase = "answered" /\ IsUsable(a.item) /\ ~a.item.routes => RefreshFailed(a.item)
        /\ a.phase = "settled" => IsUsable(a.item) /\ a.item.routes
        /\ a.phase \in {"degraded", "disputed"} /\ IsUsable(a.item) => RefreshFailed(a.item)

MapShown(r) ==
    /\ Held(shown[r], now) /\ Held(last[r], now)
    /\ Clean(shown[r]) => shown[r] = last[r]
    /\ landed[r].how = "live" => RetrievedAt(shown[r]) <= landed[r].at
    /\ landed[r].how # "live" /\ IsUsable(shown[r]) => RefreshFailed(shown[r])

MapReader(r) ==
    /\ Held(reader[r].item, now)
    /\ reader[r] # NotReading => RetrievedAt(reader[r].item) < reader[r].at

MapRecord(rec) == rec.at <= now /\ Held(rec.item, now)

Mapped ==
    domain = "map" =>
        /\ MapRecord(record) /\ MapRecord(disk)
        /\ \A r \in Runs : MapAttempt(r) /\ MapShown(r) /\ MapReader(r)

\* Time passes, and each part depends on little.
LEMMA MapKept ==
  ASSUME Typed, Typed', now <= now', NEW r \in Runs
  PROVE  /\ MapAttempt(r) /\ attempt'[r] = attempt[r] /\ last'[r] = last[r] => MapAttempt(r)'
         /\ MapShown(r) /\ <<last[r], landed[r], shown[r]>>' = <<last[r], landed[r], shown[r]>>
              => MapShown(r)'
         /\ MapReader(r) /\ reader'[r] = reader[r] => MapReader(r)'
         /\ \A rec \in Records : MapRecord(rec) => MapRecord(rec)'
<1>1. \A item \in Stored : Held(item, now) => Held(item, now')
  BY HeldLater DEF Typed
<1>2. attempt[r].item \in Stored /\ shown[r] \in Stored /\ last[r] \in Stored
      /\ reader[r].item \in Stored
  BY TypedRun DEF Typed, Attempts
<1>3. MapAttempt(r) /\ attempt'[r] = attempt[r] /\ last'[r] = last[r] => MapAttempt(r)'
  BY <1>1, <1>2 DEF MapAttempt
<1>4. MapShown(r) /\ <<last[r], landed[r], shown[r]>>' = <<last[r], landed[r], shown[r]>>
        => MapShown(r)'
  BY <1>1, <1>2 DEF MapShown
<1>5. MapReader(r) /\ reader'[r] = reader[r] => MapReader(r)'
  BY <1>1, <1>2 DEF MapReader
<1>6. \A rec \in Records : MapRecord(rec) => MapRecord(rec)'
  <2>1. \A rec \in Records : rec.at \in Int /\ rec.item \in Stored
    BY StampFacts DEF Records
  <2>2. now \in Int /\ now' \in Int
    BY TimesAssumption DEF Typed, Time
  <2>3. QED
    BY <1>1, <2>1, <2>2 DEF MapRecord
<1>7. QED
  BY <1>3, <1>4, <1>5, <1>6

\* At first nothing has been collected.
LEMMA MapInit == Init => Mapped
<1> SUFFICES ASSUME Init PROVE Mapped
  OBVIOUS
<1>1. 0 \in Time /\ NoTime <= 0 /\ now = 0
  BY TimesAssumption DEF Init, Time, NoTime
<1>2. Held(Absent, now) /\ ~IsUsable(Absent)
  BY <1>1, HeldMade DEF Absent
<1>3. \A r \in Runs : /\ attempt[r] = Idle /\ shown[r] = Absent /\ last[r] = Absent
                      /\ reader[r] = NotReading /\ landed[r] = Nothing
  BY DEF Init
<1>4. \A r \in Runs : MapAttempt(r) /\ MapReader(r)
  BY <1>2, <1>3 DEF MapAttempt, MapReader, Idle, NotReading
<1>5. \A r \in Runs : MapShown(r)
  BY <1>2, <1>3 DEF MapShown, Nothing, Clean
<1>6. MapRecord(record) /\ MapRecord(disk)
  BY <1>1, <1>2 DEF Init, MapRecord, NoRecord
<1>7. QED
  BY <1>4, <1>5, <1>6 DEF Mapped

\* An answer: the routes shown, routes found now, districts, or nothing.
LEMMA MapAnswered ==
  ASSUME Typed, domain = "map", NEW r \in Runs, MapAttempt(r), MapShown(r), Answer(r)
  PROVE  MapAttempt(r)'
<1>1. attempt[r].phase = "asked" /\ attempt[r].item \in Stored /\ attempt[r].since \in Stamp
  BY TypedRun DEF Answer, Attempts
<1>2. now \in Time /\ now \in Stamp /\ now' = now /\ last' = last
  BY DEF Answer, Typed, Stamp
<1>3. PICK item \in MapAnswers(attempt[r].item, attempt[r].since) :
        attempt' = [attempt EXCEPT ![r].phase = "answered", ![r].item = item]
  BY DEF Answer
<1>4. attempt'[r].phase = "answered" /\ attempt'[r].item = item
  BY <1>3 DEF Typed, Attempts
<1>5. Before(last[r], now)
  BY DEF MapShown, Held
<1>6. /\ Held(item, now)
      /\ Clean(item) => item = last[r] \/ FoundSince(item, last[r])
      /\ IsUsable(item) /\ ~item.routes => RefreshFailed(item)
  <2>1. CASE item = attempt[r].item /\ IsUsable(item) /\ item.routes
    BY <1>1, <2>1 DEF MapAttempt
  <2>2. CASE \E district \in {attempt[r].item, District(now)} :
               IsUsable(district) /\ item \in RoutesFrom(district)
    <3>1. PICK district \in {attempt[r].item, District(now)} :
             IsUsable(district) /\ item \in RoutesFrom(district)
      BY <2>2
    <3>2. district \in Stored /\ Held(district, now)
      BY <1>1, <1>2, MadeTypes, HeldMade DEF MapAttempt
    <3>3. /\ Held(item, now)
          /\ \/ ~item.routes /\ RefreshFailed(item)
             \/ item.routes /\ FoundSince(item, last[r])
      BY <1>2, <1>5, <3>1, <3>2, HeldRoutes
    <3>4. QED
      BY <3>3 DEF Clean
  <2>3. CASE item \in {Failure(attempt[r].since), Conflict(now)}
    BY <1>2, <2>3, HeldMade DEF Clean
  <2>4. IsUsable(District(now))
    BY <1>2, HeldMade
  <2>5. QED
    BY <1>3, <2>1, <2>2, <2>3, <2>4 DEF MapAnswers
<1>7. QED
  BY <1>2, <1>4, <1>6 DEF MapAttempt

\* Settling publishes routes, and puts something marked in the place of anything else.
LEMMA MapSettled ==
  ASSUME Typed, domain = "map", NEW r \in Runs, MapAttempt(r), MapShown(r),
         MapRecord(record), MapRecord(disk), Settle(r)
  PROVE  MapAttempt(r)' /\ MapRecord(record)' /\ MapRecord(disk)'
<1> DEFINE item == attempt[r].item
<1>1. /\ attempt[r].phase = "answered" /\ item \in Stored /\ last[r] \in Stored
      /\ record.item \in Stored /\ record.at \in Stamp
  BY TypedRun DEF Settle, Attempts, Typed, Records
<1>2. now \in Time /\ now' = now /\ last' = last /\ UNCHANGED <<shown, domain>>
  BY DEF Settle, Typed
<1>3. /\ Held(item, now) /\ (Clean(item) => item = last[r] \/ FoundSince(item, last[r]))
      /\ IsUsable(item) /\ ~item.routes => RefreshFailed(item)
  BY <1>1 DEF MapAttempt
<1>4. CASE IsUsableLive(item)
  <2>1. IsUsable(item) /\ item.routes
    BY <1>4 DEF IsUsableLive
  <2>2. RetrievedAt(item) <= now
    BY <1>1, <1>2, <1>3, HeldRetrieved DEF Held
  <2>3. Publish(r, item)
    BY <1>4 DEF Settle
  <2>4. attempt'[r] = [attempt[r] EXCEPT !.phase = "settled"] \/ attempt'[r] = Idle
    BY <2>3 DEF Publish, Typed
  <2>5. MapAttempt(r)'
    <3>1. CASE attempt'[r] = Idle
      <4>1. Held(Absent, now)
        BY <1>2, HeldMade DEF Absent
      <4>2. QED
        BY <1>2, <3>1, <4>1 DEF MapAttempt, Idle
    <3>2. CASE attempt'[r] = [attempt[r] EXCEPT !.phase = "settled"]
      <4>1. attempt'[r].phase = "settled" /\ attempt'[r].item = item
        BY <3>2, TypedRun DEF Attempts
      <4>2. QED
        BY <1>2, <1>3, <2>1, <4>1 DEF MapAttempt
    <3>3. QED
      BY <2>4, <3>1, <3>2
  <2>6. /\ record' \in {record, [run |-> r, at |-> RetrievedAt(item), item |-> item]}
        /\ disk' \in {disk, [run |-> r, at |-> RetrievedAt(item), item |-> item]}
    BY <2>3 DEF Publish
  <2>7. QED
    BY <1>2, <1>3, <2>2, <2>5, <2>6 DEF MapRecord
<1>5. CASE ~IsUsableLive(item)
  <2> DEFINE new == CASE IsUsable(last[r]) -> StaleEvidence(last[r], item)
                      [] ~IsUsable(last[r]) /\ Lends(r) -> StaleProjection(record)
                      [] OTHER -> item
             phase == IF item.status = "conflicting" THEN "disputed" ELSE "degraded"
  <2>1. attempt' = [attempt EXCEPT ![r].phase = phase, ![r].item = new]
        /\ UNCHANGED <<record, disk>>
    BY <1>5 DEF Settle
  <2>2. attempt'[r].phase \in {"degraded", "disputed"} /\ attempt'[r].item = new
    BY <2>1 DEF Typed, Attempts
  <2>3. Held(new, now) /\ (IsUsable(new) => RefreshFailed(new))
    <3>1. CASE IsUsable(last[r])
      BY <1>1, <1>2, <3>1, HeldLent DEF MapShown
    <3>2. CASE ~IsUsable(last[r]) /\ Lends(r)
      BY <1>1, <1>2, <3>2, HeldLent DEF MapRecord
    <3>3. CASE ~IsUsable(last[r]) /\ ~Lends(r)
      BY <1>3, <1>5, <3>3 DEF IsUsableLive
    <3>4. QED
      BY <3>1, <3>2, <3>3
  <2> HIDE DEF new
  <2>4. MapAttempt(r)'
    BY <1>2, <2>2, <2>3 DEF MapAttempt
  <2>5. QED
    BY <1>2, <2>1, <2>4 DEF MapRecord
<1>6. QED
  BY <1>4, <1>5

\* Evidence that is submitted.
LEMMA MapSubmitted ==
  ASSUME Typed, domain = "map", NEW r \in Runs, MapShown(r), NEW item \in Stored,
         Held(item, now), NEW how \in {"live", "conflict", "fallback"},
         how = "live" => IsUsable(item) /\ (item = last[r] \/ FoundSince(item, last[r])),
         how # "live" /\ IsUsable(item) => RefreshFailed(item),
         Submitted(r, item, how), now' = now
  PROVE  MapShown(r)'
<1>1. /\ now \in Time /\ now \in Stamp /\ last[r] \in Stored
      /\ RetrievedAt(item) \in Stamp
  BY RetrievedType, TypedRun DEF Typed, Stamp
<1>2. landed'[r].how = how /\ landed'[r].at = RetrievedAt(item)
  BY DEF Submitted, Typed
<1>3. Held(last[r], now)
  BY DEF MapShown
<1>4. RetrievedAt(item) <= RetrievedAt(item)
  <2>1. RetrievedAt(item) \in Int
    BY <1>1, StampFacts
  <2>2. QED
    BY <2>1
<1>5. CASE IsUsable(item) /\ IsUsable(last[r])
  <2> DEFINE merged == Merged(last[r], item)
  <2>1. shown'[r] = merged /\ last'[r] = merged
    BY <1>5 DEF Submitted, Typed
  <2>2. Held(merged, now)
    BY <1>1, <1>3, <1>5, MergedStamps DEF Held
  <2>3. how # "live" => RefreshFailed(merged)
    BY <1>1, <1>5, MergedStamps
  <2>4. how = "live" => RetrievedAt(merged) <= RetrievedAt(item)
    <3>1. CASE item = last[r]
      BY <1>1, <1>4, <3>1, MergedStamps
    <3>2. CASE FoundSince(item, last[r]) /\ IsUsable(item)
      <4>1. RetrievedAt(item) # NoTime
        BY <1>1, <3>2, HeldRetrieved
      <4>2. RetrievedAt(item) \in Time
        BY <1>1, <4>1 DEF Stamp
      <4>3. Before(merged, RetrievedAt(item))
        BY <1>1, <3>2, MergedStamps DEF FoundSince
      <4>4. merged \in Stored
        BY <1>1, <1>5, MergedType
      <4>5. QED
        BY <4>2, <4>3, <4>4, HeldRetrieved
    <3>3. QED
      BY <3>1, <3>2
  <2> HIDE DEF merged
  <2>5. QED
    BY <1>2, <2>1, <2>2, <2>3, <2>4 DEF MapShown
<1>6. CASE IsUsable(item) /\ ~IsUsable(last[r])
  <2>1. shown'[r] = item /\ last'[r] = item
    BY <1>6 DEF Submitted, Typed
  <2>2. QED
    BY <1>2, <1>4, <1>6, <2>1 DEF MapShown
<1>7. CASE ~IsUsable(item) /\ IsUsable(last[r])
  <2>1. shown'[r] = StaleEvidence(last[r], item) /\ last'[r] = last[r]
    BY <1>7 DEF Submitted, Typed
  <2>2. /\ Held(StaleEvidence(last[r], item), now)
        /\ FailedSince(StaleEvidence(last[r], item))
        /\ RefreshFailed(StaleEvidence(last[r], item))
    BY <1>1, <1>3, <1>7, HeldLent
  <2>3. QED
    BY <1>2, <1>3, <1>7, <2>1, <2>2 DEF MapShown, Clean
<1>8. CASE ~IsUsable(item) /\ ~IsUsable(last[r])
  <2>1. shown'[r] = item /\ last'[r] = last[r]
    BY <1>8 DEF Submitted, Typed
  <2>2. QED
    BY <1>2, <1>3, <1>8, <2>1 DEF MapShown, Clean
<1>9. QED
  BY <1>5, <1>6, <1>7, <1>8

\* A read that ends: districts found now, what it had copied, or nothing.
LEMMA MapFinished ==
  ASSUME Typed, domain = "map", NEW r \in Runs, MapShown(r), MapReader(r), FinishRead(r)
  PROVE  MapShown(r)' /\ MapReader(r)'
<1>1. /\ now \in Time /\ now' = now /\ last' = last /\ reader[r].item \in Stored
      /\ now <= now
  BY TypedRun, TimesAssumption DEF FinishRead, Typed, Time
<1>2. MapReader(r)'
  <2>1. Held(Absent, now)
    BY <1>1, HeldMade DEF Absent
  <2>2. reader'[r] = NotReading /\ NotReading' = NotReading
    BY DEF FinishRead, Typed, NotReading, Absent
  <2>3. QED
    BY <1>1, <2>1, <2>2 DEF MapReader, NotReading
<1>3. MapShown(r)'
  <2>1. CASE \E fresh \in {District(now), Conflict(now)} :
               /\ shown' = [shown EXCEPT ![r] = fresh]
               /\ landed' = [landed EXCEPT ![r] =
                     [how |-> IF IsUsable(fresh) THEN "live" ELSE "conflict", at |-> now]]
    <3>1. PICK fresh \in {District(now), Conflict(now)} :
               /\ shown' = [shown EXCEPT ![r] = fresh]
               /\ landed' = [landed EXCEPT ![r] =
                     [how |-> IF IsUsable(fresh) THEN "live" ELSE "conflict", at |-> now]]
      BY <2>1
    <3>2. /\ Held(fresh, now) /\ ~Clean(fresh)
          /\ IsUsable(fresh) => RetrievedAt(fresh) = now
      BY <1>1, HeldMade DEF Clean
    <3>3. /\ shown'[r] = fresh /\ landed'[r].at = now
          /\ landed'[r].how = IF IsUsable(fresh) THEN "live" ELSE "conflict"
      BY <3>1 DEF Typed
    <3>4. QED
      BY <1>1, <3>2, <3>3 DEF MapShown
  <2>2. CASE /\ shown' = [shown EXCEPT ![r] = WithRefreshFailure(reader[r].item, reader[r].at)]
             /\ landed' = [landed EXCEPT ![r] = [how |-> "fallback", at |-> NoTime]]
    <3> DEFINE kept == WithRefreshFailure(reader[r].item, reader[r].at)
    <3>1. Held(kept, now) /\ RefreshFailed(kept) /\ FailedSince(kept)
      <4>1. Held(reader[r].item, now) /\ RetrievedAt(reader[r].item) < reader[r].at
        BY DEF MapReader, FinishRead
      <4>2. QED
        BY <1>1, <4>1, HeldLent
    <3>2. shown'[r] = kept /\ landed'[r].how = "fallback"
      BY <2>2 DEF Typed
    <3> HIDE DEF kept
    <3>3. QED
      BY <1>1, <3>1, <3>2 DEF MapShown, Clean
  <2>3. CASE /\ shown' = [shown EXCEPT ![r] = MissingItem("no_source_found")]
             /\ landed' = [landed EXCEPT ![r] = [how |-> "fallback", at |-> NoTime]]
    <3>1. shown'[r] = MissingItem("no_source_found") /\ landed'[r].how = "fallback"
      BY <2>3 DEF Typed
    <3>2. Held(MissingItem("no_source_found"), now) /\ ~IsUsable(MissingItem("no_source_found"))
      BY <1>1, HeldMade
    <3>3. QED
      BY <1>1, <3>1, <3>2 DEF MapShown, Clean
  <2>4. QED
    BY <2>1, <2>2, <2>3 DEF FinishRead
<1>4. QED
  BY <1>2, <1>3

\* Every step of a map query keeps the invariant.
LEMMA MapNext == Typed /\ Mapped /\ [Next]_vars => Mapped'
<1> SUFFICES ASSUME Typed, Mapped, [Next]_vars, domain' = "map" PROVE Mapped'
  BY DEF Mapped
<1>1. domain = "map" /\ Typed'
  BY TypedNext DEF Next, vars, Ask, Answer, Settle, Submit, HostSubmit, StartRead, FinishRead,
     Restart, Tick
<1>2. /\ MapRecord(record) /\ MapRecord(disk) /\ record \in Records /\ disk \in Records
      /\ \A r \in Runs : MapAttempt(r) /\ MapShown(r) /\ MapReader(r)
  BY <1>1 DEF Mapped, Typed
<1>3. now' = now \/ now' = now + 1
  BY DEF Next, vars, Ask, Answer, Settle, Submit, HostSubmit, StartRead, FinishRead,
     Restart, Tick
<1>4. now <= now' /\ now \in Time
  BY <1>3, TimesAssumption DEF Typed, Time
<1>5. ASSUME NEW r \in Runs
      PROVE  /\ attempt'[r] = attempt[r] /\ last'[r] = last[r] => MapAttempt(r)'
             /\ <<last[r], landed[r], shown[r]>>' = <<last[r], landed[r], shown[r]>> => MapShown(r)'
             /\ reader'[r] = reader[r] => MapReader(r)'
  BY <1>1, <1>2, <1>4, MapKept
<1>6. now' = now /\ record' = record => MapRecord(record)'
  BY <1>2 DEF MapRecord
<1>7. now' = now /\ disk' = disk => MapRecord(disk)'
  BY <1>2 DEF MapRecord
<1>8. ASSUME NEW r \in Runs, Ask(r) PROVE Mapped'
  <2>1. UNCHANGED <<now, record, disk, shown, last, reader, landed>>
        /\ \A s \in Runs \ {r} : attempt'[s] = attempt[s]
    BY <1>8 DEF Ask, Typed
  <2>2. attempt'[r] = [phase |-> "asked", since |-> now, item |-> shown[r]]
    BY <1>8 DEF Ask, Typed
  <2>3. MapAttempt(r)'
    BY <1>2, <2>1, <2>2 DEF MapAttempt, MapShown
  <2>4. QED
    BY <1>5, <1>6, <1>7, <2>1, <2>3 DEF Mapped
<1>9. ASSUME NEW r \in Runs, Answer(r) PROVE Mapped'
  <2>1. UNCHANGED <<now, record, disk, shown, last, reader, landed>>
        /\ \A s \in Runs \ {r} : attempt'[s] = attempt[s]
    BY <1>9 DEF Answer, Typed
  <2>2. MapAttempt(r)'
    BY <1>1, <1>2, <1>9, MapAnswered
  <2>3. QED
    BY <1>5, <1>6, <1>7, <2>1, <2>2 DEF Mapped
<1>10. ASSUME NEW r \in Runs, Settle(r) PROVE Mapped'
  <2>1. UNCHANGED <<now, shown, last, reader, landed>>
    BY <1>10 DEF Settle
  <2>2. \A s \in Runs \ {r} : attempt'[s] = attempt[s]
    BY <1>10 DEF Settle, Publish, Typed
  <2>3. MapAttempt(r)' /\ MapRecord(record)' /\ MapRecord(disk)'
    BY <1>1, <1>2, <1>10, MapSettled
  <2>4. QED
    BY <1>5, <2>1, <2>2, <2>3 DEF Mapped
<1>11. ASSUME NEW r \in Runs, Submit(r) PROVE Mapped'
  <2> DEFINE a == attempt[r]
             how == CASE a.phase = "settled" /\ ~FailedSince(a.item) -> "live"
                      [] a.phase = "disputed" -> "conflict"
                      [] OTHER -> "fallback"
  <2>1. /\ a.phase \in {"settled", "degraded", "disputed"} /\ Submitted(r, a.item, how)
        /\ UNCHANGED <<now, record, disk, reader>>
        /\ attempt'[r] = Idle /\ \A s \in Runs \ {r} : attempt'[s] = attempt[s]
    BY <1>11 DEF Submit, Typed
  <2>2. \A s \in Runs \ {r} : <<last[s], landed[s], shown[s]>>' = <<last[s], landed[s], shown[s]>>
    BY <2>1 DEF Submitted, Typed
  <2>3. how = "live" => a.phase = "settled" /\ ~FailedSince(a.item)
    OBVIOUS
  <2>4. how = "live" => IsUsable(a.item) /\ (a.item = last[r] \/ FoundSince(a.item, last[r]))
    BY <1>2, <2>3 DEF MapAttempt, Clean
  <2>5. how # "live" /\ IsUsable(a.item) => RefreshFailed(a.item)
    BY <1>2, <2>1 DEF MapAttempt, FailedSince
  <2>6. how \in {"live", "conflict", "fallback"} /\ Held(a.item, now) /\ a.item \in Stored
    BY <1>2, TypedRun DEF MapAttempt
  <2> HIDE DEF how
  <2>7. MapShown(r)'
    BY <1>1, <1>2, <2>1, <2>4, <2>5, <2>6, MapSubmitted
  <2>8. MapAttempt(r)'
    <3>1. Held(Absent, now)
      BY <1>4, HeldMade DEF Absent
    <3>2. QED
      BY <2>1, <3>1 DEF MapAttempt, Idle
  <2>9. QED
    BY <1>5, <1>6, <1>7, <2>1, <2>2, <2>7, <2>8 DEF Mapped
<1>12. ASSUME NEW r \in Runs, HostSubmit(r) PROVE Mapped'
  <2> DEFINE item == MissingItem("no_source_found")
  <2>1. /\ Submitted(r, item, "fallback") /\ UNCHANGED <<now, record, disk, attempt, reader>>
    BY <1>12 DEF HostSubmit
  <2>2. \A s \in Runs \ {r} : <<last[s], landed[s], shown[s]>>' = <<last[s], landed[s], shown[s]>>
    BY <2>1 DEF Submitted, Typed
  <2>3. Held(item, now) /\ ~IsUsable(item) /\ item \in Stored
    BY <1>4, HeldMade, MadeTypes, StampFacts
  <2>4. last'[r] = last[r]
    BY <2>1, <2>3 DEF Submitted
  <2> HIDE DEF item
  <2>5. MapShown(r)'
    BY <1>1, <1>2, <2>1, <2>3, MapSubmitted
  <2>6. QED
    BY <1>5, <1>6, <1>7, <2>1, <2>2, <2>4, <2>5 DEF Mapped
<1>13. ASSUME NEW r \in Runs, StartRead(r) PROVE Mapped'
  <2>1. UNCHANGED <<now, record, disk, attempt, shown, last, landed>>
        /\ \A s \in Runs \ {r} : reader'[s] = reader[s]
    BY <1>13 DEF StartRead, Typed
  <2>2. reader'[r].at = now /\ reader'[r].item = shown[r] /\ RetrievedAt(shown[r]) < now
    BY <1>13 DEF StartRead, LaterThan, Typed
  <2>3. MapReader(r)'
    BY <1>2, <2>1, <2>2 DEF MapReader, MapShown
  <2>4. QED
    BY <1>5, <1>6, <1>7, <2>1, <2>3 DEF Mapped
<1>14. ASSUME NEW r \in Runs, FinishRead(r) PROVE Mapped'
  <2>1. UNCHANGED <<now, record, disk, attempt, last>>
        /\ \A s \in Runs \ {r} : <<landed[s], shown[s], reader[s]>>' = <<landed[s], shown[s], reader[s]>>
    BY <1>14 DEF FinishRead, Typed
  <2>2. MapShown(r)' /\ MapReader(r)'
    BY <1>1, <1>2, <1>14, MapFinished
  <2>3. QED
    BY <1>5, <1>6, <1>7, <2>1, <2>2 DEF Mapped
<1>15. CASE Restart
  <2>1. /\ \A r \in Runs : attempt'[r] = Idle /\ reader'[r] = NotReading
        /\ record' = disk /\ UNCHANGED <<now, disk, shown, last, landed>>
    BY <1>15 DEF Restart
  <2>2. Held(Absent, now)
    BY <1>4, HeldMade DEF Absent
  <2>3. NotReading' = NotReading
    BY DEF NotReading, Absent
  <2>4. \A r \in Runs : MapAttempt(r)' /\ MapReader(r)'
    BY <2>1, <2>2, <2>3 DEF MapAttempt, MapReader, Idle, NotReading
  <2>5. MapRecord(record)' /\ MapRecord(disk)'
    BY <1>2, <2>1 DEF MapRecord
  <2>6. QED
    BY <1>5, <2>1, <2>4, <2>5 DEF Mapped
<1>16. CASE Tick \/ UNCHANGED vars
  <2>1. UNCHANGED <<record, disk, attempt, shown, last, landed, reader>>
    BY <1>16 DEF Tick, vars
  <2>2. MapRecord(record)' /\ MapRecord(disk)'
    <3>1. \A rec \in Records : rec.at \in Int /\ rec.item \in Stored
      BY StampFacts DEF Records
    <3>2. \A item \in Stored : Held(item, now) => Held(item, now')
      BY <1>1, <1>4, HeldLater DEF Typed
    <3>3. now \in Int /\ now' \in Int
      BY <1>3, TimesAssumption DEF Typed, Time
    <3>4. QED
      BY <1>2, <1>4, <2>1, <3>1, <3>2, <3>3 DEF MapRecord
  <2>3. QED
    BY <1>5, <2>1, <2>2 DEF Mapped
<1>17. QED
  BY <1>8, <1>9, <1>10, <1>11, <1>12, <1>13, <1>14, <1>15, <1>16 DEF Next

\* Map evidence that is shown as fresh landed live, not longer ago than it may be, or it
\* carries the time of an older failed read.
LEMMA MapFresh == Typed /\ Mapped /\ domain = "map" => FreshMeansLive
<1>1. SUFFICES ASSUME Typed, Mapped, domain = "map", NEW r \in Runs, IsFresh(Verdict(r, now))
               PROVE  /\ landed[r].how = "live" \/ shown[r].failure.at # NoTime
                      /\ landed[r].how = "live" =>
                            now - landed[r].at
                              <= ReadPolicies[DataTypeFor(domain, shown[r])].tolerance
  BY DEF FreshMeansLive
<1> DEFINE tolerance == ReadPolicies[DataTypeFor(domain, shown[r])].tolerance
<1>2. MapShown(r) /\ shown[r] \in Stored /\ now \in Time
  BY <1>1, TypedRun DEF Mapped, Typed
<1>3. IsUsable(shown[r]) => RetrievedAt(shown[r]) # NoTime
  BY <1>2, HeldRetrieved DEF MapShown
<1>4. IsUsable(shown[r]) /\ ~FailedSince(shown[r]) /\ now - RetrievedAt(shown[r]) <= tolerance
  BY <1>1, <1>2, <1>3, FreshTells DEF Verdict
<1>5. landed[r].how = "live" \/ shown[r].failure.at # NoTime
  BY <1>2, <1>4 DEF MapShown, FailedSince
<1>6. landed[r].how = "live" => now - landed[r].at <= tolerance
  <2>1. landed[r].at \in Int /\ RetrievedAt(shown[r]) \in Int /\ now \in Int
    BY <1>1, <1>2, RetrievedType, TypedRun, StampFacts DEF Landings, Stamp
  <2>2. tolerance \in Int
    BY <1>1, TimesAssumption DEF ReadPolicies, PoliciesOf, DataTypeFor
  <2> HIDE DEF tolerance
  <2>3. QED
    BY <1>2, <1>4, <2>1, <2>2 DEF MapShown
<1>7. QED
  BY <1>5, <1>6

\* Evidence is shown as fresh only if a live answer landed last, and not longer ago than
\* it may be: FreshMeansLive, with its exception for map evidence.
THEOREM FreshIsLive == Spec => []FreshMeansLive
<1>1. Typed /\ Rail => (domain = "railway" => FreshMeansLive)
  <2>1. SUFFICES ASSUME Typed, Rail, domain = "railway", NEW r \in Runs,
                        IsFresh(Verdict(r, now))
                 PROVE  /\ landed[r].how = "live"
                        /\ now - landed[r].at
                             <= ReadPolicies[DataTypeFor(domain, shown[r])].tolerance
    BY DEF FreshMeansLive
  <2>2. now \in Int
    BY <2>1, TimesAssumption DEF Typed, Time
  <2>3. landed[r].how = "live"
    <3>1. SUFFICES ASSUME Spent(shown[r]) PROVE FALSE
      BY <2>1 DEF Rail, RailShown
    <3>2. QED
      BY <2>1, <3>1, FreshTells, DatedAt DEF Spent, Verdict, Typed, IsUsable
  <2>4. landed[r].at \in Time /\ landed[r].at <= now /\ shown[r] = Live(landed[r].at)
    BY <2>1, <2>3 DEF Rail, RailShown, Past
  <2>5. now - landed[r].at <= Tolerance
    BY <2>1, <2>2, <2>4, RailVerdict DEF Verdict
  <2>6. ReadPolicies[DataTypeFor(domain, shown[r])].tolerance = Tolerance
    BY <2>1 DEF ReadPolicies, PoliciesOf, DataTypeFor
  <2>7. QED
    BY <2>3, <2>5, <2>6
<1>2. Typed => domain \in {"railway", "map"}
  BY DomainsAssumption DEF Typed
<1>3. Typed /\ Rail /\ Mapped => FreshMeansLive
  BY <1>1, <1>2, MapFresh
<1>4. QED
  BY <1>3, TypedInit, TypedNext, RailInit, RailNext, MapInit, MapNext, PTL DEF Spec

=============================================================================
