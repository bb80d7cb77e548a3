----------------------------- MODULE EvidenceBroker -----------------------------
(* The life of the evidence for one query: runs that collect it, the broker that  *)
(* lends what one run collected to another whose collection failed, the last      *)
(* success a run falls back on itself, and reads of the web deployment that       *)
(* collect stale evidence again.  Queries do not interact, so there is one.       *)
EXTENDS EvidenceKernel

CONSTANTS
    Runs,       \* runs that ask the same query
    Readers,    \* the runs a page shows while they go on
    Domains,    \* the evidence domains the query may be of
    Tolerance,  \* the age up to which evidence is fresh, and the broker lends it
    MaxAsks,    \* bound on the collections of one run
    Throttle,   \* how long a failed re-collection keeps reads from trying again
    MaxTime,    \* bound on the clock
    MaxFaults   \* bound on crashes and failing writes of the cache file

ASSUME RunsAssumption == Readers \subseteq Runs
ASSUME DomainsAssumption == Domains \subseteq {"railway", "map"}
ASSUME TimesAssumption == /\ Tolerance \in Nat /\ Throttle \in Nat
                          /\ MaxAsks \in Nat
                          /\ MaxTime \in Nat /\ MaxFaults \in Nat

VARIABLES
    domain,     \* the domain of the query
    now,
    record,     \* the broker's record in memory
    disk,       \* the record in records.json
    asks,       \* how many collections each run has begun
    attempt,    \* the collection each run has under way
    shown,      \* state.evidence[domain] of each run
    last,       \* state.last_sourced_evidence[domain]
    reader,     \* a read of the run that is collecting again
    landed,     \* history: how the evidence shown came about last
    failedRead, \* history: when a read last failed to collect, if nothing landed since
    faults
vars == <<domain, now, record, disk, asks, attempt, shown, last, reader, landed,
          failedRead, faults>>

-----------------------------------------------------------------------------
(* Values.                                                                      *)

Time == 0 .. MaxTime
Stamp == Time \union {NoTime}

ReadPolicies == PoliciesOf(Tolerance, MaxTime)

Absent == MissingItem("no_source_found")
NoRecord == [run |-> "nobody", at |-> NoTime, item |-> Absent]
Idle == [phase |-> "idle", since |-> NoTime, item |-> Absent]
NotReading == [at |-> NoTime, item |-> Absent]
Nothing == [how |-> "nothing", at |-> NoTime]

\* What a collection that worked finds.  The map query is that of the routes between
\* the places the run visits; a district lookup alone finds none.
Live(at) ==
    IF domain = "railway"
    THEN [Absent EXCEPT !.status = "sourced", !.valued = TRUE, !.snapshotAt = at,
                        !.valueAt = at, !.sources = <<at>>, !.reason = NoReason]
    ELSE [Absent EXCEPT !.status = "estimated", !.valued = TRUE,
                        !.sources = <<at>>, !.routes = TRUE, !.reason = NoReason]
District(at) ==
    [Absent EXCEPT !.status = "sourced", !.valued = TRUE, !.valueAt = at,
                   !.sources = <<at>>, !.reason = NoReason]

\* A failed railway collection says when it began.
Failure(since) ==
    [MissingItem("collector_error") EXCEPT
        !.failure.at = IF domain = "railway" THEN since ELSE NoTime]

\* Several districts have exactly the name that was asked for.
Conflict(at) ==
    [Absent EXCEPT !.status = "conflicting", !.valued = TRUE, !.valueAt = at,
                   !.sources = <<at>>, !.details = 1, !.reason = NoReason]

\* _map_handler: routes that are there are not looked for again; otherwise they are
\* looked for in the district at hand, or in one that is looked up now.
RoutesFrom(district) ==
    LET estimated == [Absent EXCEPT !.status = "estimated", !.valued = TRUE,
                                    !.reason = NoReason, !.sources = district.sources]
    IN  {[estimated EXCEPT !.routes = TRUE, !.sources = <<now>>],
         [estimated EXCEPT !.routeFailure = TRUE]}
MapAnswers(existing, since) ==
    CASE IsUsable(existing) /\ existing.routes -> {existing}
      [] IsUsable(existing) /\ ~existing.routes -> RoutesFrom(existing)
      [] OTHER -> RoutesFrom(District(now)) \union {Failure(since), Conflict(now)}

\* _is_usable_action_evidence: districts whose routes could not be found do not do.
IsUsableLive(item) == IsUsable(item) /\ (domain = "map" => item.routes)

-----------------------------------------------------------------------------
(* What is shown when a collection has failed, and how a new one is merged.      *)

\* Mutant: the failed collection leaves no trace.
StaleProjectionSilent(rec) == [rec.item EXCEPT !.valueAt = rec.at]

\* EvidenceBroker._stale_projection: the support of the record is kept.
StaleProjection(rec) ==
    [rec.item EXCEPT !.valueAt = rec.at,
                     !.snapshotAt = IF domain = "railway" THEN rec.at ELSE @,
                     !.failure = FailedAt(NoTime)]

\* _stale_railway_evidence and _stale_generic_evidence: the status becomes SOURCED.
StaleEvidence(previous, failed) ==
    IF domain = "railway"
    THEN [previous EXCEPT !.status = "sourced", !.failure = FailedAt(failed.failure.at)]
    ELSE [previous EXCEPT !.status = "sourced", !.failure = FailedAt(NoTime),
                          !.freshnessAt = LatestOf(previous.sources)]

\* _merge_sourced_evidence and _merge_values: keys of the previous value that the
\* current one does not have are kept.  Of the sources only the latest stamp matters.
Merged(previous, current) ==
    LET kept(old, new) == IF new # NoTime THEN new ELSE old
    IN  [status |-> AggregateSupport({previous.status, current.status}, FALSE),
         valued |-> TRUE,
         snapshotAt |-> kept(previous.snapshotAt, current.snapshotAt),
         freshnessAt |-> kept(previous.freshnessAt, current.freshnessAt),
         valueAt |-> kept(previous.valueAt, current.valueAt),
         sources |-> <<LatestOf(previous.sources \o current.sources)>>,
         failure |-> [present |-> previous.failure.present \/ current.failure.present,
                      at |-> kept(previous.failure.at, current.failure.at)],
         routes |-> previous.routes \/ current.routes,
         routeFailure |-> /\ previous.routeFailure \/ current.routeFailure
                          /\ current.routes => current.routeFailure,
         details |-> 0, reason |-> NoReason]

-----------------------------------------------------------------------------
(* The broker.                                                                  *)

\* stale_after_failure: what the broker lends run r now.
Lends(r) ==
    /\ record # NoRecord /\ record.run # r
    /\ now - record.at \in 0 .. Tolerance

\* Mutant: the record published last stays.
PublishAlways(r, item) ==
    /\ record' = [run |-> r, at |-> RetrievedAt(item), item |-> item] /\ disk' = record'
    /\ attempt' = [attempt EXCEPT ![r].phase = "settled"] /\ UNCHANGED faults

\* publish, under the broker's lock: the newest collection stays.
Publish(r, item) ==
    LET at == RetrievedAt(item)
    IN  IF record = NoRecord \/ record.at <= at
        THEN \E persisted \in {TRUE} \union (IF faults < MaxFaults THEN {FALSE} ELSE {}) :
                /\ record' = [run |-> r, at |-> at, item |-> item]
                /\ disk' = IF persisted THEN record' ELSE disk
                /\ faults' = IF persisted THEN faults ELSE faults + 1
                \* a failing write is an OSError: the collection is lost with it
                /\ attempt' = [attempt EXCEPT ![r] =
                                  IF persisted THEN [@ EXCEPT !.phase = "settled"] ELSE Idle]
        ELSE /\ attempt' = [attempt EXCEPT ![r].phase = "settled"]
             /\ UNCHANGED <<record, disk, faults>>

-----------------------------------------------------------------------------
(* Collections (execute_registered_action of an evidence action).               *)

\* Stamps have seconds: no two collections of one run fall into the same one.
LaterThan(item) == RetrievedAt(item) < now

Ask(r) ==
    /\ attempt[r].phase = "idle" /\ asks[r] < MaxAsks
    /\ LaterThan(last[r])
    /\ asks' = [asks EXCEPT ![r] = @ + 1]
    /\ attempt' = [attempt EXCEPT ![r] =
                      [phase |-> "asked", since |-> now, item |-> shown[r]]]
    /\ UNCHANGED <<domain, now, record, disk, shown, last, reader, landed, failedRead, faults>>

Answer(r) ==
    /\ attempt[r].phase = "asked"
    /\ \E item \in IF domain = "map" THEN MapAnswers(attempt[r].item, attempt[r].since)
                   ELSE {Live(now), Failure(attempt[r].since)} :
          attempt' = [attempt EXCEPT ![r].phase = "answered", ![r].item = item]
    /\ UNCHANGED <<domain, now, record, disk, asks, shown, last, reader, landed, failedRead, faults>>

\* Before the run lock is taken: publish what is usable, replace what is not by the
\* run's own last success, or else by what the broker lends.
Settle(r) ==
    LET item == attempt[r].item
    IN  /\ attempt[r].phase = "answered"
        /\ IF IsUsableLive(item) THEN Publish(r, item)
           ELSE /\ attempt' = [attempt EXCEPT
                        ![r].phase = IF item.status = "conflicting" THEN "disputed"
                                     ELSE "degraded",
                        ![r].item =
                        CASE IsUsable(last[r]) -> StaleEvidence(last[r], item)
                          [] ~IsUsable(last[r]) /\ Lends(r) -> StaleProjection(record)
                          [] OTHER -> item]
                /\ UNCHANGED <<record, disk, faults>>
        /\ UNCHANGED <<domain, now, asks, shown, last, reader, landed, failedRead>>

\* Mutant: railway evidence is merged like the rest.
SubmittedMerged(r, item, how) ==
    LET merged == IF IsUsable(last[r]) /\ IsUsable(item) THEN Merged(last[r], item) ELSE item
    IN  /\ shown' = [shown EXCEPT ![r] = merged] /\ last' = [last EXCEPT ![r] = merged]
        /\ landed' = [landed EXCEPT ![r] = [how |-> how, at |-> RetrievedAt(item)]]
        /\ failedRead' = [failedRead EXCEPT ![r] = NoTime]

\* submit_evidence, under the run lock, of what the run collected or its host hands in.
Submitted(r, item, how) ==
    LET merged == IF domain = "map" /\ IsUsable(last[r]) THEN Merged(last[r], item) ELSE item
    IN  /\ IF IsUsable(item)
           THEN shown' = [shown EXCEPT ![r] = merged] /\ last' = [last EXCEPT ![r] = merged]
           ELSE /\ shown' = [shown EXCEPT ![r] =
                        IF IsUsable(last[r]) THEN StaleEvidence(last[r], item) ELSE item]
                /\ UNCHANGED last
        /\ landed' = [landed EXCEPT ![r] = [how |-> how, at |-> RetrievedAt(item)]]
        /\ failedRead' = [failedRead EXCEPT ![r] = NoTime]

\* A refresh has failed since the item was collected.
FailedSince(item) ==
    /\ RefreshFailed(item)
    /\ item.failure.at = NoTime \/ item.failure.at > RetrievedAt(item)

Submit(r) ==
    LET a == attempt[r]
    IN  /\ a.phase \in {"settled", "degraded", "disputed"}
        /\ Submitted(r, a.item,
                     CASE a.phase = "settled" /\ ~FailedSince(a.item) -> "live"
                       [] a.phase = "disputed" -> "conflict"
                       [] OTHER -> "fallback")
        /\ attempt' = [attempt EXCEPT ![r] = Idle]
        /\ UNCHANGED <<domain, now, record, disk, asks, reader, faults>>

\* A host that looked and found nothing says so.
HostSubmit(r) ==
    /\ asks[r] < MaxAsks /\ asks' = [asks EXCEPT ![r] = @ + 1]
    /\ Submitted(r, MissingItem("no_source_found"), "fallback")
    /\ UNCHANGED <<domain, now, record, disk, attempt, reader, faults>>

-----------------------------------------------------------------------------
(* Reads that collect again (resolve_stale_evidence in TripQueryService.trip).   *)

StartRead(r) ==
    /\ r \in Readers /\ reader[r] = NotReading
    /\ IsUsable(shown[r]) /\ LaterThan(shown[r])
    /\ NeedsRefetch(ReadPolicies, domain, shown[r], now, Throttle)
    /\ reader' = [reader EXCEPT ![r] = [at |-> now, item |-> shown[r]]]
    /\ UNCHANGED <<domain, now, record, disk, asks, attempt, shown, last, landed, failedRead, faults>>

\* record_refetched_evidence: whatever was collected replaces what the run shows,
\* but not its last success; a failure puts back what the read had copied.
FinishRead(r) ==
    /\ reader[r] # NotReading
    /\ \/ \E fresh \in IF domain = "map" THEN {District(now), Conflict(now)} ELSE {Live(now)} :
          /\ shown' = [shown EXCEPT ![r] = fresh]
          /\ landed' = [landed EXCEPT ![r] =
                [how |-> IF IsUsable(fresh) THEN "live" ELSE "conflict", at |-> now]]
          /\ failedRead' = [failedRead EXCEPT ![r] = NoTime]
       \/ /\ shown' = [shown EXCEPT ![r] = WithRefreshFailure(reader[r].item, reader[r].at)]
          /\ landed' = [landed EXCEPT ![r] = [how |-> "fallback", at |-> NoTime]]
          /\ failedRead' = [failedRead EXCEPT ![r] = reader[r].at]
       \/ /\ shown' = [shown EXCEPT ![r] = MissingItem("no_source_found")]
          /\ landed' = [landed EXCEPT ![r] = [how |-> "fallback", at |-> NoTime]]
          /\ failedRead' = [failedRead EXCEPT ![r] = NoTime]
    /\ reader' = [reader EXCEPT ![r] = NotReading]
    /\ UNCHANGED <<domain, now, record, disk, asks, attempt, last, faults>>

-----------------------------------------------------------------------------
(* The process ends and starts again: _load reads the file, threads are gone.    *)

Restart ==
    /\ faults < MaxFaults /\ faults' = faults + 1
    /\ record' = disk
    /\ attempt' = [r \in Runs |-> Idle]
    /\ reader' = [r \in Runs |-> NotReading]
    /\ UNCHANGED <<domain, now, disk, asks, shown, last, landed, failedRead>>

Tick ==
    /\ now < MaxTime /\ now' = now + 1
    /\ UNCHANGED <<domain, record, disk, asks, attempt, shown, last, reader, landed,
                   failedRead, faults>>

Init ==
    /\ domain \in Domains /\ now = 0 /\ faults = 0
    /\ record = NoRecord /\ disk = NoRecord
    /\ asks = [r \in Runs |-> 0]
    /\ attempt = [r \in Runs |-> Idle]
    /\ shown = [r \in Runs |-> Absent]
    /\ last = [r \in Runs |-> Absent]
    /\ reader = [r \in Runs |-> NotReading]
    /\ landed = [r \in Runs |-> Nothing]
    /\ failedRead = [r \in Runs |-> NoTime]

Next ==
    \/ \E r \in Runs : Ask(r) \/ Answer(r) \/ Settle(r) \/ Submit(r) \/ HostSubmit(r)
    \/ \E r \in Runs : StartRead(r) \/ FinishRead(r)
    \/ Restart
    \/ Tick

Spec == Init /\ [][Next]_vars

-----------------------------------------------------------------------------
(* Properties.                                                                  *)

Item ==
    [status : {"sourced", "estimated", "missing", "conflicting"}, valued : BOOLEAN, snapshotAt : Stamp,
     freshnessAt : Stamp, valueAt : Stamp, sources : Seq(Stamp),
     failure : [present : BOOLEAN, at : Stamp], routes : BOOLEAN,
     routeFailure : BOOLEAN, details : {0, 1}, reason : {NoReason, "collector_error", "no_source_found"}]

\* Types of the variables: state of the runs, the broker, the clock and the reads.
TypeOK ==
    /\ domain \in Domains /\ now \in Time /\ faults \in 0 .. MaxFaults
    /\ {record, disk} \subseteq [run : Runs \union {"nobody"}, at : Stamp, item : Item]
    /\ asks \in [Runs -> 0 .. MaxAsks]
    /\ attempt \in [Runs -> [phase : {"idle", "asked", "answered", "settled", "degraded", "disputed"},
                             since : Stamp, item : Item]]
    /\ shown \in [Runs -> Item] /\ last \in [Runs -> Item]
    /\ reader \in [Runs -> [at : Stamp, item : Item]]
    /\ landed \in [Runs -> [how : {"nothing", "live", "conflict", "fallback"}, at : Stamp]]
    /\ failedRead \in [Runs -> Stamp]

Verdict(r, at) == ProjectDomain(ReadPolicies, domain, shown[r], at)
IsFresh(verdict) == TokenFreshness(verdict.token) = "fresh"

\* Evidence is shown as fresh only if a live answer landed last, not longer ago than
\* it may be: neither what the broker lends (which is within its life, and as young as
\* fresh evidence), nor a run's own last success, nor what a failed read puts back is
\* passed off as fresh.  The one exception is map evidence that carries the time of an
\* older failed read, which merging keeps in the place of a later failure without one.
FreshMeansLive ==
    \A r \in Runs : IsFresh(Verdict(r, now)) =>
        /\ landed[r].how = "live" \/ (domain = "map" /\ shown[r].failure.at # NoTime)
        /\ landed[r].how = "live" =>
              now - landed[r].at <= ReadPolicies[DataTypeFor(domain, shown[r])].tolerance

\* Railway evidence that was collected live, whatever failed before, is verified until
\* its time is up: no trace of an earlier failure stays with it.
LiveRailwayIsVerified ==
    \A r \in Runs :
        domain = "railway" /\ landed[r].how = "live" /\ now - landed[r].at <= Tolerance
            => Verdict(r, now).token = "verified"

\* The broker's record is only ever replaced by one that is at least as new, in
\* whatever order collections are published; only a restart goes back, to the file.
RecordOnlyImproves ==
    [][record' # record => record'.at >= record.at \/ record' = disk]_vars

\* After a read has failed to collect, no read tries again within the throttle window,
\* unless something else has landed in between.
FailedReadsAreSpaced ==
    [][\A r \in Runs : reader[r] = NotReading /\ reader'[r] # NotReading
            => failedRead[r] = NoTime \/ now - failedRead[r] >= Throttle]_vars

\* Whatever evidence a read meets, the kernel's own check of the verdict passes: a
\* page never fails on it, and only verified evidence comes without a next action.
ReadsAreValid ==
    \A r \in Runs : ValidNextAction(Verdict(r, now).action, Verdict(r, now).token)

-----------------------------------------------------------------------------
(* What documents of the code say and its steps do not keep.                    *)

\* Route durations, which the provider estimates, are never shown as sourced.
SupportNeverRaised == \A r \in Runs : shown[r].routes => shown[r].status # "sourced"

\* A refresh that failed is told whatever the run carried before: what is shown after
\* it is not fresh.
FailureIsTold ==
    \A r \in Runs : IsFresh(Verdict(r, now)) => landed[r].how = "live"

\* When the sources disagreed in the last answer that landed, the run says so.
ConflictIsShown ==
    \A r \in Runs : landed[r].how = "conflict" => Verdict(r, now).token = "conflicting"
=============================================================================
