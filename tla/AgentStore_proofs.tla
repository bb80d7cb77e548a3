-------------------------- MODULE AgentStore_proofs --------------------------
(* AgentStore for any runs, installers, numbers of events, plans and faults: types,  *)
(* that a crash takes back nothing that was answered or told, that streams are       *)
(* whole, that plan versions stay while one thread at a time installs, and that a    *)
(* run is ahead of its events by no more transitions than there were crashes.        *)
EXTENDS AgentStore, TLAPS, SequenceTheorems, WellFoundedInduction

\* Which file has been written: the record of a call's run on disk is the one last
\* answered until run.json is written, and only the newest event can be missing.
FilesOK ==
    up = "up" => \A r \in RunIds :
        /\ disk.log[r] \subseteq EventsOf(log, r)
        /\ op.run # r =>
            /\ disk.run[r] = run[r] /\ answered[r] = run[r]
            /\ r \in disk.session <=> run[r] # NoRun
            /\ EventsOf(log, r) \subseteq disk.log[r]
        /\ op.run = r =>
            /\ run[r] # NoRun
            /\ op.writes = <<"session", "run", "log">> =>
                disk.run[r] = answered[r] /\ (r \in disk.session <=> answered[r] # NoRun)
            /\ op.writes = <<"run", "log">> => disk.run[r] = answered[r] /\ r \in disk.session
            /\ op.writes = <<"log">> => disk.run[r] = run[r] /\ r \in disk.session
            /\ \A e \in EventsOf(log, r) \ disk.log[r] : e.at = sequence

\* What a crash leaves: only a run that was never answered can be torn.
CrashedOK ==
    up # "up" =>
        /\ op = NoOp
        /\ \A r \in RunIds : disk.run[r] # NoRun => r \in disk.session
        /\ \A r \in RunIds : r \in disk.session /\ disk.run[r] = NoRun => answered[r] = NoRun
        /\ up = "refused" => \E r \in RunIds : ~ Loadable(r)

\* The events on disk keep their numbers to themselves, whichever run they are of.
NumbersOK ==
    \A r, s \in RunIds : \A e \in disk.log[r], x \in disk.log[s] :
        e.run = r /\ (e.at = x.at => e = x)

\* A client has what is on disk up to its cursor, and a batch continues from there.
StreamOK ==
    \A r \in Watched :
        /\ seen[r] = {e \in disk.log[r] : e.at <= stream[r].cursor}
        /\ stream[r].cursor # 0 => \E e \in disk.log[r] : e.at = stream[r].cursor
        /\ stream[r].waited => up = "up" /\ stream[r].batch \subseteq disk.log[r]
        /\ stream[r].waited => \A e \in stream[r].batch :
            /\ e.at > stream[r].cursor
            /\ \A x \in disk.log[r] :
                x.at > stream[r].cursor /\ x.at <= e.at => x \in stream[r].batch

\* A plan that is being installed has a number of its own if nobody else installs.
InstallOK ==
    \A i \in Installers : install[i].phase # "idle" =>
        /\ install[i].run \in RunIds /\ install[i].plan \in 1 .. MaxPlans
        /\ (install[i].phase = "counted" /\ \A j \in Installers : j = i)
            => install[i].number = Len(plans[install[i].run]) + 1

IInv == TypeOK /\ FilesOK /\ CrashedOK /\ NumbersOK /\ StreamOK /\ InstallOK

-----------------------------------------------------------------------------
(* Numbers.                                                                       *)

\* A bounded set of numbers has a largest one.
LEMMA MaxOfBounded ==
  ASSUME NEW S, NEW n \in Nat, S # {}, \A x \in S : x \in 0 .. n
  PROVE  Max(S) \in S /\ \A y \in S : y <= Max(S)
<1> DEFINE T == {n - x : x \in S}
<1>1. T \subseteq Nat /\ T # {}
  OBVIOUS
<1>2. PICK t \in T : \A y \in T : ~ (<<y, t>> \in OpToRel(<, Nat))
  BY <1>1, WFMin, NatLessThanWellFounded
<1>3. \A y \in T : ~ (y < t)
  BY <1>1, <1>2 DEF OpToRel
<1>4. PICK m \in S : t = n - m
  BY <1>2
<1>5. \A y \in S : m >= y
  <2> TAKE y \in S
  <2>1. n - y \in T /\ ~ (n - y < n - m)
    BY <1>3, <1>4
  <2> HIDE DEF T
  <2> QED
    BY <2>1, <1>4
<1> QED
  BY <1>4, <1>5 DEF Max

\* LastNumber is 0 or the number of one of the events, and none is above it.
LEMMA LastNumberIsLast ==
  ASSUME NEW events, NEW n \in Nat, \A e \in events : e.at \in 0 .. n
  PROVE  /\ LastNumber(events) \in 0 .. n
         /\ LastNumber(events) = 0 \/ \E e \in events : e.at = LastNumber(events)
         /\ \A e \in events : e.at <= LastNumber(events)
<1> DEFINE S == {0} \union {e.at : e \in events}
<1>1. S # {} /\ \A x \in S : x \in 0 .. n
  OBVIOUS
<1>2. Max(S) \in S /\ \A y \in S : y <= Max(S)
  <2> HIDE DEF S
  <2> QED
    BY <1>1, MaxOfBounded
<1>3. LastNumber(events) = Max(S)
  BY DEF LastNumber
<1> HIDE DEF LastNumber
<1> QED
  BY <1>1, <1>2, <1>3

-----------------------------------------------------------------------------
(* Store calls.                                                                   *)

\* The records the calls make of a record.
LEMMA RecordTypes ==
  ASSUME NEW x \in Records
  PROVE  /\ \A s \in Statuses : [x EXCEPT !.status = s] \in Records
         /\ \A i \in {"discovery", "direct"} :
              [Revised(x, i) EXCEPT !.retryable = FALSE] \in Records
         /\ Started(x) \in Records /\ Resumed(x) \in Records
         /\ [Failed(x) EXCEPT !.retryable = FALSE] \in Records
         /\ \A y \in {Comparison, PlanFor("direct")} : Completed(x, y) \in Records
         /\ \A again \in BOOLEAN :
              [Blocked(x, Unfinished) EXCEPT !.retryable = again] \in Records
         /\ Recorded(x, Unfinished) \in Records
<1>1. Unfinished \in Results /\ Comparison \in Results /\ PlanFor("direct") \in Results
  BY DEF Results, Unfinished, Comparison, PlanFor
<1>2. \A s \in Statuses : [x EXCEPT !.status = s] \in Records
  BY DEF Records
<1>3. {"RUNNING", "CONFIRMED", "FAILED", "COMPLETED", "BLOCKED"} \subseteq Statuses
  BY DEF Statuses
<1> QED
  BY <1>1, <1>2, <1>3 DEF Records, Revised, Started, Resumed, Failed, Completed, Blocked,
     Recorded

\* A record is not the absence of one.
LEMMA RecordIsThere == NoRun \notin Records
  BY DEF NoRun, Records, Statuses

\* The lock is free: the files hold what the memory does.
LEMMA QuietFiles ==
  ASSUME IInv, LockFree, NEW r \in RunIds
  PROVE  /\ disk.run[r] = run[r] /\ answered[r] = run[r]
         /\ r \in disk.session <=> run[r] # NoRun
         /\ disk.log[r] = EventsOf(log, r)
<1>1. op.run # r
  BY NobodyAssumption DEF LockFree, NoOp
<1> QED
  BY <1>1 DEF IInv, FilesOK, LockFree

\* A call that appends an event keeps the invariant.
LEMMA AppendStep ==
  ASSUME IInv, LockFree, NEW r \in RunIds, NEW record \in Records, NEW type \in EventTypes,
         Append1(r, record, type)
  PROVE  IInv'
<1> DEFINE new == [at |-> sequence + 1, run |-> r, type |-> type]
<1> USE DEF Append1, memory, planning, reading
<1>1. TypeOK'
  <2>1. new \in Events /\ sequence + 1 \in 0 .. MaxSequence
    BY BoundsAssumption DEF IInv, TypeOK, Events
  <2>2. log' \subseteq Events
    BY <2>1 DEF IInv, TypeOK
  <2>3. \A e, x \in log' : e.at <= sequence' /\ (e.at = x.at => e = x)
    BY <2>1, <2>2, BoundsAssumption DEF IInv, TypeOK, Events
  <2>4. run' \in [RunIds -> Records \union {NoRun}]
    BY DEF IInv, TypeOK
  <2>5. op' \in [run : RunIds, writes : {<<"session", "run", "log">>, <<"run", "log">>, <<"log">>}]
    BY DEF Writes
  <2> HIDE DEF new
  <2> QED
    BY <2>1, <2>2, <2>3, <2>4, <2>5 DEF IInv, TypeOK
<1>2. FilesOK'
  <2> SUFFICES ASSUME NEW s \in RunIds
        PROVE  /\ disk.log[s] \subseteq EventsOf(log', s)
               /\ s # r => /\ disk.run[s] = run'[s] /\ answered[s] = run'[s]
                           /\ s \in disk.session <=> run'[s] # NoRun
                           /\ EventsOf(log', s) \subseteq disk.log[s]
               /\ s = r => /\ run'[r] # NoRun
                           /\ disk.run[r] = answered[r]
                           /\ r \in disk.session <=> answered[r] # NoRun
                           /\ \A e \in EventsOf(log', r) \ disk.log[r] : e.at = sequence'
    BY DEF FilesOK, Writes
  <2>1. disk.log[s] = EventsOf(log, s)
    BY QuietFiles
  <2>2. EventsOf(log', s) = EventsOf(log, s) \union (IF s = r THEN {new} ELSE {})
    BY DEF EventsOf
  <2>3. run' \in [RunIds -> Records \union {NoRun}] /\ run'[r] = record
        /\ (s # r => run'[s] = run[s])
    BY DEF IInv, TypeOK
  <2>4. new.at = sequence'
    OBVIOUS
  <2> HIDE DEF new, Append1
  <2>5. CASE s = r
    <3>1. run'[r] # NoRun
      BY <2>3, RecordIsThere
    <3>2. disk.run[r] = answered[r] /\ (r \in disk.session <=> answered[r] # NoRun)
      BY QuietFiles
    <3> QED
      BY <2>1, <2>2, <2>4, <2>5, <3>1, <3>2
  <2>6. CASE s # r
    BY <2>1, <2>2, <2>3, <2>6, QuietFiles
  <2> QED
    BY <2>5, <2>6
<1>3. CrashedOK' /\ NumbersOK' /\ StreamOK' /\ InstallOK'
  BY DEF LockFree, IInv, CrashedOK, NumbersOK, StreamOK, InstallOK
<1> QED
  BY <1>1, <1>2, <1>3 DEF IInv

\* So does record_result, which appends none.
LEMMA RecordResultStep ==
  ASSUME IInv, NEW r \in RunIds, RecordResult(r)
  PROVE  IInv'
<1> USE DEF RecordResult, planning, reading
<1>0. run[r] \in Records
  BY DEF IInv, TypeOK, WasStarted, NoRun, Ended
<1>1. TypeOK'
  <2>1. run' \in [RunIds -> Records \union {NoRun}]
    BY <1>0, RecordTypes DEF IInv, TypeOK
  <2>2. op' \in [run : RunIds, writes : {<<"session", "run", "log">>, <<"run", "log">>, <<"log">>}]
    BY DEF Writes
  <2> QED
    BY <2>1, <2>2 DEF IInv, TypeOK
<1>2. FilesOK'
  <2> SUFFICES ASSUME NEW s \in RunIds
        PROVE  /\ disk.log[s] \subseteq EventsOf(log, s)
               /\ s # r => /\ disk.run[s] = run'[s] /\ answered[s] = run'[s]
                           /\ s \in disk.session <=> run'[s] # NoRun
                           /\ EventsOf(log, s) \subseteq disk.log[s]
               /\ s = r => /\ run'[r] # NoRun
                           /\ disk.run[r] = answered[r]
                           /\ r \in disk.session <=> answered[r] # NoRun
                           /\ EventsOf(log, r) \subseteq disk.log[r]
    BY DEF FilesOK, Writes, EventsOf
  <2>1. run'[r] \in Records /\ (s # r => run'[s] = run[s])
    BY <1>0, RecordTypes DEF IInv, TypeOK
  <2> QED
    BY <2>1, QuietFiles, RecordIsThere
<1>3. CrashedOK' /\ NumbersOK' /\ StreamOK' /\ InstallOK'
  BY DEF LockFree, IInv, CrashedOK, NumbersOK, StreamOK, InstallOK
<1> QED
  BY <1>1, <1>2, <1>3 DEF IInv

\* Every call of the store but the writing of a file.
LEMMA CallStep ==
  ASSUME IInv, NEW r \in RunIds,
         \/ Create(r) \/ Confirm(r) \/ Start(r) \/ Complete(r) \/ BlockAs(r) \/ Fail(r)
         \/ Resume(r) \/ ContinueWithIntent(r) \/ PrepareRevision(r) \/ AppendEvent(r)
         \/ RecordResult(r)
  PROVE  IInv'
<1> DEFINE Appended == LockFree /\ \E record \in Records, type \in EventTypes : Append1(r, record, type)
<1>1. Appended => IInv'
  BY AppendStep
<1>2. run[r] \in Records \/ run[r] = NoRun
  BY DEF IInv, TypeOK
<1>3. {"received", "confirmed", "started", "completed", "blocked", "failed", "resumed",
       "selected", "revised", "tool"} \subseteq EventTypes
  BY DEF EventTypes, StatusAfter
<1>4. CASE Create(r)
  <2>1. \A mode \in {"discovery", "direct"} :
          [status |-> "AWAITING_CONFIRMATION", intent |-> mode,
           result |-> NoResult, retryable |-> FALSE] \in Records
    BY DEF Records, Statuses, Results
  <2> QED
    BY <1>1, <1>3, <1>4, <2>1 DEF Create
<1>5. CASE Confirm(r)
  <2>1. run[r] \in Records /\ "CONFIRMED" \in Statuses
    BY <1>2, <1>5 DEF Confirm, NoRun, Statuses
  <2> QED
    BY <1>1, <1>3, <1>5, <2>1, RecordTypes DEF Confirm
<1>6. CASE Start(r)
  BY <1>1, <1>2, <1>3, <1>6, RecordTypes DEF Start
<1>7. CASE Complete(r)
  <2>1. run[r] \in Records
    BY <1>2, <1>7 DEF Complete, CanComplete, NoRun
  <2> QED
    BY <1>1, <1>3, <1>7, <2>1, RecordTypes DEF Complete
<1>8. CASE BlockAs(r)
  <2>1. run[r] \in Records
    BY <1>2, <1>8 DEF BlockAs, NoRun
  <2> QED
    BY <1>1, <1>3, <1>8, <2>1, RecordTypes DEF BlockAs
<1>9. CASE Fail(r)
  <2>1. run[r] \in Records
    BY <1>2, <1>9 DEF Fail, WasStarted, Ended, NoRun
  <2> QED
    BY <1>1, <1>3, <1>9, <2>1, RecordTypes DEF Fail
<1>10. CASE Resume(r)
  <2>1. run[r] \in Records
    BY <1>2, <1>10 DEF Resume, CanResume, NoRun
  <2> QED
    BY <1>1, <1>3, <1>10, <2>1, RecordTypes DEF Resume
<1>11. CASE ContinueWithIntent(r)
  BY <1>1, <1>2, <1>3, <1>11, RecordTypes DEF ContinueWithIntent
<1>12. CASE PrepareRevision(r)
  <2>1. run[r] \in Records /\ run[r].intent \in {"discovery", "direct"}
    BY <1>2, <1>12 DEF PrepareRevision, Records
  <2> QED
    BY <1>1, <1>3, <1>12, <2>1, RecordTypes DEF PrepareRevision
<1>13. CASE AppendEvent(r)
  <2>1. run[r] \in Records
    BY <1>2, <1>13 DEF AppendEvent, WasStarted, Ended, NoRun
  <2> QED
    BY <1>1, <1>3, <1>13, <2>1 DEF AppendEvent
<1>14. CASE RecordResult(r)
  BY <1>14, RecordResultStep
<1> QED
  BY <1>4, <1>5, <1>6, <1>7, <1>8, <1>9, <1>10, <1>11, <1>12, <1>13, <1>14

-----------------------------------------------------------------------------
(* Files.                                                                         *)

\* An event that is not on disk yet is newer than all that are, on any run's.
LEMMA NewestIsMissing ==
  ASSUME IInv, up = "up", NEW r \in RunIds, NEW e \in EventsOf(log, r) \ disk.log[r],
         NEW s \in RunIds, NEW x \in disk.log[s]
  PROVE  e.at = sequence /\ x.at < e.at
<1>1. e.at = sequence /\ e \in log
  BY DEF IInv, FilesOK, EventsOf
<1>2. x \in log /\ x.run = s /\ x # e
  BY DEF IInv, FilesOK, EventsOf
<1> QED
  BY <1>1, <1>2, BoundsAssumption DEF IInv, TypeOK, Events

\* The client of a run's stream has nothing that is not on disk yet.
LEMMA CursorIsOnDisk ==
  ASSUME IInv, up = "up", NEW r \in Watched, NEW e \in EventsOf(log, r) \ disk.log[r]
  PROVE  e.at > stream[r].cursor
<1>1. r \in RunIds
  BY WatchedAssumption
<1>2. CASE stream[r].cursor = 0
  BY <1>2, BoundsAssumption DEF IInv, TypeOK, Events, EventsOf
<1>3. CASE stream[r].cursor # 0
  <2>1. PICK x \in disk.log[r] : x.at = stream[r].cursor
    BY <1>3 DEF IInv, StreamOK
  <2>2. x.at < e.at /\ x \in log /\ e \in log
    BY <1>1, NewestIsMissing DEF EventsOf, IInv, FilesOK
  <2> QED
    BY <2>1, <2>2, BoundsAssumption DEF IInv, TypeOK, Events
<1> QED
  BY <1>2, <1>3

\* The call that holds the lock is that of a run; the first file it has left is written.
LEMMA WriteCases ==
  ASSUME IInv, Write
  PROVE  /\ up = "up" /\ op.run \in RunIds
         /\ \/ /\ op.writes = <<"session", "run", "log">>
               /\ disk' = [disk EXCEPT !.session = @ \union {op.run}]
               /\ op' = [run |-> op.run, writes |-> <<"run", "log">>]
               /\ answered' = answered
            \/ /\ op.writes = <<"run", "log">>
               /\ disk' = [disk EXCEPT !.run[op.run] = run[op.run]]
               /\ op' = [run |-> op.run, writes |-> <<"log">>]
               /\ answered' = answered
            \/ /\ op.writes = <<"log">>
               /\ disk' = [disk EXCEPT !.log[op.run] = EventsOf(log, op.run)]
               /\ op' = NoOp
               /\ answered' = [answered EXCEPT ![op.run] = run[op.run]]
<1>1. op \in [run : RunIds, writes : {<<"session", "run", "log">>, <<"run", "log">>, <<"log">>}]
  BY DEF Write, IInv, TypeOK
<1>2. CASE op.writes = <<"session", "run", "log">>
  <2>1. Head(op.writes) = "session" /\ Len(op.writes) = 3
        /\ Tail(op.writes) = <<"run", "log">>
    BY <1>2
  <2> QED
    BY <1>1, <1>2, <2>1 DEF Write
<1>3. CASE op.writes = <<"run", "log">>
  <2>1. Head(op.writes) = "run" /\ Len(op.writes) = 2 /\ Tail(op.writes) = <<"log">>
    BY <1>3
  <2> QED
    BY <1>1, <1>3, <2>1 DEF Write
<1>4. CASE op.writes = <<"log">>
  <2>1. Head(op.writes) = "log" /\ Len(op.writes) = 1
    BY <1>4
  <2> QED
    BY <1>1, <1>4, <2>1 DEF Write
<1> QED
  BY <1>1, <1>2, <1>3, <1>4 DEF Write

\* Writing a file keeps the invariant.
LEMMA WriteStep ==
  ASSUME IInv, Write
  PROVE  IInv'
<1> DEFINE r == op.run
<1>1. up = "up" /\ r \in RunIds /\ op # NoOp
  BY WriteCases DEF Write
<1>2. UNCHANGED <<up, memory, planning, reading, crashes>>
  BY DEF Write
<1> USE DEF memory, planning, reading
<1>3. run[r] # NoRun /\ run[r] \in Records /\ EventsOf(log, r) \subseteq Events
  BY <1>1 DEF IInv, FilesOK, TypeOK, EventsOf
<1>4. CrashedOK' /\ InstallOK'
  BY <1>1, <1>2 DEF CrashedOK, InstallOK, IInv
<1>5. CASE /\ op.writes = <<"session", "run", "log">>
           /\ disk' = [disk EXCEPT !.session = @ \union {op.run}]
           /\ op' = [run |-> op.run, writes |-> <<"run", "log">>]
           /\ answered' = answered
  <2>1. disk'.run = disk.run /\ disk'.log = disk.log /\ disk'.session = disk.session \union {r}
    BY <1>5 DEF IInv, TypeOK
  <2>2. TypeOK'
    BY <1>1, <1>2, <1>5 DEF IInv, TypeOK
  <2>3. FilesOK'
    BY <1>1, <1>2, <1>5, <2>1 DEF IInv, FilesOK
  <2>4. NumbersOK' /\ StreamOK'
    BY <1>2, <2>1 DEF IInv, NumbersOK, StreamOK
  <2> QED
    BY <1>4, <2>2, <2>3, <2>4 DEF IInv
<1>6. CASE /\ op.writes = <<"run", "log">>
           /\ disk' = [disk EXCEPT !.run[op.run] = run[op.run]]
           /\ op' = [run |-> op.run, writes |-> <<"log">>]
           /\ answered' = answered
  <2>1. disk'.run = [disk.run EXCEPT ![r] = run[r]] /\ disk'.log = disk.log
        /\ disk'.session = disk.session
    BY <1>6 DEF IInv, TypeOK
  <2>2. TypeOK'
    BY <1>1, <1>2, <1>3, <1>6 DEF IInv, TypeOK
  <2>3. disk'.run[r] = run[r] /\ \A s \in RunIds : s # r => disk'.run[s] = disk.run[s]
    BY <1>1, <2>1 DEF IInv, TypeOK
  <2>4. FilesOK'
    BY <1>1, <1>2, <1>6, <2>1, <2>3 DEF IInv, FilesOK
  <2>5. NumbersOK' /\ StreamOK'
    BY <1>2, <2>1 DEF IInv, NumbersOK, StreamOK
  <2> QED
    BY <1>4, <2>2, <2>4, <2>5 DEF IInv
<1>7. CASE /\ op.writes = <<"log">>
           /\ disk' = [disk EXCEPT !.log[op.run] = EventsOf(log, op.run)]
           /\ op' = NoOp
           /\ answered' = [answered EXCEPT ![op.run] = run[op.run]]
  <2>1. disk'.log = [disk.log EXCEPT ![r] = EventsOf(log, r)] /\ disk'.run = disk.run
        /\ disk'.session = disk.session
    BY <1>7 DEF IInv, TypeOK
  <2>2. disk'.log[r] = EventsOf(log, r) /\ \A s \in RunIds : s # r => disk'.log[s] = disk.log[s]
    BY <1>1, <2>1 DEF IInv, TypeOK
  <2>3. answered'[r] = run[r] /\ \A s \in RunIds : s # r => answered'[s] = answered[s]
    BY <1>1, <1>7 DEF IInv, TypeOK
  <2>4. TypeOK'
    BY <1>1, <1>2, <1>3, <1>7, <2>1 DEF IInv, TypeOK
  <2>5. FilesOK'
    <3>1. SUFFICES ASSUME NEW s \in RunIds
          PROVE  /\ disk'.log[s] = EventsOf(log, s)
                 /\ disk'.run[s] = run[s] /\ answered'[s] = run[s]
                 /\ s \in disk'.session <=> run[s] # NoRun
      <4>1. op'.run \notin RunIds
        BY <1>7, NobodyAssumption DEF NoOp
      <4> QED
        BY <1>2, <4>1, <3>1 DEF FilesOK
    <3>2. CASE s = r
      BY <1>1, <1>3, <1>7, <2>1, <2>2, <2>3, <3>2 DEF IInv, FilesOK
    <3>3. CASE s # r
      <4>1. disk.log[s] = EventsOf(log, s)
        BY <1>1, <3>3 DEF IInv, FilesOK
      <4> QED
        BY <1>1, <2>1, <2>2, <2>3, <3>3, <4>1 DEF IInv, FilesOK
    <3> QED
      BY <3>2, <3>3
  <2>6. NumbersOK'
    <3>1. \A s \in RunIds : \A e \in disk'.log[s] : e \in log /\ e.run = s
      BY <1>1, <2>2 DEF IInv, FilesOK, EventsOf
    <3> QED
      BY <3>1 DEF NumbersOK, IInv, TypeOK
  <2>7. StreamOK'
    <3>1. SUFFICES ASSUME NEW s \in Watched
          PROVE  /\ seen[s] = {e \in disk'.log[s] : e.at <= stream[s].cursor}
                 /\ stream[s].cursor # 0 => \E e \in disk'.log[s] : e.at = stream[s].cursor
                 /\ stream[s].waited => stream[s].batch \subseteq disk'.log[s]
                 /\ stream[s].waited => \A e \in stream[s].batch :
                     /\ e.at > stream[s].cursor
                     /\ \A x \in disk'.log[s] :
                         x.at > stream[s].cursor /\ x.at <= e.at => x \in stream[s].batch
      BY <1>1, <1>2, <3>1 DEF StreamOK
    <3>2. s \in RunIds
      BY WatchedAssumption
    <3>3. disk.log[s] \subseteq disk'.log[s] /\ disk'.log[s] \subseteq EventsOf(log, s)
      BY <1>1, <2>2, <3>2 DEF IInv, FilesOK
    <3>4. \A e \in disk'.log[s] \ disk.log[s] :
            e.at > stream[s].cursor /\ \A x \in disk.log[s] : x.at < e.at
      BY <1>1, <3>2, <3>3, CursorIsOnDisk, NewestIsMissing
    <3>5. \A e \in disk'.log[s] : e.at \in Nat
      BY <3>3, BoundsAssumption DEF EventsOf, IInv, TypeOK, Events
    <3>6. stream[s].cursor \in Nat
      BY BoundsAssumption DEF IInv, TypeOK
    <3>7. seen[s] = {e \in disk'.log[s] : e.at <= stream[s].cursor}
      <4>1. seen[s] = {e \in disk.log[s] : e.at <= stream[s].cursor}
        BY DEF IInv, StreamOK
      <4> QED
        BY <3>3, <3>4, <3>5, <3>6, <4>1
    <3>8. stream[s].cursor # 0 => \E e \in disk'.log[s] : e.at = stream[s].cursor
      BY <3>3 DEF IInv, StreamOK
    <3>9. stream[s].waited => stream[s].batch \subseteq disk.log[s]
      BY DEF IInv, StreamOK
    <3>10. ASSUME stream[s].waited, NEW e \in stream[s].batch
           PROVE  /\ e.at > stream[s].cursor
                  /\ \A x \in disk'.log[s] :
                       x.at > stream[s].cursor /\ x.at <= e.at => x \in stream[s].batch
      <4>1. e \in disk.log[s] /\ e.at > stream[s].cursor
        BY <3>9, <3>10 DEF IInv, StreamOK
      <4>2. \A x \in disk.log[s] :
              x.at > stream[s].cursor /\ x.at <= e.at => x \in stream[s].batch
        BY <3>10 DEF IInv, StreamOK
      <4>3. \A x \in disk'.log[s] \ disk.log[s] : ~ (x.at <= e.at)
        BY <3>3, <3>4, <3>5, <4>1
      <4> QED
        BY <4>1, <4>2, <4>3
    <3> QED
      BY <3>3, <3>7, <3>8, <3>9, <3>10
  <2> QED
    BY <1>4, <2>4, <2>5, <2>6, <2>7 DEF IInv
<1> QED
  BY WriteCases, <1>5, <1>6, <1>7

-----------------------------------------------------------------------------
(* Crashes.                                                                       *)

\* A crash leaves files that hold what was answered.
LEMMA CrashStep ==
  ASSUME IInv, Crash
  PROVE  IInv'
<1>1. /\ up = "up" /\ up' = "down"
      /\ run' = [r \in RunIds |-> NoRun] /\ log' = {} /\ sequence' = 0 /\ op' = NoOp
      /\ install' = [i \in Installers |-> NotInstalling]
      /\ UNCHANGED <<disk, plans, current, made, seen, answered, drops>>
  BY DEF Crash
<1>2. crashes + drops < MaxFaults /\ crashes' = crashes + 1 /\ drops' = drops
  BY DEF Crash
<1>3. /\ stream' = [r \in Watched |-> [stream[r] EXCEPT !.waited = FALSE, !.batch = {}]]
      /\ \A r \in Watched :
          /\ stream'[r] \in [waited : BOOLEAN, cursor : 0 .. MaxSequence, batch : SUBSET Events]
          /\ ~ stream'[r].waited /\ stream'[r].cursor = stream[r].cursor
  <2>1. stream' = [r \in Watched |-> [stream[r] EXCEPT !.waited = FALSE, !.batch = {}]]
    BY DEF Crash
  <2>2. ASSUME NEW r \in Watched
        PROVE  /\ stream'[r] \in [waited : BOOLEAN, cursor : 0 .. MaxSequence, batch : SUBSET Events]
               /\ ~ stream'[r].waited /\ stream'[r].cursor = stream[r].cursor
    <3>1. stream'[r] = [stream[r] EXCEPT !.waited = FALSE, !.batch = {}]
      BY <2>1
    <3>2. stream[r] \in [waited : BOOLEAN, cursor : 0 .. MaxSequence, batch : SUBSET Events]
      BY DEF IInv, TypeOK
    <3> QED
      BY <3>1, <3>2
  <2> QED
    BY <2>1, <2>2
<1>4. TypeOK'
  <2>1. install' \in
          [Installers -> [phase : {"idle", "counted", "kept"},
                          run : RunIds \union {"nobody"}, number : Nat, plan : 0 .. MaxPlans]]
    BY <1>1, BoundsAssumption DEF NotInstalling
  <2>2. stream' \in [Watched -> [waited : BOOLEAN, cursor : 0 .. MaxSequence,
                                 batch : SUBSET Events]]
    BY <1>3
  <2>3. crashes' \in Nat /\ drops' \in Nat /\ crashes' + drops' <= MaxFaults
    BY <1>2, BoundsAssumption DEF IInv, TypeOK
  <2>4. run' \in [RunIds -> Records \union {NoRun}]
    BY <1>1
  <2>5. log' = {} /\ sequence' \in 0 .. MaxSequence
    BY <1>1, BoundsAssumption
  <2> QED
    BY <1>1, <2>1, <2>2, <2>3, <2>4, <2>5 DEF IInv, TypeOK
<1>5. CrashedOK'
  <2>1. ASSUME NEW r \in RunIds
        PROVE  /\ disk.run[r] # NoRun => r \in disk.session
               /\ r \in disk.session /\ disk.run[r] = NoRun => answered[r] = NoRun
    <3>1. CASE op.run # r
      BY <1>1, <3>1 DEF IInv, FilesOK
    <3>2. CASE op.run = r
      <4>1. op.writes \in {<<"session", "run", "log">>, <<"run", "log">>, <<"log">>}
        BY <3>2, NobodyAssumption DEF IInv, TypeOK, NoOp
      <4> QED
        BY <1>1, <3>2, <4>1 DEF IInv, FilesOK
    <3> QED
      BY <3>1, <3>2
  <2> QED
    BY <1>1, <2>1 DEF CrashedOK
<1>6. StreamOK'
  BY <1>1, <1>3 DEF IInv, StreamOK
<1>7. FilesOK' /\ NumbersOK'
  BY <1>1 DEF FilesOK, NumbersOK, IInv
<1>8. InstallOK'
  BY <1>1 DEF InstallOK, NotInstalling
<1> QED
  BY <1>4, <1>5, <1>6, <1>7, <1>8 DEF IInv

\* What is loaded is what is on disk, with the numbers going on from the last.
LEMMA LoadStep ==
  ASSUME IInv, Load
  PROVE  IInv'
<1> USE DEF planning, reading, memory
<1>1. up = "down" /\ UNCHANGED <<op, disk, planning, reading, crashes>>
  BY DEF Load
<1>2. op = NoOp /\ \A r \in Watched : ~ stream[r].waited
  BY <1>1 DEF IInv, CrashedOK, StreamOK
<1>3. NumbersOK' /\ InstallOK'
  BY <1>1 DEF IInv, NumbersOK, InstallOK
<1>4. StreamOK'
  BY <1>1, <1>2 DEF IInv, StreamOK
<1>5. CASE \A r \in RunIds : Loadable(r)
  <2> DEFINE events == UNION {disk.log[r] : r \in RunIds}
  <2>1. up' = "up" /\ run' = disk.run /\ log' = events
        /\ sequence' = LastNumber(events) /\ answered' = disk.run
    BY <1>5 DEF Load
  <2>2. events \subseteq Events
    BY DEF IInv, TypeOK
  <2>3. \A r \in RunIds : EventsOf(events, r) = disk.log[r]
    BY DEF IInv, NumbersOK, EventsOf
  <2>4. \A e, x \in events : e.at = x.at => e = x
    BY DEF IInv, NumbersOK
  <2>5. sequence' \in 0 .. MaxSequence /\ \A e \in events : e.at <= sequence'
    <3>1. \A e \in events : e.at \in 0 .. MaxSequence
      BY <2>2 DEF Events
    <3> HIDE DEF events
    <3> QED
      BY <2>1, <3>1, LastNumberIsLast, BoundsAssumption
  <2> HIDE DEF events
  <2>6. TypeOK'
    BY <1>1, <2>1, <2>2, <2>4, <2>5 DEF IInv, TypeOK
  <2>7. FilesOK'
    <3>1. \A r \in RunIds : op'.run # r
      BY <1>1, <1>2, NobodyAssumption DEF NoOp
    <3>2. \A r \in RunIds : r \in disk.session <=> disk.run[r] # NoRun
      BY <1>5 DEF Loadable
    <3> QED
      BY <1>1, <2>1, <2>3, <3>1, <3>2 DEF FilesOK
  <2>8. CrashedOK'
    BY <2>1 DEF CrashedOK
  <2> QED
    BY <1>3, <1>4, <2>6, <2>7, <2>8 DEF IInv
<1>6. CASE ~ \A r \in RunIds : Loadable(r)
  <2>1. up' = "refused" /\ UNCHANGED <<memory, answered>>
    BY <1>6 DEF Load
  <2>2. TypeOK'
    BY <1>1, <2>1 DEF IInv, TypeOK
  <2>3. FilesOK'
    BY <2>1 DEF FilesOK
  <2>4. CrashedOK'
    BY <1>1, <1>6, <2>1 DEF IInv, CrashedOK, Loadable
  <2> QED
    BY <1>3, <1>4, <2>2, <2>3, <2>4 DEF IInv
<1> QED
  BY <1>5, <1>6

-----------------------------------------------------------------------------
(* Plan versions.                                                                 *)

\* The steps of an installation keep the invariant.
LEMMA PlanStep ==
  ASSUME IInv, NEW i \in Installers, Install(i) \/ WriteVersion(i) \/ WriteCurrent(i)
  PROVE  IInv'
<1> USE DEF memory, reading
<1> DEFINE x == install[i]
<1>1. UNCHANGED <<up, run, log, sequence, op, disk, stream, seen, drops, answered, crashes>>
  BY DEF Install, WriteVersion, WriteCurrent
<1>2. FilesOK' /\ CrashedOK' /\ NumbersOK' /\ StreamOK'
  BY <1>1 DEF IInv, FilesOK, CrashedOK, NumbersOK, StreamOK, Loadable
<1>3. CASE Install(i)
  <2>1. PICK r \in RunIds :
          /\ made' = made + 1
          /\ install' = [install EXCEPT ![i] = [phase |-> "counted", run |-> r,
                              number |-> NextNumber(r), plan |-> made + 1]]
    BY <1>3 DEF Install
  <2>2. made + 1 \in 1 .. MaxPlans /\ UNCHANGED <<plans, current>>
    BY <1>3, BoundsAssumption DEF Install, IInv, TypeOK
  <2>3. NextNumber(r) = Len(plans[r]) + 1 /\ NextNumber(r) \in Nat
    BY DEF IInv, TypeOK, NextNumber
  <2>4. TypeOK'
    BY <1>1, <2>1, <2>2, <2>3, BoundsAssumption DEF IInv, TypeOK
  <2>5. InstallOK'
    BY <2>1, <2>2, <2>3 DEF IInv, TypeOK, InstallOK
  <2> QED
    BY <1>2, <2>4, <2>5 DEF IInv
<1>4. CASE WriteVersion(i)
  <2> DEFINE kept == IF x.number \in DOMAIN plans[x.run]
                     THEN [plans[x.run] EXCEPT ![x.number] = x.plan]
                     ELSE Append(plans[x.run], x.plan)
  <2>1. /\ plans' = [plans EXCEPT ![x.run] = kept]
        /\ install' = [install EXCEPT ![i].phase = "kept"]
        /\ x.phase = "counted" /\ UNCHANGED <<current, made>>
    BY <1>4 DEF WriteVersion
  <2>2. x.run \in RunIds /\ x.plan \in 1 .. MaxPlans /\ plans[x.run] \in Seq(1 .. MaxPlans)
    BY <2>1 DEF IInv, InstallOK, TypeOK
  <2>3. kept \in Seq(1 .. MaxPlans)
    <3> DEFINE s == plans[x.run]
    <3>1. s \in Seq(1 .. MaxPlans) /\ x.plan \in 1 .. MaxPlans
      BY <2>2
    <3> HIDE DEF x, s
    <3>2. Append(s, x.plan) \in Seq(1 .. MaxPlans)
      BY <3>1
    <3>3. x.number \in DOMAIN s => [s EXCEPT ![x.number] = x.plan] \in Seq(1 .. MaxPlans)
      <4>1. DOMAIN s = 1 .. Len(s)
        BY <3>1
      <4> QED
        BY <3>1, <4>1, ExceptSeq
    <3> QED
      BY <3>2, <3>3 DEF s
  <2> HIDE DEF kept
  <2>4. TypeOK'
    <3>1. plans' \in [RunIds -> Seq(1 .. MaxPlans)]
      BY <2>1, <2>3 DEF IInv, TypeOK
    <3>2. install' \in [Installers -> [phase : {"idle", "counted", "kept"},
                        run : RunIds \union {"nobody"}, number : Nat, plan : 0 .. MaxPlans]]
      <4>1. install \in [Installers -> [phase : {"idle", "counted", "kept"},
                        run : RunIds \union {"nobody"}, number : Nat, plan : 0 .. MaxPlans]]
        BY DEF IInv, TypeOK
      <4> QED
        BY <2>1, <4>1
    <3> QED
      BY <1>1, <2>1, <3>1, <3>2 DEF IInv, TypeOK
  <2>5. InstallOK'
    <3> SUFFICES ASSUME NEW j \in Installers, install'[j].phase # "idle"
          PROVE  /\ install'[j].run \in RunIds /\ install'[j].plan \in 1 .. MaxPlans
                 /\ ~ (install'[j].phase = "counted" /\ \A k \in Installers : k = j)
      BY DEF InstallOK
    <3>1. CASE j = i
      BY <2>1, <2>2, <3>1 DEF IInv, TypeOK
    <3>2. CASE j # i
      BY <2>1, <3>2 DEF IInv, TypeOK, InstallOK
    <3> QED
      BY <3>1, <3>2
  <2> QED
    BY <1>2, <2>4, <2>5 DEF IInv
<1>5. CASE WriteCurrent(i)
  <2>1. /\ current' = [current EXCEPT ![x.run] = [number |-> x.number, plan |-> x.plan]]
        /\ install' = [install EXCEPT ![i] = NotInstalling]
        /\ UNCHANGED <<plans, made>>
    BY <1>5 DEF WriteCurrent
  <2>2. TypeOK'
    <3>1. current' \in [RunIds -> [number : Nat, plan : 0 .. MaxPlans]]
      BY <2>1 DEF IInv, TypeOK
    <3>2. install' \in [Installers -> [phase : {"idle", "counted", "kept"},
                        run : RunIds \union {"nobody"}, number : Nat, plan : 0 .. MaxPlans]]
      BY <2>1, BoundsAssumption DEF IInv, TypeOK, NotInstalling
    <3> QED
      BY <1>1, <2>1, <3>1, <3>2 DEF IInv, TypeOK
  <2>3. InstallOK'
    BY <2>1 DEF IInv, TypeOK, InstallOK, NotInstalling
  <2> QED
    BY <1>2, <2>2, <2>3 DEF IInv
<1> QED
  BY <1>3, <1>4, <1>5

-----------------------------------------------------------------------------
(* Streams.                                                                       *)

\* A wait returns what is on disk beyond the cursor.
LEMMA WaitStep ==
  ASSUME IInv, NEW r \in Watched, WaitForEvents(r)
  PROVE  IInv'
<1> USE DEF memory, planning
<1> DEFINE batch == {e \in EventsOf(log, r) : e.at > stream[r].cursor}
<1>1. /\ LockFree /\ up = "up"
      /\ UNCHANGED <<up, memory, op, disk, planning, seen, answered, crashes, drops>>
  BY DEF WaitForEvents, LockFree
<1>2. stream' = [stream EXCEPT ![r].waited = TRUE, ![r].batch = batch]
  BY DEF WaitForEvents
<1>3. batch \in SUBSET Events /\ batch = {e \in disk.log[r] : e.at > stream[r].cursor}
  BY <1>1, QuietFiles, WatchedAssumption DEF IInv, TypeOK, EventsOf
<1> HIDE DEF batch
<1>4. stream \in [Watched -> [waited : BOOLEAN, cursor : 0 .. MaxSequence, batch : SUBSET Events]]
  BY DEF IInv, TypeOK
<1>5. /\ stream' \in [Watched -> [waited : BOOLEAN, cursor : 0 .. MaxSequence,
                                  batch : SUBSET Events]]
      /\ stream'[r].cursor = stream[r].cursor /\ stream'[r].batch = batch
      /\ \A s \in Watched : s # r => stream'[s] = stream[s]
  BY <1>2, <1>3, <1>4
<1>6. TypeOK'
  BY <1>1, <1>5 DEF IInv, TypeOK
<1>7. StreamOK'
  <2>1. ASSUME NEW s \in Watched
        PROVE  /\ seen[s] = {e \in disk.log[s] : e.at <= stream'[s].cursor}
               /\ stream'[s].cursor # 0 => \E e \in disk.log[s] : e.at = stream'[s].cursor
               /\ stream'[s].waited => stream'[s].batch \subseteq disk.log[s]
               /\ stream'[s].waited => \A e \in stream'[s].batch :
                   /\ e.at > stream'[s].cursor
                   /\ \A x \in disk.log[s] :
                       x.at > stream'[s].cursor /\ x.at <= e.at => x \in stream'[s].batch
    <3>1. CASE s = r
      BY <1>3, <1>5, <3>1 DEF IInv, StreamOK
    <3>2. CASE s # r
      BY <1>5, <3>2 DEF IInv, StreamOK
    <3> QED
      BY <3>1, <3>2
  <2> QED
    BY <1>1, <2>1 DEF StreamOK
<1>8. FilesOK' /\ CrashedOK' /\ NumbersOK' /\ InstallOK'
  BY <1>1 DEF IInv, FilesOK, CrashedOK, NumbersOK, InstallOK
<1> QED
  BY <1>6, <1>7, <1>8 DEF IInv

\* What a client gets of a batch is its first events, whether all or some.
LEMMA SentStep ==
  ASSUME IInv, NEW r \in Watched, stream[r].waited, NEW part \in SUBSET stream[r].batch,
         \A e \in part : \A x \in stream[r].batch : x.at <= e.at => x \in part,
         Sent(r, part), UNCHANGED <<up, memory, op, disk, planning, answered>>,
         crashes' \in Nat, drops' \in Nat, crashes' + drops' <= MaxFaults
  PROVE  IInv'
<1> USE DEF memory, planning
<1> DEFINE cursor == stream[r].cursor
           next == LastNumber(part \union {[at |-> cursor]})
<1>1. /\ seen' = [seen EXCEPT ![r] = @ \union part]
      /\ stream' = [stream EXCEPT ![r] = [waited |-> FALSE, batch |-> {}, cursor |-> next]]
  BY DEF Sent
<1>2. /\ stream \in [Watched -> [waited : BOOLEAN, cursor : 0 .. MaxSequence, batch : SUBSET Events]]
      /\ seen \in [Watched -> SUBSET Events] /\ part \subseteq Events /\ cursor \in 0 .. MaxSequence
  BY DEF IInv, TypeOK
<1>3. /\ part \subseteq disk.log[r] /\ disk.log[r] \subseteq Events
      /\ \A e \in part : e.at > cursor
      /\ \A e \in part : \A x \in disk.log[r] : x.at > cursor /\ x.at <= e.at => x \in part
      /\ seen[r] = {e \in disk.log[r] : e.at <= cursor}
      /\ cursor # 0 => \E e \in disk.log[r] : e.at = cursor
  BY WatchedAssumption DEF IInv, StreamOK, TypeOK
<1>4. /\ next \in 0 .. MaxSequence /\ cursor <= next
      /\ next = cursor \/ \E e \in part : e.at = next
      /\ \A e \in part : e.at <= next
  <2> DEFINE S == part \union {[at |-> cursor]}
  <2>1. \A e \in S : e.at \in 0 .. MaxSequence
    BY <1>2 DEF Events
  <2> HIDE DEF S
  <2>2. /\ LastNumber(S) \in 0 .. MaxSequence
        /\ LastNumber(S) = 0 \/ \E e \in S : e.at = LastNumber(S)
        /\ \A e \in S : e.at <= LastNumber(S)
    BY <2>1, LastNumberIsLast, BoundsAssumption
  <2>3. next = LastNumber(S)
    BY DEF S
  <2>4. [at |-> cursor] \in S /\ part \subseteq S
        /\ \A e \in S : e \in part \/ e.at = cursor
    BY DEF S
  <2> HIDE DEF next, cursor
  <2>5. cursor <= next
    BY <2>2, <2>3, <2>4
  <2>6. cursor = 0 \/ next # 0
    BY <1>2, <2>5, BoundsAssumption
  <2> QED
    BY <2>2, <2>3, <2>4, <2>5, <2>6
<1> HIDE DEF cursor, next
<1>5. /\ stream' \in [Watched -> [waited : BOOLEAN, cursor : 0 .. MaxSequence,
                                  batch : SUBSET Events]]
      /\ stream'[r].cursor = next /\ ~ stream'[r].waited
      /\ \A s \in Watched : s # r => stream'[s] = stream[s]
  BY <1>1, <1>2, <1>4
<1>6. /\ seen' \in [Watched -> SUBSET Events] /\ seen'[r] = seen[r] \union part
      /\ \A s \in Watched : s # r => seen'[s] = seen[s]
  BY <1>1, <1>2
<1>7. TypeOK'
  BY <1>5, <1>6 DEF IInv, TypeOK
<1>8. seen[r] \union part = {e \in disk.log[r] : e.at <= next}
  <2>1. \A e \in disk.log[r] : e.at \in Nat
    BY <1>3, BoundsAssumption DEF Events
  <2>2. cursor \in Nat /\ next \in Nat
    BY <1>2, <1>4, BoundsAssumption
  <2>3. ASSUME NEW e \in disk.log[r], e.at <= next
        PROVE  e \in seen[r] \union part
    <3>1. CASE e.at <= cursor
      BY <1>3, <3>1
    <3>2. CASE e.at > cursor
      <4>1. PICK p \in part : p.at = next
        BY <1>4, <2>1, <2>2, <2>3, <3>2
      <4> QED
        BY <1>3, <2>3, <3>2, <4>1
    <3> QED
      BY <2>1, <2>2, <3>1, <3>2
  <2>4. ASSUME NEW e \in seen[r] \union part
        PROVE  e \in disk.log[r] /\ e.at <= next
    BY <1>3, <1>4, <2>1, <2>2, <2>4
  <2> QED
    BY <2>3, <2>4
<1>9. StreamOK'
  <2>1. ASSUME NEW s \in Watched
        PROVE  /\ seen'[s] = {e \in disk.log[s] : e.at <= stream'[s].cursor}
               /\ stream'[s].cursor # 0 => \E e \in disk.log[s] : e.at = stream'[s].cursor
               /\ stream'[s].waited => up = "up" /\ stream'[s].batch \subseteq disk.log[s]
               /\ stream'[s].waited => \A e \in stream'[s].batch :
                   /\ e.at > stream'[s].cursor
                   /\ \A x \in disk.log[s] :
                       x.at > stream'[s].cursor /\ x.at <= e.at => x \in stream'[s].batch
    <3>1. CASE s = r
      <4>1. next # 0 => \E e \in disk.log[r] : e.at = next
        BY <1>3, <1>4
      <4> QED
        BY <1>5, <1>6, <1>8, <3>1, <4>1
    <3>2. CASE s # r
      BY <1>5, <1>6, <3>2 DEF IInv, StreamOK
    <3> QED
      BY <3>1, <3>2
  <2> QED
    BY <2>1 DEF StreamOK
<1>10. FilesOK' /\ CrashedOK' /\ NumbersOK' /\ InstallOK'
  BY DEF IInv, FilesOK, CrashedOK, NumbersOK, InstallOK, Loadable
<1> QED
  BY <1>7, <1>9, <1>10 DEF IInv

\* The whole batch is sent, or the connection breaks on the way.
LEMMA StreamStep ==
  ASSUME IInv, NEW r \in Watched, Stream(r) \/ Drop(r)
  PROVE  IInv'
<1>1. CASE WaitForEvents(r)
  BY <1>1, WaitStep
<1>2. CASE Send(r)
  <2>1. crashes' \in Nat /\ drops' \in Nat /\ crashes' + drops' <= MaxFaults
    BY <1>2 DEF Send, IInv, TypeOK
  <2> QED
    BY <1>2, <2>1, SentStep DEF Send
<1>3. CASE Drop(r)
  <2>1. crashes' \in Nat /\ drops' \in Nat /\ crashes' + drops' <= MaxFaults
    BY <1>3, BoundsAssumption DEF Drop, IInv, TypeOK
  <2>2. PICK e \in stream[r].batch : Sent(r, {x \in stream[r].batch : x.at < e.at})
    BY <1>3 DEF Drop
  <2> DEFINE part == {x \in stream[r].batch : x.at < e.at}
  <2>3. stream[r].batch \subseteq Events
    BY DEF IInv, TypeOK
  <2>4. \A y \in part : \A x \in stream[r].batch : x.at <= y.at => x \in part
    BY <2>3, BoundsAssumption DEF Events
  <2>5. part \in SUBSET stream[r].batch /\ Sent(r, part)
    BY <2>2
  <2> HIDE DEF part
  <2>6. stream[r].waited /\ UNCHANGED <<up, memory, op, disk, planning, answered>>
    BY <1>3 DEF Drop
  <2> QED
    BY <2>1, <2>4, <2>5, <2>6, SentStep
<1> QED
  BY <1>1, <1>2, <1>3 DEF Stream

-----------------------------------------------------------------------------
(* The invariant.                                                                 *)

\* It holds at the start: nothing is on file and nobody was answered.
LEMMA InitInv == Init => IInv
<1> SUFFICES ASSUME Init PROVE IInv
  OBVIOUS
<1> USE DEF Init
<1>1. TypeOK
  <2>1. /\ run \in [RunIds -> Records \union {NoRun}] /\ answered = run /\ op = NoOp
        /\ disk \in [session : SUBSET RunIds, run : [RunIds -> Records \union {NoRun}],
                     log : [RunIds -> SUBSET Events]]
    OBVIOUS
  <2>2. /\ install \in [Installers -> [phase : {"idle", "counted", "kept"},
                        run : RunIds \union {"nobody"}, number : Nat, plan : 0 .. MaxPlans]]
        /\ plans \in [RunIds -> Seq(1 .. MaxPlans)]
        /\ current \in [RunIds -> [number : Nat, plan : 0 .. MaxPlans]]
    BY BoundsAssumption DEF NotInstalling
  <2>3. /\ stream \in [Watched -> [waited : BOOLEAN, cursor : 0 .. MaxSequence,
                                   batch : SUBSET Events]]
        /\ seen \in [Watched -> SUBSET Events]
    BY BoundsAssumption DEF NotSent
  <2>4. /\ up = "up" /\ log = {} /\ sequence \in 0 .. MaxSequence /\ made \in 0 .. MaxPlans
        /\ crashes \in Nat /\ drops \in Nat /\ crashes + drops <= MaxFaults
    BY BoundsAssumption
  <2> QED
    BY <2>1, <2>2, <2>3, <2>4 DEF TypeOK
<1>2. FilesOK
  BY NobodyAssumption DEF FilesOK, EventsOf, NoOp
<1>3. CrashedOK /\ NumbersOK
  BY DEF CrashedOK, NumbersOK
<1>4. StreamOK
  BY WatchedAssumption DEF StreamOK, NotSent
<1>5. InstallOK
  BY DEF InstallOK, NotInstalling
<1> QED
  BY <1>1, <1>2, <1>3, <1>4, <1>5 DEF IInv

\* Every step keeps it.
LEMMA NextInv == IInv /\ [Next]_vars => IInv'
<1> SUFFICES ASSUME IInv, [Next]_vars PROVE IInv'
  OBVIOUS
<1>1. CASE StoreCall
  BY <1>1, WriteStep, CallStep DEF StoreCall
<1>2. CASE Crash
  BY <1>2, CrashStep
<1>3. CASE Load
  BY <1>3, LoadStep
<1>4. CASE \E i \in Installers : Install(i) \/ WriteVersion(i) \/ WriteCurrent(i)
  BY <1>4, PlanStep
<1>5. CASE \E r \in Watched : Stream(r) \/ Drop(r)
  BY <1>5, StreamStep
<1>6. CASE UNCHANGED vars
  <2> USE <1>6 DEF vars, memory, planning, reading
  <2>1. TypeOK' /\ InstallOK'
    BY DEF IInv, TypeOK, InstallOK
  <2>2. FilesOK' /\ CrashedOK' /\ NumbersOK' /\ StreamOK'
    BY DEF IInv, FilesOK, CrashedOK, NumbersOK, StreamOK, Loadable
  <2> QED
    BY <2>1, <2>2 DEF IInv
<1> QED
  BY <1>1, <1>2, <1>3, <1>4, <1>5, <1>6 DEF Next

\* So it always holds.
LEMMA SpecInv == Spec => []IInv
BY InitInv, NextInv, PTL DEF Spec

\* Type correctness.
THEOREM TypeCorrect == Spec => []TypeOK
<1>1. IInv => TypeOK
  BY DEF IInv
<1> QED
  BY <1>1, SpecInv, PTL

\* A crash takes back nothing that was answered or told, and the service refuses to start
\* again only because of a run nobody was told the id of: for any runs, calls and crashes.
THEOREM AnsweredStays == Spec => []AnsweredIsWritten
<1>1. IInv => AnsweredIsWritten
  <2> SUFFICES ASSUME IInv PROVE AnsweredIsWritten
    OBVIOUS
  <2>1. ASSUME up = "up", NEW r \in RunIds, op.run # r
        PROVE  /\ disk.run[r] = answered[r] /\ run[r] = answered[r]
               /\ disk.log[r] = EventsOf(log, r)
    BY <2>1 DEF IInv, FilesOK
  <2>2. ASSUME up = "refused"
        PROVE  \E r \in RunIds : answered[r] = NoRun /\ r \in disk.session /\ disk.run[r] = NoRun
    BY <2>2 DEF IInv, CrashedOK, Loadable
  <2> QED
    BY <2>1, <2>2 DEF AnsweredIsWritten
<1> QED
  BY <1>1, SpecInv, PTL

\* What a client was sent is what the log holds up to its cursor: nothing missing, nothing
\* twice, nothing a crash took back, for any runs and any number of broken connections.
THEOREM WholeStreams == Spec => []StreamsAreWhole
<1>1. IInv => StreamsAreWhole
  <2> SUFFICES ASSUME IInv, up = "up", NEW r \in Watched
        PROVE  seen[r] = {e \in EventsOf(log, r) : e.at <= stream[r].cursor}
    BY DEF StreamsAreWhole
  <2>1. seen[r] = {e \in disk.log[r] : e.at <= stream[r].cursor}
    BY DEF IInv, StreamOK
  <2>2. disk.log[r] \subseteq EventsOf(log, r)
    BY WatchedAssumption DEF IInv, FilesOK
  <2>3. \A e \in EventsOf(log, r) \ disk.log[r] : e.at > stream[r].cursor
    BY CursorIsOnDisk
  <2>4. \A e \in EventsOf(log, r) : e.at \in Nat
    BY BoundsAssumption DEF EventsOf, IInv, TypeOK, Events
  <2>5. stream[r].cursor \in Nat
    BY BoundsAssumption DEF IInv, TypeOK
  <2> QED
    BY <2>1, <2>2, <2>3, <2>4, <2>5
<1> QED
  BY <1>1, SpecInv, PTL

\* A kept plan version is never written again while one thread at a time installs, whatever
\* the runs, the plans and the crashes between its two files.
THEOREM KeptVersions ==
  ASSUME \A i, j \in Installers : i = j
  PROVE  Spec => VersionsStay
<1> DEFINE Stays == \A r \in RunIds : \A n \in DOMAIN plans[r] :
                      n \in DOMAIN plans'[r] /\ plans'[r][n] = plans[r][n]
<1>1. IInv /\ [Next]_vars => [Stays]_vars
  <2> SUFFICES ASSUME IInv, Next PROVE Stays
    BY DEF vars
  <2>1. CASE \E i \in Installers : WriteVersion(i)
    <3>1. PICK i \in Installers : WriteVersion(i)
      BY <2>1
    <3> DEFINE q == install[i].run
               n0 == install[i].number
    <3>2. /\ install[i].phase = "counted"
          /\ plans' = [plans EXCEPT ![q] =
                IF n0 \in DOMAIN plans[q] THEN [plans[q] EXCEPT ![n0] = install[i].plan]
                ELSE Append(plans[q], install[i].plan)]
      BY <3>1 DEF WriteVersion
    <3>3. q \in RunIds /\ n0 = Len(plans[q]) + 1
      BY <3>2 DEF IInv, InstallOK
    <3>4. plans[q] \in Seq(1 .. MaxPlans) /\ plans \in [RunIds -> Seq(1 .. MaxPlans)]
      BY <3>3 DEF IInv, TypeOK
    <3>5. n0 \notin DOMAIN plans[q]
      BY <3>3, <3>4
    <3>6. plans' = [plans EXCEPT ![q] = Append(plans[q], install[i].plan)]
      BY <3>2, <3>5
    <3>7. plans'[q] = Append(plans[q], install[i].plan)
          /\ \A r \in RunIds : r # q => plans'[r] = plans[r]
      BY <3>3, <3>4, <3>6
    <3>8. \A n \in DOMAIN plans[q] : n \in DOMAIN plans'[q] /\ plans'[q][n] = plans[q][n]
      <4> DEFINE s == plans[q]
                 p == install[i].plan
      <4>1. s \in Seq(1 .. MaxPlans)
        BY <3>4
      <4> HIDE DEF s, p
      <4>2. \A n \in DOMAIN s : n \in DOMAIN Append(s, p) /\ Append(s, p)[n] = s[n]
        BY <4>1
      <4> QED
        BY <3>7, <4>2 DEF s, p
    <3> QED
      BY <3>7, <3>8
  <2>2. CASE UNCHANGED plans
    BY <2>2
  <2>3. (\E i \in Installers : WriteVersion(i)) \/ UNCHANGED plans
    BY DEF Next, StoreCall, Write, Create, Confirm, Start, Complete, BlockAs, Fail, Resume,
       ContinueWithIntent, PrepareRevision, AppendEvent, RecordResult, Append1, Crash, Load,
       Install, WriteCurrent, Stream, WaitForEvents, Send, Drop, planning
  <2> QED
    BY <2>1, <2>2, <2>3
<1>2. VersionsStay <=> [][Stays]_vars
  BY DEF VersionsStay
<1> HIDE DEF Stays
<1> QED
  BY <1>1, <1>2, SpecInv, PTL DEF Spec
-----------------------------------------------------------------------------
(* How far a run can be ahead of its events.                                      *)

\* What the files and the memory tell of the runs: a crash now would leave a record that
\* is one transition further ahead of the events on file only if run.json has been
\* written and events.jsonl has not.
Gap ==
    \A r \in RunIds :
        /\ Within(Told(disk.log[r]), disk.run[r].status,
                  IF op.run = r /\ op.writes = <<"log">> THEN crashes + 1 ELSE crashes)
        /\ up = "up" =>
            /\ Within(Told(EventsOf(log, r)), run[r].status, crashes)
            /\ op.run = r /\ op.writes # <<"log">> =>
                \/ run[r].status = disk.run[r].status
                \/ run[r].status \in Follows(disk.run[r].status)

\* A status is within any number of transitions of itself.
LEMMA WithinSelf ==
  ASSUME NEW s \in Statuses \union {"none"}, NEW n \in Nat
  PROVE  Within(s, s, n)
<1> DEFINE path == [k \in 0 .. n |-> s]
<1>1. path \in [0 .. n -> Statuses \union {"none"}]
  OBVIOUS
<1>2. path[0] = s /\ path[n] = s /\ \A k \in 1 .. n : path[k] = path[k - 1]
  OBVIOUS
<1> HIDE DEF path
<1> QED
  BY <1>1, <1>2 DEF Within

\* One more transition is allowed one more.
LEMMA WithinNext ==
  ASSUME NEW s, NEW t, NEW u \in Statuses \union {"none"}, NEW n \in Nat,
         Within(s, t, n), u = t \/ u \in Follows(t)
  PROVE  Within(s, u, n + 1)
<1>1. PICK path \in [0 .. n -> Statuses \union {"none"}] :
        /\ path[0] = s /\ path[n] = t
        /\ \A k \in 1 .. n : path[k] = path[k - 1] \/ path[k] \in Follows(path[k - 1])
  BY DEF Within
<1> DEFINE longer == [k \in 0 .. n + 1 |-> IF k <= n THEN path[k] ELSE u]
<1>2. longer \in [0 .. n + 1 -> Statuses \union {"none"}]
  OBVIOUS
<1>3. longer[0] = s /\ longer[n + 1] = u /\ longer[n] = t
  BY <1>1
<1>4. \A k \in 0 .. n : longer[k] = path[k]
  OBVIOUS
<1> HIDE DEF longer
<1>5. ASSUME NEW k \in 1 .. n + 1
      PROVE  longer[k] = longer[k - 1] \/ longer[k] \in Follows(longer[k - 1])
  <2>1. CASE k = n + 1
    <3>1. longer[k] = u /\ longer[k - 1] = t
      BY <1>3, <2>1
    <3> QED
      BY <3>1
  <2>2. CASE k # n + 1
    <3>1. k \in 1 .. n /\ k \in 0 .. n /\ k - 1 \in 0 .. n
      BY <2>2
    <3>2. longer[k] = path[k] /\ longer[k - 1] = path[k - 1]
      BY <1>4, <3>1
    <3> QED
      BY <1>1, <3>1, <3>2
  <2> QED
    BY <2>1, <2>2
<1> QED
  BY <1>2, <1>3, <1>5 DEF Within

\* The newest event tells the status, unless it is a tool's, which tells nothing.
LEMMA ToldByNewest ==
  ASSUME NEW events, NEW e, NEW n \in Nat, e.at = n,
         \A x \in events : x.at \in Nat /\ x.at < n
  PROVE  /\ e.type # "tool" => Told(events \union {e}) = StatusAfter[e.type]
         /\ e.type = "tool" => Told(events \union {e}) = Told(events)
<1> DEFINE telling == {x \in events \union {e} : x.type # "tool"}
<1>1. ASSUME e.type # "tool"
      PROVE  Told(events \union {e}) = StatusAfter[e.type]
  <2>1. e \in telling /\ \A x \in telling : x.at <= e.at
    BY <1>1
  <2>2. \A x \in telling : x # e => ~ (e.at <= x.at)
    OBVIOUS
  <2>3. telling # {}
    BY <2>1
  <2> DEFINE newest == CHOOSE x \in telling : \A y \in telling : y.at <= x.at
  <2>4. newest \in telling /\ \A y \in telling : y.at <= newest.at
    <3> HIDE DEF telling
    <3> QED
      BY <2>1
  <2>5. newest = e
    <3> HIDE DEF telling, newest
    <3> QED
      BY <2>1, <2>2, <2>4
  <2>6. Told(events \union {e}) = IF telling = {} THEN "none" ELSE StatusAfter[newest.type]
    BY DEF Told
  <2> HIDE DEF telling, newest
  <2> QED
    BY <2>3, <2>5, <2>6
<1>2. ASSUME e.type = "tool"
      PROVE  Told(events \union {e}) = Told(events)
  <2> DEFINE before == {x \in events : x.type # "tool"}
             Says(S) == IF S = {} THEN "none"
                        ELSE StatusAfter[(CHOOSE x \in S : \A y \in S : y.at <= x.at).type]
  <2>1. telling = before
    BY <1>2
  <2>2. Told(events \union {e}) = Says(telling) /\ Told(events) = Says(before)
    BY DEF Told
  <2> HIDE DEF telling, before, Says
  <2> QED
    BY <2>1, <2>2
<1> QED
  BY <1>1, <1>2

\* Every call that appends an event takes the run to the status the event tells, by one
\* of the transitions; a tool's event leaves the status alone.
LEMMA CallStatus ==
  ASSUME IInv, NEW r \in RunIds,
         \/ Create(r) \/ Confirm(r) \/ Start(r) \/ Complete(r) \/ BlockAs(r) \/ Fail(r)
         \/ Resume(r) \/ ContinueWithIntent(r) \/ PrepareRevision(r) \/ AppendEvent(r)
  PROVE  LockFree /\ \E record \in Records, type \in EventTypes :
           /\ Append1(r, record, type)
           /\ IF type = "tool" THEN record.status = run[r].status
              ELSE record.status = StatusAfter[type] /\ record.status \in Follows(run[r].status)
<1> DEFINE Moves(record, type) ==
             IF type = "tool" THEN record.status = run[r].status
             ELSE record.status = StatusAfter[type] /\ record.status \in Follows(run[r].status)
           Called == LockFree /\ \E record \in Records, type \in EventTypes :
             Append1(r, record, type) /\ Moves(record, type)
<1>1. SUFFICES Called
  OBVIOUS
<1>2. run[r] \in Records \/ run[r] = NoRun
  BY DEF IInv, TypeOK
<1>3. {"received", "confirmed", "started", "completed", "blocked", "failed", "resumed",
       "selected", "revised", "tool"} \subseteq EventTypes
  BY DEF EventTypes, StatusAfter
<1>4. \A x \in Records :
        /\ Started(x).status = "RUNNING" /\ Resumed(x).status = "RUNNING"
        /\ [Failed(x) EXCEPT !.retryable = FALSE].status = "FAILED"
        /\ [x EXCEPT !.status = "CONFIRMED"].status = "CONFIRMED"
        /\ \A i : [Revised(x, i) EXCEPT !.retryable = FALSE].status = "CONFIRMED"
  BY DEF Records, Started, Resumed, Failed, Revised
<1>5. CASE Create(r)
  <2>1. \A mode \in {"discovery", "direct"} :
          [status |-> "AWAITING_CONFIRMATION", intent |-> mode,
           result |-> NoResult, retryable |-> FALSE] \in Records
    BY DEF Records, Statuses, Results
  <2>2. run[r].status = "none"
    BY <1>5 DEF Create, NoRun
  <2>3. \A record \in Records : record.status = "AWAITING_CONFIRMATION" => Moves(record, "received")
    BY <2>2 DEF StatusAfter, Follows
  <2> HIDE DEF Moves
  <2> QED
    BY <1>3, <1>5, <2>1, <2>3 DEF Create
<1>6. CASE Confirm(r)
  <2>1. run[r] \in Records /\ "CONFIRMED" \in Statuses
    BY <1>2, <1>6 DEF Confirm, NoRun, Statuses
  <2>2. [run[r] EXCEPT !.status = "CONFIRMED"] \in Records
    BY <2>1, RecordTypes
  <2>3. Moves([run[r] EXCEPT !.status = "CONFIRMED"], "confirmed")
    BY <1>4, <1>6, <2>1 DEF Confirm, StatusAfter, Follows
  <2> HIDE DEF Moves
  <2> QED
    BY <1>3, <1>6, <2>2, <2>3 DEF Confirm
<1>7. CASE Start(r)
  <2>0. run[r] \in Records
    BY <1>2, <1>7 DEF Start
  <2>1. run[r] \in Records /\ Started(run[r]) \in Records
    BY <2>0, RecordTypes
  <2>2. Moves(Started(run[r]), "started")
    BY <1>4, <1>7, <2>1 DEF Start, CanStart, Retryable, StatusAfter, Follows
  <2> HIDE DEF Moves
  <2> QED
    BY <1>3, <1>7, <2>1, <2>2 DEF Start
<1>8. CASE Complete(r)
  <2>1. run[r] \in Records /\ run[r].status = "RUNNING"
    BY <1>2, <1>8 DEF Complete, CanComplete, NoRun
  <2>2. \A y \in {Comparison, PlanFor("direct")} :
          Completed(run[r], y) \in Records /\ Moves(Completed(run[r], y), "completed")
    <3>1. \A y \in {Comparison, PlanFor("direct")} : Completed(run[r], y) \in Records
      BY <2>1, RecordTypes
    <3>2. \A y : Completed(run[r], y).status = "COMPLETED"
      BY <2>1 DEF Completed, CanComplete, Records
    <3> QED
      BY <2>1, <3>1, <3>2 DEF StatusAfter, Follows
  <2> HIDE DEF Moves
  <2> QED
    BY <1>3, <1>8, <2>2 DEF Complete
<1>9. CASE BlockAs(r)
  <2>1. run[r] \in Records /\ run[r].status = "RUNNING"
    BY <1>2, <1>9 DEF BlockAs, NoRun
  <2>2. \A again \in BOOLEAN :
          /\ [Blocked(run[r], Unfinished) EXCEPT !.retryable = again] \in Records
          /\ Moves([Blocked(run[r], Unfinished) EXCEPT !.retryable = again], "blocked")
    <3>1. \A again \in BOOLEAN :
            [Blocked(run[r], Unfinished) EXCEPT !.retryable = again] \in Records
      BY <2>1, RecordTypes
    <3>2. \A again : [Blocked(run[r], Unfinished) EXCEPT !.retryable = again].status = "BLOCKED"
      BY <2>1 DEF Blocked, Records
    <3> QED
      BY <2>1, <3>1, <3>2 DEF StatusAfter, Follows
  <2> HIDE DEF Moves
  <2> QED
    BY <1>3, <1>9, <2>2 DEF BlockAs
<1>10. CASE Fail(r)
  <2>0. run[r] \in Records
    BY <1>2, <1>10 DEF Fail, WasStarted, Ended, NoRun
  <2>1. run[r] \in Records /\ [Failed(run[r]) EXCEPT !.retryable = FALSE] \in Records
    BY <2>0, RecordTypes
  <2>2. Moves([Failed(run[r]) EXCEPT !.retryable = FALSE], "failed")
    BY <1>4, <1>10, <2>1 DEF Fail, WasStarted, Ended, StatusAfter, Follows
  <2> HIDE DEF Moves
  <2> QED
    BY <1>3, <1>10, <2>1, <2>2 DEF Fail
<1>11. CASE Resume(r)
  <2>0. run[r] \in Records
    BY <1>2, <1>11 DEF Resume, CanResume, NoRun
  <2>1. run[r] \in Records /\ Resumed(run[r]) \in Records
    BY <2>0, RecordTypes
  <2>2. Moves(Resumed(run[r]), "resumed")
    BY <1>4, <1>11, <2>1 DEF Resume, CanResume, StatusAfter, Follows
  <2> HIDE DEF Moves
  <2> QED
    BY <1>3, <1>11, <2>1, <2>2 DEF Resume
<1>12. CASE ContinueWithIntent(r)
  <2>1. run[r] \in Records
    BY <1>2, <1>12 DEF ContinueWithIntent
  <2>2. [Revised(run[r], "direct") EXCEPT !.retryable = FALSE] \in Records
    BY <2>1, RecordTypes
  <2>3. Moves([Revised(run[r], "direct") EXCEPT !.retryable = FALSE], "selected")
    BY <1>4, <1>12, <2>1 DEF ContinueWithIntent, Retryable, StatusAfter, Follows
  <2> HIDE DEF Moves
  <2> QED
    BY <1>3, <1>12, <2>2, <2>3 DEF ContinueWithIntent
<1>13. CASE PrepareRevision(r)
  <2>1. run[r] \in Records /\ run[r].intent \in {"discovery", "direct"}
    BY <1>2, <1>13 DEF PrepareRevision, Records
  <2>2. [Revised(run[r], run[r].intent) EXCEPT !.retryable = FALSE] \in Records
    BY <2>1, RecordTypes
  <2>3. Moves([Revised(run[r], run[r].intent) EXCEPT !.retryable = FALSE], "revised")
    BY <1>4, <1>13, <2>1 DEF PrepareRevision, CanRevise, StatusAfter, Follows
  <2> HIDE DEF Moves
  <2> QED
    BY <1>3, <1>13, <2>2, <2>3 DEF PrepareRevision
<1>14. CASE AppendEvent(r)
  <2>1. run[r] \in Records
    BY <1>2, <1>14 DEF AppendEvent, WasStarted, Ended, NoRun
  <2>2. Moves(run[r], "tool")
    OBVIOUS
  <2> HIDE DEF Moves
  <2> QED
    BY <1>3, <1>14, <2>1, <2>2 DEF AppendEvent
<1> HIDE DEF Called
<1> QED
  BY <1>5, <1>6, <1>7, <1>8, <1>9, <1>10, <1>11, <1>12, <1>13, <1>14

\* The status of what is on record has a name.
LEMMA StatusIsTyped ==
  ASSUME IInv, NEW r \in RunIds
  PROVE  /\ run[r].status \in Statuses \union {"none"}
         /\ disk.run[r].status \in Statuses \union {"none"}
<1>1. run[r] \in Records \union {NoRun} /\ disk.run[r] \in Records \union {NoRun}
  BY DEF IInv, TypeOK
<1> QED
  BY <1>1 DEF Records, NoRun

\* Appending an event.
LEMMA GapCall ==
  ASSUME IInv, Gap, NEW r \in RunIds,
         \/ Create(r) \/ Confirm(r) \/ Start(r) \/ Complete(r) \/ BlockAs(r) \/ Fail(r)
         \/ Resume(r) \/ ContinueWithIntent(r) \/ PrepareRevision(r) \/ AppendEvent(r)
  PROVE  Gap'
<1>1. PICK record \in Records, type \in EventTypes :
        /\ Append1(r, record, type)
        /\ IF type = "tool" THEN record.status = run[r].status
           ELSE record.status = StatusAfter[type] /\ record.status \in Follows(run[r].status)
  BY CallStatus
<1>2. LockFree
  BY CallStatus
<1> DEFINE new == [at |-> sequence + 1, run |-> r, type |-> type]
<1>3. /\ run' = [run EXCEPT ![r] = record] /\ log' = log \union {new}
      /\ op' = [run |-> r, writes |-> <<"session", "run", "log">>]
      /\ UNCHANGED <<up, disk, crashes>>
  BY <1>1 DEF Append1, Writes
<1>4. /\ run \in [RunIds -> Records \union {NoRun}] /\ crashes \in Nat /\ sequence \in Nat
      /\ \A e \in log : e.at \in Nat /\ e.at <= sequence
  BY BoundsAssumption DEF IInv, TypeOK, Events
<1>5. up = "up" /\ op = NoOp
  BY <1>2 DEF LockFree
<1> SUFFICES ASSUME NEW s \in RunIds
      PROVE  /\ Within(Told(disk.log[s]), disk.run[s].status, crashes)
             /\ Within(Told(EventsOf(log', s)), run'[s].status, crashes)
             /\ s = r => \/ run'[s].status = disk.run[s].status
                         \/ run'[s].status \in Follows(disk.run[s].status)
  BY <1>3 DEF Gap
<1>6. /\ Within(Told(disk.log[s]), disk.run[s].status, crashes)
      /\ Within(Told(EventsOf(log, s)), run[s].status, crashes)
  BY <1>5, NobodyAssumption DEF Gap, NoOp
<1>7. CASE s # r
  <2>1. EventsOf(log', s) = EventsOf(log, s) /\ run'[s] = run[s]
    BY <1>3, <1>4, <1>7 DEF EventsOf
  <2> QED
    BY <1>6, <1>7, <2>1
<1>8. CASE s = r
  <2>1. EventsOf(log', r) = EventsOf(log, r) \union {new} /\ run'[r] = record
    BY <1>3, <1>4 DEF EventsOf
  <2>2. new.at = sequence + 1 /\ new.type = type
    OBVIOUS
  <2>3. \A x \in EventsOf(log, r) : x.at \in Nat /\ x.at < sequence + 1
    BY <1>4 DEF EventsOf
  <2>4. disk.run[r] = run[r]
    BY <1>2, QuietFiles
  <2> HIDE DEF new
  <2>5. /\ type # "tool" => Told(EventsOf(log', r)) = StatusAfter[type]
        /\ type = "tool" => Told(EventsOf(log', r)) = Told(EventsOf(log, r))
    BY <1>4, <2>1, <2>2, <2>3, ToldByNewest
  <2>6. CASE type = "tool"
    BY <1>1, <1>6, <1>8, <2>1, <2>4, <2>5, <2>6
  <2>7. CASE type # "tool"
    <3>1. record.status \in Statuses \union {"none"}
      BY DEF Records
    <3>2. Within(record.status, record.status, crashes)
      BY <1>4, <3>1, WithinSelf
    <3> QED
      BY <1>1, <1>6, <1>8, <2>1, <2>4, <2>5, <2>7, <3>2
  <2> QED
    BY <2>6, <2>7
<1> QED
  BY <1>7, <1>8

\* record_result leaves the status alone.
LEMMA GapRecord ==
  ASSUME IInv, Gap, NEW r \in RunIds, RecordResult(r)
  PROVE  Gap'
<1>1. /\ LockFree /\ run[r] \in Records
      /\ run' = [run EXCEPT ![r] = Recorded(run[r], Unfinished)]
      /\ op' = [run |-> r, writes |-> <<"session", "run", "log">>]
      /\ UNCHANGED <<up, log, disk, crashes>>
  BY DEF RecordResult, Writes, IInv, TypeOK, WasStarted, NoRun, Ended
<1>2. \A s \in RunIds : run'[s].status = run[s].status
  BY <1>1 DEF IInv, TypeOK, Recorded, Records
<1>3. disk.run[r] = run[r]
  BY <1>1, QuietFiles
<1>4. up = "up" /\ op = NoOp /\ op.run \notin RunIds
  BY <1>1, NobodyAssumption DEF LockFree, NoOp
<1> QED
  BY <1>1, <1>2, <1>3, <1>4 DEF Gap, EventsOf

\* Writing a file: the record gets ahead with run.json and the events follow with theirs.
LEMMA GapWrite ==
  ASSUME IInv, Gap, Write
  PROVE  Gap'
<1> DEFINE r == op.run
<1>1. up = "up" /\ r \in RunIds /\ UNCHANGED <<up, run, log, crashes>>
  BY WriteCases DEF Write, memory
<1>2. crashes \in Nat
  BY DEF IInv, TypeOK
<1>3. \A s \in RunIds : s # r =>
        /\ Within(Told(disk.log[s]), disk.run[s].status, crashes)
        /\ Within(Told(EventsOf(log, s)), run[s].status, crashes)
  BY <1>1 DEF Gap
<1>4. Within(Told(EventsOf(log, r)), run[r].status, crashes)
  BY <1>1 DEF Gap
<1>5. CASE /\ op.writes = <<"session", "run", "log">>
           /\ disk' = [disk EXCEPT !.session = @ \union {op.run}]
           /\ op' = [run |-> op.run, writes |-> <<"run", "log">>]
           /\ answered' = answered
  <2>1. disk'.run = disk.run /\ disk'.log = disk.log
    BY <1>5 DEF IInv, TypeOK
  <2>2. op'.run = r /\ op'.writes # <<"log">> /\ op.writes # <<"log">>
    BY <1>5
  <2> QED
    BY <1>1, <2>1, <2>2 DEF Gap, EventsOf
<1>6. CASE /\ op.writes = <<"run", "log">>
           /\ disk' = [disk EXCEPT !.run[op.run] = run[op.run]]
           /\ op' = [run |-> op.run, writes |-> <<"log">>]
           /\ answered' = answered
  <2>1. disk'.run = [disk.run EXCEPT ![r] = run[r]] /\ disk'.log = disk.log
    BY <1>6 DEF IInv, TypeOK
  <2>2. disk'.run[r] = run[r] /\ \A s \in RunIds : s # r => disk'.run[s] = disk.run[s]
    BY <1>1, <2>1 DEF IInv, TypeOK
  <2>3. op'.run = r /\ op'.writes = <<"log">> /\ op.writes # <<"log">>
    BY <1>6
  <2>4. /\ Within(Told(disk.log[r]), disk.run[r].status, crashes)
        /\ run[r].status = disk.run[r].status \/ run[r].status \in Follows(disk.run[r].status)
    BY <1>1, <2>3 DEF Gap
  <2>5. Within(Told(disk.log[r]), run[r].status, crashes + 1)
    BY <1>1, <1>2, <2>4, StatusIsTyped, WithinNext
  <2> HIDE DEF r
  <2> QED
    BY <1>1, <1>3, <1>4, <2>1, <2>2, <2>3, <2>5 DEF Gap, EventsOf
<1>7. CASE /\ op.writes = <<"log">>
           /\ disk' = [disk EXCEPT !.log[op.run] = EventsOf(log, op.run)]
           /\ op' = NoOp
           /\ answered' = [answered EXCEPT ![op.run] = run[op.run]]
  <2>1. disk'.log = [disk.log EXCEPT ![r] = EventsOf(log, r)] /\ disk'.run = disk.run
    BY <1>7 DEF IInv, TypeOK
  <2>2. disk'.log[r] = EventsOf(log, r) /\ \A s \in RunIds : s # r => disk'.log[s] = disk.log[s]
    BY <1>1, <2>1 DEF IInv, TypeOK
  <2>3. op'.run \notin RunIds
    BY <1>7, NobodyAssumption DEF NoOp
  <2>4. disk.run[r] = run[r]
    BY <1>1, <1>7 DEF IInv, FilesOK
  <2> HIDE DEF r
  <2> QED
    BY <1>1, <1>3, <1>4, <2>1, <2>2, <2>3, <2>4 DEF Gap, EventsOf
<1> QED
  BY WriteCases, <1>5, <1>6, <1>7

\* A crash keeps what is on file, and counts.
LEMMA GapCrash ==
  ASSUME IInv, Gap, Crash
  PROVE  Gap'
<1>1. up' = "down" /\ op' = NoOp /\ disk' = disk /\ crashes' = crashes + 1 /\ crashes \in Nat
  BY DEF Crash, IInv, TypeOK
<1> SUFFICES ASSUME NEW r \in RunIds
      PROVE  Within(Told(disk.log[r]), disk.run[r].status, crashes + 1)
  BY <1>1, NobodyAssumption DEF Gap, NoOp
<1>2. CASE op.run = r /\ op.writes = <<"log">>
  BY <1>2 DEF Gap
<1>3. CASE ~ (op.run = r /\ op.writes = <<"log">>)
  <2>1. Within(Told(disk.log[r]), disk.run[r].status, crashes)
    BY <1>3 DEF Gap
  <2> QED
    BY <1>1, <2>1, StatusIsTyped, WithinNext
<1> QED
  BY <1>2, <1>3

\* What is loaded is what is on file.
LEMMA GapLoad ==
  ASSUME IInv, Gap, Load
  PROVE  Gap'
<1>1. up = "down" /\ op = NoOp /\ UNCHANGED <<op, disk, crashes>>
  BY DEF Load, IInv, CrashedOK
<1>2. op.run \notin RunIds /\ op'.run \notin RunIds
  BY <1>1, NobodyAssumption DEF NoOp
<1>3. \A r \in RunIds : Within(Told(disk.log[r]), disk.run[r].status, crashes)
  BY <1>2 DEF Gap
<1>4. CASE \A r \in RunIds : Loadable(r)
  <2>1. run' = disk.run /\ log' = UNION {disk.log[r] : r \in RunIds}
    BY <1>4 DEF Load
  <2>2. \A r \in RunIds : EventsOf(log', r) = disk.log[r]
    BY <2>1 DEF EventsOf, IInv, NumbersOK
  <2> QED
    BY <1>1, <1>2, <1>3, <2>1, <2>2 DEF Gap
<1>5. CASE ~ \A r \in RunIds : Loadable(r)
  <2>1. up' = "refused"
    BY <1>5 DEF Load
  <2> QED
    BY <1>1, <1>2, <1>3, <2>1 DEF Gap
<1> QED
  BY <1>4, <1>5

\* Every other step leaves the runs and the files alone.
LEMMA GapStep ==
  ASSUME IInv, Gap, [Next]_vars
  PROVE  Gap'
<1>1. CASE StoreCall
  BY <1>1, GapCall, GapRecord, GapWrite DEF StoreCall
<1>2. CASE Crash
  BY <1>2, GapCrash
<1>3. CASE Load
  BY <1>3, GapLoad
<1>4. CASE UNCHANGED <<up, run, log, op, disk, crashes>>
  BY <1>4 DEF Gap, EventsOf
<1>5. ASSUME NEW i \in Installers, Install(i) \/ WriteVersion(i) \/ WriteCurrent(i)
      PROVE  UNCHANGED <<up, run, log, op, disk, crashes>>
  BY <1>5 DEF Install, WriteVersion, WriteCurrent, memory
<1>6. ASSUME NEW r \in Watched, Stream(r) \/ Drop(r)
      PROVE  UNCHANGED <<up, run, log, op, disk, crashes>>
  BY <1>6 DEF Stream, WaitForEvents, Send, Drop, memory
<1>7. CASE UNCHANGED vars
  BY <1>4, <1>7 DEF vars
<1> QED
  BY <1>1, <1>2, <1>3, <1>4, <1>5, <1>6, <1>7 DEF Next

\* A run is never behind what its events tell, nor ahead of them by more transitions than
\* the process crashed, each of them one that store calls make: for any runs, events and
\* crashes, however the calls and the writing of their files fall between them.
THEOREM RecordFollows == Spec => []RecordFollowsLog
<1>1. Init => Gap
  <2> SUFFICES ASSUME Init PROVE Gap
    OBVIOUS
  <2>1. /\ \A r \in RunIds : /\ run[r] = NoRun /\ disk.run[r] = NoRun
                             /\ disk.log[r] = {} /\ EventsOf(log, r) = {}
        /\ op.run \notin RunIds /\ crashes = 0
    BY NobodyAssumption DEF Init, NoOp, EventsOf
  <2>2. Told({}) = "none" /\ NoRun.status = "none"
    BY DEF Told, NoRun
  <2>3. Within("none", "none", 0)
    BY WithinSelf
  <2> QED
    BY <2>1, <2>2, <2>3 DEF Gap
<1>2. IInv /\ Gap /\ [Next]_vars => Gap'
  BY GapStep
<1>3. Gap => RecordFollowsLog
  BY DEF Gap, RecordFollowsLog, LockFree
<1> QED
  BY <1>1, <1>2, <1>3, SpecInv, PTL DEF Spec
=============================================================================
