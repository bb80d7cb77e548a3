------------------------------ MODULE AgentStore ------------------------------
(* InMemoryAgentStore (travel_agent.py): the runs of the service with their events, *)
(* the files behind them, and who reads them.  A store call holds the store's lock   *)
(* while it changes the run and its events and then writes session.json, run.json    *)
(* and events.jsonl, one after another; a crash may fall between any two writes.     *)
(* Plan versions are written without that lock.  Event streams (product_web.py) read *)
(* the events, then the run.                                                         *)
(* Every run has a session of its own: nothing calls create() with a session.        *)
EXTENDS Integers, Sequences, FiniteSets, FiniteSetsExt

CONSTANTS
    RunIds,
    Watched,      \* the runs somebody streams the events of
    Installers,   \* threads that install plan versions
    MaxSequence,  \* bound on the events
    MaxPlans,     \* bound on the plans made
    MaxFaults     \* bound on the crashes of the process and the connections that break

ASSUME NobodyAssumption == "nobody" \notin RunIds   \* run of a call there is not
ASSUME WatchedAssumption == Watched \subseteq RunIds
ASSUME BoundsAssumption ==
    /\ MaxSequence \in Nat /\ MaxPlans \in Nat /\ MaxFaults \in Nat

INSTANCE RunRecord WITH Intents <- {"discovery", "direct"}

VARIABLES
    up,        \* the process: "up", "down", or "refused" if it could not load
    run,       \* _runs
    log,       \* _events, all sessions together; an event's place is its number
    sequence,  \* _sequence
    op,        \* the store call that holds the lock: its run and the writes it has left
    disk,      \* the session, run and event files by run
    install,   \* the threads inside persist_plan_version
    plans,     \* plans/plan-NNNN.json by run
    current,   \* plan-version.json by run
    made,      \* how many plans were made
    stream,    \* the event streams by run
    seen,      \* history: the events a stream's client was sent
    answered,  \* history: the record of each run when its last call returned
    crashes, drops
vars == <<up, run, log, sequence, op, disk, install, plans, current, made, stream, seen,
          answered, crashes, drops>>
memory == <<run, log, sequence>>
planning == <<install, plans, current, made>>
reading == <<stream, seen, drops>>

NoRun == [status |-> "none"]
\* A run record with the code it was blocked with, reduced to whether it is retryable.
Records == [status : Statuses, intent : {"discovery", "direct"}, result : Results,
            retryable : BOOLEAN]

\* What the events of a run say of its status; a tool event says nothing.
StatusAfter ==
    [received |-> "AWAITING_CONFIRMATION", confirmed |-> "CONFIRMED",
     started |-> "RUNNING", completed |-> "COMPLETED", blocked |-> "BLOCKED",
     failed |-> "FAILED", resumed |-> "RUNNING", selected |-> "CONFIRMED",
     revised |-> "CONFIRMED", tool |-> "none"]
EventTypes == DOMAIN StatusAfter
Events == [at : 1 .. MaxSequence, run : RunIds, type : EventTypes]
\* Statuses that end a stream.
Ended == {"COMPLETED", "FAILED", "BLOCKED"}

NoOp == [run |-> "nobody", writes |-> <<>>]
LockFree == up = "up" /\ op = NoOp
EventsOf(events, r) == {e \in events : e.run = r}

-----------------------------------------------------------------------------
(* Store calls.                                                                   *)

\* Mutant: the events are written before the run.
WritesLogFirst == <<"session", "log", "run">>
\* Mutant: the record of the run is written with the next call.
WritesLate == <<"session", "log">>

\* _persist_unlocked
Writes == <<"session", "run", "log">>

\* _append_unlocked: the changed record, an event of its own, and the files.
Append1(r, record, type) ==
    /\ sequence < MaxSequence
    /\ run' = [run EXCEPT ![r] = record]
    /\ sequence' = sequence + 1
    /\ log' = log \union {[at |-> sequence + 1, run |-> r, type |-> type]}
    /\ op' = [run |-> r, writes |-> Writes]
    /\ UNCHANGED <<up, disk, planning, reading, answered, crashes>>

Create(r) ==
    /\ LockFree /\ run[r] = NoRun
    /\ \E mode \in {"discovery", "direct"} :
        Append1(r, [status |-> "AWAITING_CONFIRMATION", intent |-> mode,
                    result |-> NoResult, retryable |-> FALSE], "received")

Confirm(r) ==
    /\ LockFree /\ run[r].status = "AWAITING_CONFIRMATION"
    /\ Append1(r, [run[r] EXCEPT !.status = "CONFIRMED"], "confirmed")

\* _is_retryable_comparison_block
Retryable(record) ==
    record.status = "BLOCKED" /\ record.retryable /\ record.intent = "discovery"

Start(r) ==
    /\ LockFree /\ run[r] # NoRun
    /\ CanStart(run[r]) \/ Retryable(run[r])
    /\ Append1(r, Started(run[r]), "started")

Complete(r) ==
    /\ LockFree /\ CanComplete(run[r])
    /\ Append1(r, Completed(run[r], IF run[r].intent = "discovery" THEN Comparison
                                    ELSE PlanFor("direct")), "completed")

BlockAs(r) ==
    /\ LockFree /\ run[r].status = "RUNNING"
    /\ \E again \in IF run[r].intent = "discovery" THEN BOOLEAN ELSE {FALSE} :
        Append1(r, [Blocked(run[r], Unfinished) EXCEPT !.retryable = again], "blocked")

\* Whether a run has been started: only then tools report on it, or it fails.
WasStarted(record) ==
    \/ record.status \in {"RUNNING"} \union Ended
    \/ record.status = "CONFIRMED" /\ record.result # NoResult

Fail(r) ==
    /\ LockFree /\ WasStarted(run[r])
    /\ Append1(r, [Failed(run[r]) EXCEPT !.retryable = FALSE], "failed")

Resume(r) ==
    /\ LockFree /\ CanResume(run[r])
    /\ Append1(r, Resumed(run[r]), "resumed")

ContinueWithIntent(r) ==
    /\ LockFree /\ run[r] # NoRun
    /\ run[r].status = "COMPLETED" \/ Retryable(run[r])
    /\ Append1(r, [Revised(run[r], "direct") EXCEPT !.retryable = FALSE], "selected")

PrepareRevision(r) ==
    /\ LockFree /\ run[r] # NoRun
    /\ CanRevise(run[r])
    /\ Append1(r, [Revised(run[r], run[r].intent) EXCEPT !.retryable = FALSE], "revised")

\* append_event, for what the tools report.
AppendEvent(r) ==
    /\ LockFree /\ WasStarted(run[r])
    /\ Append1(r, run[r], "tool")

\* record_result writes the files without an event.
RecordResult(r) ==
    /\ LockFree /\ WasStarted(run[r]) /\ run[r].intent = "direct"
    /\ run' = [run EXCEPT ![r] = Recorded(run[r], Unfinished)]
    /\ op' = [run |-> r, writes |-> Writes]
    /\ UNCHANGED <<up, log, sequence, disk, planning, reading, answered, crashes>>

\* Each file is replaced as a whole; with the last one the call returns.
Write ==
    /\ up = "up" /\ op # NoOp
    /\ LET r == op.run
           file == Head(op.writes)
           done == Len(op.writes) = 1
       IN  /\ disk' = CASE file = "session" -> [disk EXCEPT !.session = @ \union {r}]
                        [] file = "run" -> [disk EXCEPT !.run[r] = run[r]]
                        [] OTHER -> [disk EXCEPT !.log[r] = EventsOf(log, r)]
           /\ op' = IF done THEN NoOp ELSE [op EXCEPT !.writes = Tail(@)]
           /\ answered' = IF done THEN [answered EXCEPT ![r] = run[r]] ELSE answered
    /\ UNCHANGED <<up, memory, planning, reading, crashes>>

StoreCall ==
    \/ Write
    \/ \E r \in RunIds :
        \/ Create(r) \/ Confirm(r) \/ Start(r) \/ Complete(r) \/ BlockAs(r) \/ Fail(r)
        \/ Resume(r) \/ ContinueWithIntent(r) \/ PrepareRevision(r) \/ AppendEvent(r)
        \/ RecordResult(r)

-----------------------------------------------------------------------------
(* Crashes and the loading of the files.                                          *)

NotInstalling == [phase |-> "idle", run |-> "nobody", number |-> 0, plan |-> 0]
NotSent == [waited |-> FALSE, cursor |-> 0, batch |-> {}]

Crash ==
    /\ up = "up" /\ crashes + drops < MaxFaults
    /\ up' = "down"
    /\ run' = [r \in RunIds |-> NoRun] /\ log' = {} /\ sequence' = 0
    /\ op' = NoOp
    /\ install' = [i \in Installers |-> NotInstalling]
    /\ stream' = [r \in Watched |-> [stream[r] EXCEPT !.waited = FALSE, !.batch = {}]]
    /\ crashes' = crashes + 1
    /\ UNCHANGED <<disk, plans, current, made, seen, answered, drops>>

\* A directory with only one of session.json and run.json stops the loading.
Loadable(r) == (r \in disk.session) = (disk.run[r] # NoRun)

LastNumber(events) == Max({0} \union {e.at : e \in events})

\* _load_runtime.  What it finds is what the calls to come see.
Load ==
    /\ up = "down"
    /\ IF \A r \in RunIds : Loadable(r)
       THEN LET events == UNION {disk.log[r] : r \in RunIds}
            IN  /\ up' = "up" /\ run' = disk.run /\ log' = events
                /\ sequence' = LastNumber(events)
                /\ answered' = disk.run
       ELSE up' = "refused" /\ UNCHANGED <<memory, answered>>
    /\ UNCHANGED <<op, disk, planning, reading, crashes>>

-----------------------------------------------------------------------------
(* Plan versions.                                                                 *)

\* Mutant: the number after that of plan-version.json.
NextNumberOfCurrent(r) == current[r].number + 1

NextNumber(r) == Len(plans[r]) + 1

\* Both callers have started the run.
Install(i) ==
    /\ up = "up" /\ install[i].phase = "idle" /\ made < MaxPlans
    /\ \E r \in RunIds :
        /\ run[r].status = "RUNNING"
        /\ made' = made + 1
        /\ install' = [install EXCEPT ![i] = [phase |-> "counted", run |-> r,
                            number |-> NextNumber(r), plan |-> made + 1]]
    /\ UNCHANGED <<up, memory, op, disk, plans, current, reading, answered, crashes>>

WriteVersion(i) ==
    /\ up = "up" /\ install[i].phase = "counted"
    /\ LET x == install[i]
       IN  plans' = [plans EXCEPT ![x.run] =
                        IF x.number \in DOMAIN @ THEN [@ EXCEPT ![x.number] = x.plan]
                        ELSE Append(@, x.plan)]
    /\ install' = [install EXCEPT ![i].phase = "kept"]
    /\ UNCHANGED <<up, memory, op, disk, current, made, reading, answered, crashes>>

WriteCurrent(i) ==
    /\ up = "up" /\ install[i].phase = "kept"
    /\ LET x == install[i]
       IN  current' = [current EXCEPT ![x.run] = [number |-> x.number, plan |-> x.plan]]
    /\ install' = [install EXCEPT ![i] = NotInstalling]
    /\ UNCHANGED <<up, memory, op, disk, plans, made, reading, answered, crashes>>

-----------------------------------------------------------------------------
(* Event streams.  A stream whose connection broke, whose half minute is over or    *)
(* whose run has ended is closed; the client connects again with the number of the   *)
(* last event it was sent, so that every wait starts from the cursor.                *)

\* wait_for_events returns what is there, or nothing after a while.
WaitForEvents(r) ==
    /\ LockFree /\ run[r] # NoRun /\ ~stream[r].waited
    /\ stream' = [stream EXCEPT ![r].waited = TRUE,
                    ![r].batch = {e \in EventsOf(log, r) : e.at > stream[r].cursor}]
    /\ UNCHANGED <<up, memory, op, disk, planning, seen, answered, crashes, drops>>

\* The part of a batch that was sent; the cursor is that of the last event in it.
Sent(r, part) ==
    /\ seen' = [seen EXCEPT ![r] = @ \union part]
    /\ stream' = [stream EXCEPT ![r] =
            [waited |-> FALSE, batch |-> {},
             cursor |-> LastNumber(part \union {[at |-> stream[r].cursor]})]]

\* Mutant: the cursor moves to the newest event there is.
SendToEnd(r) ==
    /\ LockFree /\ stream[r].waited
    /\ seen' = [seen EXCEPT ![r] = @ \union stream[r].batch]
    /\ stream' = [stream EXCEPT ![r] =
            [waited |-> FALSE, batch |-> {}, cursor |-> LastNumber(EventsOf(log, r))]]
    /\ UNCHANGED <<up, memory, op, disk, planning, answered, crashes, drops>>

\* Mutant: a stream whose run has ended is closed at once.
SendUnlessEnded(r) ==
    /\ LockFree /\ stream[r].waited
    /\ Sent(r, IF run[r].status \in Ended THEN {} ELSE stream[r].batch)
    /\ UNCHANGED <<up, memory, op, disk, planning, answered, crashes, drops>>

\* The run is read after the events, for whether it has ended.
Send(r) ==
    /\ LockFree /\ stream[r].waited
    /\ Sent(r, stream[r].batch)
    /\ UNCHANGED <<up, memory, op, disk, planning, answered, crashes, drops>>

\* The connection breaks after a part of the batch.
Drop(r) ==
    /\ stream[r].waited /\ crashes + drops < MaxFaults
    /\ \E e \in stream[r].batch : Sent(r, {x \in stream[r].batch : x.at < e.at})
    /\ drops' = drops + 1
    /\ UNCHANGED <<up, memory, op, disk, planning, answered, crashes>>

Stream(r) == WaitForEvents(r) \/ Send(r)

-----------------------------------------------------------------------------
Init ==
    /\ up = "up"
    /\ run = [r \in RunIds |-> NoRun] /\ log = {} /\ sequence = 0
    /\ op = NoOp
    /\ disk = [session |-> {}, run |-> run, log |-> [r \in RunIds |-> {}]]
    /\ install = [i \in Installers |-> NotInstalling]
    /\ plans = [r \in RunIds |-> <<>>]
    /\ current = [r \in RunIds |-> [number |-> 0, plan |-> 0]]
    /\ made = 0
    /\ stream = [r \in Watched |-> NotSent]
    /\ seen = [r \in Watched |-> {}]
    /\ answered = run
    /\ crashes = 0 /\ drops = 0

Next ==
    \/ StoreCall \/ Crash \/ Load
    \/ \E i \in Installers : Install(i) \/ WriteVersion(i) \/ WriteCurrent(i)
    \/ \E r \in Watched : Stream(r) \/ Drop(r)

\* Files are written, a process that died is started again, and a stream that waits
\* for the lock gets it, however often others do.
Fairness ==
    /\ WF_vars(Write) /\ WF_vars(Load)
    /\ \A r \in Watched : SF_vars(Stream(r))
Spec == Init /\ [][Next]_vars /\ Fairness

-----------------------------------------------------------------------------
(* Properties.                                                                    *)

\* Type correctness.
TypeOK ==
    /\ up \in {"up", "down", "refused"}
    /\ run \in [RunIds -> Records \union {NoRun}]
    /\ log \subseteq Events
    /\ sequence \in 0 .. MaxSequence
    /\ \A e, x \in log : e.at <= sequence /\ (e.at = x.at => e = x)
    /\ op \in [run : RunIds, writes : {<<"session", "run", "log">>, <<"run", "log">>, <<"log">>}]
                \union {NoOp}
    /\ disk \in [session : SUBSET RunIds, run : [RunIds -> Records \union {NoRun}],
                 log : [RunIds -> SUBSET Events]]
    /\ install \in [Installers -> [phase : {"idle", "counted", "kept"},
                        run : RunIds \union {"nobody"}, number : Nat, plan : 0 .. MaxPlans]]
    /\ plans \in [RunIds -> Seq(1 .. MaxPlans)]
    /\ current \in [RunIds -> [number : Nat, plan : 0 .. MaxPlans]]
    /\ made \in 0 .. MaxPlans
    /\ stream \in [Watched -> [waited : BOOLEAN, cursor : 0 .. MaxSequence,
                          batch : SUBSET Events]]
    /\ seen \in [Watched -> SUBSET Events]
    /\ answered \in [RunIds -> Records \union {NoRun}]
    /\ crashes \in Nat /\ drops \in Nat /\ crashes + drops <= MaxFaults

\* A client that connects again and again is sent every event of its run exactly as it
\* stays on record, and none twice: across crashes what it was sent is what the log
\* holds up to its cursor, although an event lost in a crash gives its number to another.
StreamsAreWhole ==
    up = "up" => \A r \in Watched :
        seen[r] = {e \in EventsOf(log, r) : e.at <= stream[r].cursor}

\* What the last event with a status says of a run.
Told(events) ==
    LET telling == {e \in events : e.type # "tool"}
    IN  IF telling = {} THEN "none"
        ELSE StatusAfter[(CHOOSE e \in telling : \A x \in telling : x.at <= e.at).type]

\* The transitions of a status that store calls make.
Follows(s) ==
    CASE s = "none" -> {"AWAITING_CONFIRMATION"}
      [] s = "AWAITING_CONFIRMATION" -> {"CONFIRMED"}
      [] s = "CONFIRMED" -> {"RUNNING", "FAILED"}
      [] s = "RUNNING" -> {"COMPLETED", "BLOCKED", "FAILED"}
      [] s \in {"COMPLETED", "BLOCKED"} -> {"RUNNING", "CONFIRMED", "FAILED"}
      [] OTHER -> {"CONFIRMED", "FAILED"}

\* Status t is s or comes after s by at most n transitions.
Within(s, t, n) ==
    \E path \in [0 .. n -> Statuses \union {"none"}] :
        /\ path[0] = s /\ path[n] = t
        /\ \A k \in 1 .. n : path[k] = path[k - 1] \/ path[k] \in Follows(path[k - 1])

\* A run is never behind what its events tell, and ahead of them by one transition for
\* each crash between run.json and events.jsonl: no crash makes it fall behind, and none
\* of the calls made after a crash takes it where the lost events could not have.
RecordFollowsLog ==
    LockFree => \A r \in RunIds : Within(Told(EventsOf(log, r)), run[r].status, crashes)

\* What a store call that has returned did is on file, and so is every event anybody
\* could read: a crash takes back nothing that was answered or told.  The service
\* refuses to start again only because of a run nobody was told the id of.
AnsweredIsWritten ==
    /\ up = "up" => \A r \in RunIds : op.run # r =>
        disk.run[r] = answered[r] /\ run[r] = answered[r] /\ disk.log[r] = EventsOf(log, r)
    /\ up = "refused" => \E r \in RunIds :
        answered[r] = NoRun /\ r \in disk.session /\ disk.run[r] = NoRun

\* A kept plan version is never written again, whatever crash separated it from
\* plan-version.json, as long as one thread at a time installs.
VersionsStay ==
    [][\A r \in RunIds : \A n \in DOMAIN plans[r] :
        n \in DOMAIN plans'[r] /\ plans'[r][n] = plans[r][n]]_vars

\* Every event of a run reaches a client that keeps connecting, unless a crash took the
\* event or the service cannot start.
EventsAreTold ==
    \A r \in Watched : <>[](up # "up" \/ seen[r] = EventsOf(log, r))
=============================================================================
