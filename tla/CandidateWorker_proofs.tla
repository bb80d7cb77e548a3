----------------------- MODULE CandidateWorker_proofs -----------------------
(***************************************************************************)
(* Type correctness of CandidateWorker, that no two threads compare         *)
(* candidates for the same run, and that shown options are backed and stay, *)
(* for every set of threads and every number of starts and crashes.         *)
(***************************************************************************)
EXTENDS CandidateWorker, TLAPS

\* One step of a tool call or of a worker keeps the types of the step counters.
LEMMA StepTypes ==
  ASSUME TypeOK
  PROVE  /\ \A c \in Callers, from, to \in CallerSteps :
              CallerGoes(c, from, to) => caller' \in [Callers -> CallerSteps]
         /\ \A t \in Workers, from, to \in WorkerSteps :
              WorkerGoes(t, from, to) => worker' \in [Workers -> WorkerSteps]
  BY DEF TypeOK, CallerGoes, WorkerGoes

\* The results of the phase and the transitions of the record it uses.
LEMMA RecordTypes ==
  ASSUME TypeOK
  PROVE  LET Records == [status : Statuses \ {"AWAITING_CONFIRMATION"},
                         intent : {"discovery", "direct"}, code : Codes,
                         result : PhaseResults]
         IN  /\ Started(run) \in Records
             /\ [run EXCEPT !.status = "CONFIRMED", !.intent = "direct",
                            !.code = "none"] \in Records
             /\ \A i \in {"discovery", "direct"} :
                   [Revised(run, i) EXCEPT !.code = "none"] \in Records
             /\ [Failed(run) EXCEPT !.code = "REVISION_EXECUTION_FAILED"] \in Records
             /\ \A r \in PhaseResults : Completed(run, r) \in Records
             /\ \A r \in PhaseResults, code \in Codes : BlockedWith(r, code) \in Records
  BY DEF TypeOK, Started, Completed, CanComplete, Blocked, BlockedWith, Codes, Statuses,
         Revised, Failed

\* Tool calls keep the types.
LEMMA CallerType ==
  ASSUME TypeOK, NEW c \in Callers, Ask(c) \/ Call(c) PROVE TypeOK'
<1> USE DEF TypeOK, bounds, threads
<1> USE StepTypes, RecordTypes
<1>1. CASE Poll(c)
  BY <1>1 DEF Poll, CallerSteps
<1>2. CASE LookForWorker(c)
  BY <1>2 DEF LookForWorker, CallerSteps
<1>3. CASE SettleLost(c)
  BY <1>3 DEF SettleLost, CallerSteps, PhaseResults, Codes
<1>4. CASE SetOut(c)
  BY <1>4, MaxStartsAssumption DEF SetOut, CallerSteps
<1>5. CASE Start(c)
  BY <1>5 DEF Start, CallerSteps
<1>6. CASE Register(c)
  BY <1>6 DEF Register, CallerSteps
<1>7. ASSUME NEW t \in Workers, Spawn(c, t) PROVE TypeOK'
  BY <1>7 DEF Spawn, CallerSteps, WorkerSteps
<1>8. CASE SpawnFails(c)
  BY <1>8 DEF SpawnFails, CallerSteps
<1>9. CASE Choose(c)
  BY <1>9 DEF Choose, CallerSteps
<1>10. CASE Continue(c)
  BY <1>10 DEF Continue, CallerSteps
<1>11. CASE StartSelected(c)
  BY <1>11 DEF StartSelected, CallerSteps
<1>12. CASE ExecuteDirect(c)
  BY <1>12 DEF ExecuteDirect
<1>13. CASE AskRevision(c)
  BY <1>13, MaxRevisionsAssumption DEF AskRevision, CallerSteps
<1>14. CASE PrepareRevision(c)
  BY <1>14 DEF PrepareRevision, CallerSteps, CallerGoes
<1>15. CASE StartRevision(c)
  BY <1>15 DEF StartRevision, CallerSteps
<1>16. CASE FailRevision(c)
  BY <1>16 DEF FailRevision, CallerSteps
<1>17. QED
  BY <1>1, <1>2, <1>3, <1>4, <1>5, <1>6, <1>7, <1>8, <1>9, <1>10, <1>11, <1>12, <1>13,
     <1>14, <1>15, <1>16 DEF Ask, Call

\* Workers keep the types.
LEMMA WorkerType ==
  ASSUME TypeOK, NEW t \in Workers, Work(t) PROVE TypeOK'
<1> USE DEF TypeOK, bounds
<1> USE StepTypes, RecordTypes
<1>1. OptionsOf(t) \in Options /\ Options \subseteq PhaseResults /\ Unfinished \in PhaseResults
  BY DEF Options, PhaseResults
<1>2. CASE ReadRun(t)
  BY <1>2 DEF ReadRun, WorkerSteps, Codes
<1>3. CASE Compare(t)
  BY <1>3 DEF Compare, WorkerSteps
<1>4. CASE Publish(t)
  BY <1>1, <1>4 DEF Publish, WorkerSteps
<1>5. CASE Complete(t)
  BY <1>1, <1>5 DEF Complete, WorkerSteps, Codes
<1>6. CASE Handle(t)
  BY <1>6 DEF Handle, WorkerSteps
<1>7. CASE BlockFailed(t)
  BY <1>1, <1>7 DEF BlockFailed, WorkerSteps
<1>8. CASE Leave(t)
  BY <1>8 DEF Leave, WorkerSteps
<1>9. ASSUME NEW code \in {"GUIDED_COMPARISON_UNAVAILABLE", "INTERNAL_ERROR"},
             Raise(t, code)
      PROVE  TypeOK'
  BY <1>9 DEF Raise, WorkerSteps, Codes
<1>10. QED
  BY <1>2, <1>3, <1>4, <1>5, <1>6, <1>7, <1>8, <1>9 DEF Work

\* Every variable of the comparison phase stays in its type: in particular a run
\* is only ever blocked with a code the store knows.
THEOREM TypeCorrect == Spec => []TypeOK
<1>1. Init => TypeOK
  <2> SUFFICES ASSUME Init PROVE TypeOK
    OBVIOUS
  <2>1. 0 \in 0 .. MaxStarts /\ 0 \in 0 .. MaxRevisions /\ 0 \in 0 .. MaxCrashes
    BY MaxStartsAssumption, MaxRevisionsAssumption, MaxCrashesAssumption
  <2>2. NoResult \in PhaseResults
    BY DEF PhaseResults
  <2>3. QED
    BY <2>1, <2>2 DEF Init, TypeOK, CallerSteps, WorkerSteps, Codes, Statuses
<1>2. TypeOK /\ [Next]_vars => TypeOK'
  <2> SUFFICES ASSUME TypeOK, [Next]_vars PROVE TypeOK'
    OBVIOUS
  <2>1. CASE Crash
    <3>1. crashes' \in 0 .. MaxCrashes
      BY <2>1, MaxCrashesAssumption DEF Crash, TypeOK
    <3>2. /\ caller' \in [Callers -> CallerSteps]
          /\ worker' \in [Workers -> WorkerSteps]
      BY <2>1 DEF Crash, TypeOK, CallerSteps, WorkerSteps
    <3>3. QED
      BY <2>1, <3>1, <3>2 DEF Crash, TypeOK
  <2>2. CASE UNCHANGED vars
    BY <2>2 DEF vars, threads, bounds, TypeOK
  <2>3. QED
    BY <2>1, <2>2, CallerType, WorkerType DEF Next
<1>3. QED
  BY <1>1, <1>2, PTL DEF Spec

-----------------------------------------------------------------------------
\* A step that leaves the registration alone and changes neither who is about to
\* spawn a worker nor which workers are alive keeps OneWorker.
LEMMA SameThreads ==
  ASSUME OneWorker, registered' = registered,
         \A c \in Callers : caller'[c] = "spawning" <=> caller[c] = "spawning",
         \A t \in Workers : Alive(t)' <=> Alive(t)
  PROVE  OneWorker'
  BY DEF OneWorker

\* One comparison thread at most is alive or about to be started, through starts,
\* retries, failing spawns, dying workers and crashes: starting one requires that
\* none is registered, and only the registered one takes its registration away.
THEOREM OneWorkerAtATime == Spec => []OneWorker
<1>1. Init => OneWorker
  BY DEF Init, OneWorker, Alive
<1>2. TypeOK /\ OneWorker /\ [Next]_vars => OneWorker'
  <2> SUFFICES ASSUME TypeOK, OneWorker, [Next]_vars PROVE OneWorker'
    OBVIOUS
  <2>1. ASSUME NEW c \in Callers, NEW from, NEW to, CallerGoes(c, from, to)
        PROVE  /\ caller[c] = from /\ caller'[c] = to
               /\ \A d \in Callers \ {c} : caller'[d] = caller[d]
    BY <2>1 DEF CallerGoes, TypeOK
  <2>2. ASSUME NEW t \in Workers, NEW from, NEW to, WorkerGoes(t, from, to)
        PROVE  /\ worker[t] = from /\ worker'[t] = to
               /\ \A s \in Workers \ {t} : worker'[s] = worker[s]
    BY <2>2 DEF WorkerGoes, TypeOK
  <2>3. ASSUME NEW c \in Callers, Ask(c) \/ Call(c) PROVE OneWorker'
    <3>1. CASE Register(c)
      <4>1. CASE registered
        BY <2>1, <3>1, <4>1, SameThreads DEF Register, Alive
      <4>2. CASE ~registered
        BY <2>1, <3>1, <4>2 DEF Register, OneWorker, Alive
      <4>3. QED
        BY <4>1, <4>2
    <3>2. ASSUME NEW t \in Workers, Spawn(c, t) PROVE OneWorker'
      <4>1. /\ caller[c] = "spawning" /\ caller'[c] = "idle"
            /\ \A d \in Callers \ {c} : caller'[d] = caller[d]
        BY <2>1, <3>2 DEF Spawn
      <4>2. /\ ~Alive(t) /\ Alive(t)'
            /\ \A s \in Workers \ {t} : Alive(s)' <=> Alive(s)
        BY <2>2, <3>2 DEF Spawn, Alive
      <4>3. registered /\ registered'
        BY <3>2, <4>1 DEF Spawn, OneWorker
      <4>4. /\ \A d \in Callers : caller'[d] # "spawning"
            /\ \A s \in Workers \ {t} : ~Alive(s)'
        BY <4>1, <4>2 DEF OneWorker
      <4>5. QED
        BY <4>3, <4>4 DEF OneWorker
    <3>3. CASE SpawnFails(c)
      <4>1. /\ caller[c] = "spawning" /\ caller'[c] = "idle"
            /\ \A d \in Callers \ {c} : caller'[d] = caller[d]
        BY <2>1, <3>3 DEF SpawnFails
      <4>2. /\ \A d \in Callers : caller'[d] # "spawning"
            /\ \A s \in Workers : ~Alive(s)'
        BY <3>3, <4>1 DEF SpawnFails, OneWorker, Alive
      <4>3. QED
        BY <4>2 DEF OneWorker
    <3>4. CASE ExecuteDirect(c)
      BY <3>4, SameThreads DEF ExecuteDirect, threads, Alive
    <3>5. CASE \/ Poll(c) \/ LookForWorker(c) \/ SettleLost(c) \/ SetOut(c) \/ Start(c)
               \/ Choose(c) \/ Continue(c) \/ StartSelected(c)
               \/ AskRevision(c) \/ PrepareRevision(c) \/ StartRevision(c) \/ FailRevision(c)
      <4>1. /\ registered' = registered /\ worker' = worker
            /\ \E from, to \in CallerSteps \ {"spawning"} : CallerGoes(c, from, to)
        BY <3>5 DEF Poll, LookForWorker, SettleLost, SetOut, Start, Choose, Continue,
                    StartSelected, AskRevision, PrepareRevision, StartRevision, FailRevision,
                    CallerSteps
      <4>2. QED
        BY <2>1, <4>1, SameThreads DEF Alive
    <3>6. QED
      BY <2>3, <3>1, <3>2, <3>3, <3>4, <3>5 DEF Ask, Call
  <2>4. ASSUME NEW t \in Workers, Work(t) PROVE OneWorker'
    <3>1. CASE Leave(t)
      <4>1. /\ Alive(t) /\ ~Alive(t)'
            /\ \A s \in Workers \ {t} : Alive(s)' <=> Alive(s)
        BY <2>2, <3>1 DEF Leave, Alive
      <4>2. /\ \A d \in Callers : caller'[d] # "spawning"
            /\ \A s \in Workers : ~Alive(s)'
        BY <3>1, <4>1 DEF Leave, OneWorker
      <4>3. QED
        BY <4>2 DEF OneWorker
    <3>2. CASE \E code \in {"GUIDED_COMPARISON_UNAVAILABLE", "INTERNAL_ERROR"} :
                 Raise(t, code)
      BY <3>2, SameThreads DEF Raise, Alive, TypeOK
    <3>3. CASE \/ ReadRun(t) \/ Compare(t) \/ Publish(t) \/ Complete(t)
               \/ Handle(t) \/ BlockFailed(t)
      <4>1. /\ registered' = registered /\ caller' = caller
            /\ \E from, to \in WorkerSteps \ {"new", "gone"} : WorkerGoes(t, from, to)
        BY <3>3 DEF ReadRun, Compare, Publish, Complete, Handle, BlockFailed, WorkerSteps
      <4>2. QED
        BY <2>2, <4>1, SameThreads DEF Alive
    <3>4. QED
      BY <2>4, <3>1, <3>2, <3>3 DEF Work
  <2>5. CASE Crash
    BY <2>5 DEF Crash, OneWorker, Alive
  <2>6. CASE UNCHANGED vars
    BY <2>6, SameThreads DEF vars, threads, Alive
  <2>7. QED
    BY <2>3, <2>4, <2>5, <2>6 DEF Next
<1>3. QED
  BY <1>1, <1>2, TypeCorrect, PTL DEF Spec

-----------------------------------------------------------------------------
\* Options that a completed run shows are not overwritten and stay until the user selects
\* one of them or revises the run: every late settlement, late failure and late retry
\* finds the run not RUNNING, and leaves it alone.
THEOREM ShownOptionsStay == Spec => OptionsStay
<1> DEFINE Moves(c) ==
      \/ caller[c] = "selected" /\ run'.status = "CONFIRMED" /\ run'.intent = "direct"
      \/ caller[c] = "asked" /\ run'.status = "CONFIRMED"
      \/ caller[c] = "revising" /\ run'.status = "FAILED"
<1> DEFINE Kept == run.status = "COMPLETED" /\ run' # run =>
                     /\ run'.result = run.result
                     /\ \E c \in Callers :
                          /\ caller'[c] # caller[c]
                          /\ \/ caller[c] = "selected" /\ run'.status = "CONFIRMED"
                                                      /\ run'.intent = "direct"
                             \/ caller[c] = "asked" /\ run'.status = "CONFIRMED"
                             \/ caller[c] = "revising" /\ run'.status = "FAILED"
<1>1. TypeOK /\ [Next]_vars => [Kept]_vars
  <2> SUFFICES ASSUME TypeOK, Next, run.status = "COMPLETED", run' # run
               PROVE  /\ run'.result = run.result
                      /\ \E c \in Callers : caller'[c] # caller[c] /\ Moves(c)
    OBVIOUS
  <2>1. PICK c \in Callers : Continue(c) \/ PrepareRevision(c) \/ FailRevision(c)
    <3>1. ~Crash
      BY DEF Crash
    <3>2. ASSUME NEW t \in Workers PROVE ~Work(t)
      BY DEF Work, ReadRun, Compare, Publish, Complete, Completed, CanComplete, Handle,
             BlockFailed, BlockedWith, Leave, Raise
    <3>3. ASSUME NEW c \in Callers, Ask(c) \/ Call(c)
          PROVE  Continue(c) \/ PrepareRevision(c) \/ FailRevision(c)
      BY <3>3 DEF Ask, Call, Poll, LookForWorker, SettleLost, BlockedWith, SetOut, Start,
             Startable, CanStart, Retryable, Register, Spawn, SpawnFails, Choose,
             StartSelected, ExecuteDirect, AskRevision, StartRevision
    <3>4. QED
      BY <3>1, <3>2, <3>3 DEF Next
  <2>2. caller'[c] # caller[c] /\ Moves(c)
    BY <2>1 DEF Continue, PrepareRevision, FailRevision, CallerGoes, Revised, Failed, TypeOK
  <2>3. run'.result = run.result
    BY <2>1 DEF Continue, PrepareRevision, FailRevision, Revised, Failed, TypeOK
  <2>4. QED
    BY <2>2, <2>3
<1>2. QED
  BY <1>1, TypeCorrect, PTL DEF Spec, OptionsStay

-----------------------------------------------------------------------------
\* A worker about to complete the run has its own options on disk.
Backed == \A t \in Workers : worker[t] = "completing" => guided = OptionsOf(t)

\* It stays so: while a worker is alive no other publishes.
LEMMA BackedNext == TypeOK /\ OneWorker /\ Backed /\ [Next]_vars => Backed'
<1> SUFFICES ASSUME TypeOK, OneWorker, Backed, [Next]_vars PROVE Backed'
  OBVIOUS
<1>1. worker \in [Workers -> WorkerSteps]
  BY DEF TypeOK
<1>2. ASSUME guided' = guided,
             \A t \in Workers : worker'[t] = "completing" => worker[t] = "completing"
      PROVE  Backed'
  BY <1>2 DEF Backed, OptionsOf
<1>3. ASSUME NEW c \in Callers, Ask(c) \/ Call(c) PROVE Backed'
  <2>1. CASE \E t \in Workers : Spawn(c, t)
    BY <1>1, <1>2, <2>1 DEF Spawn, WorkerGoes
  <2>2. CASE ~\E t \in Workers : Spawn(c, t)
    BY <1>2, <1>3, <2>2 DEF Ask, Call, Poll, LookForWorker, SettleLost, SetOut, Start, Register,
       SpawnFails, Choose, Continue, StartSelected, ExecuteDirect, threads, AskRevision,
       PrepareRevision, StartRevision, FailRevision
  <2>3. QED
    BY <2>1, <2>2
<1>4. ASSUME NEW t \in Workers, Work(t) PROVE Backed'
  <2>1. CASE Publish(t)
    <3>1. Alive(t) /\ worker' = [worker EXCEPT ![t] = "completing"] /\ guided' = OptionsOf(t)
      BY <2>1 DEF Publish, Alive, WorkerGoes
    <3>2. \A s \in Workers \ {t} : worker'[s] # "completing"
      BY <1>1, <3>1 DEF OneWorker, Alive
    <3>3. QED
      BY <3>1, <3>2 DEF Backed, OptionsOf
  <2>2. CASE ~Publish(t)
    BY <1>1, <1>2, <1>4, <2>2 DEF Work, ReadRun, Compare, Complete, Handle, BlockFailed,
       Leave, Raise, WorkerGoes
  <2>3. QED
    BY <2>1, <2>2
<1>5. CASE Crash
  BY <1>1, <1>2, <1>5 DEF Crash, Alive
<1>6. CASE UNCHANGED vars
  BY <1>2, <1>6 DEF vars, threads
<1>7. QED
  BY <1>3, <1>4, <1>5, <1>6 DEF Next

\* A comparison is only ever completed with the options whose evidence is on disk, for any
\* calls, threads, retries and crashes: no other thread overwrites the file in between.
THEOREM CompletedIsBacked == Spec => OptionsAreBacked
<1> DEFINE Backs == run.status # "COMPLETED" /\ run'.status = "COMPLETED"
                      => run'.result = guided'
<1>1. Init => Backed
  BY DEF Init, Backed
<1>2. TypeOK /\ Backed /\ [Next]_vars => [Backs]_vars
  <2> SUFFICES ASSUME TypeOK, Backed, Next,
                      run.status # "COMPLETED", run'.status = "COMPLETED"
               PROVE  run'.result = guided'
    OBVIOUS
  <2>1. PICK t \in Workers : Complete(t)
    <3>1. ~Crash
      BY DEF Crash
    <3>2. ASSUME NEW c \in Callers PROVE ~Ask(c) /\ ~Call(c)
      BY DEF Ask, Call, Poll, LookForWorker, SettleLost, BlockedWith, SetOut, Start,
             Register, Spawn, SpawnFails, Choose, Continue, StartSelected, ExecuteDirect,
             Started, Blocked, AskRevision, PrepareRevision, StartRevision, FailRevision,
             Revised, Failed, TypeOK
    <3>3. ASSUME NEW t \in Workers, Work(t) PROVE Complete(t)
      BY <3>3 DEF Work, ReadRun, Compare, Publish, Handle, BlockFailed, BlockedWith, Blocked,
             Leave, Raise, TypeOK
    <3>4. QED
      BY <3>1, <3>2, <3>3 DEF Next
  <2>2. run' = Completed(run, OptionsOf(t)) /\ guided' = guided /\ guided = OptionsOf(t)
    BY <2>1 DEF Complete, Backed, WorkerGoes
  <2>3. QED
    BY <2>2 DEF Completed, TypeOK
<1>3. QED
  BY <1>1, <1>2, BackedNext, TypeCorrect, OneWorkerAtATime, PTL DEF Spec, OptionsAreBacked

=============================================================================
