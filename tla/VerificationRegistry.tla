------------------------ MODULE VerificationRegistry ------------------------
(***************************************************************************)
(* The registry of verifications in progress (verification_registry.py) and *)
(* the worker it starts for each of them.                                   *)
(*                                                                          *)
(* A call of verify_itinerary registers its entry under the lock, starts a  *)
(* worker without the lock, and takes the lock again to read its own        *)
(* receipt.  The entry is dated as it is registered: the code reads the     *)
(* clock just before, far less than a tick earlier.  A worker only puts     *)
(* messages into the inbox of its entry; whoever holds the lock applies the *)
(* messages of every entry first.  The id of an entry is the call that      *)
(* created it.                                                              *)
(***************************************************************************)
EXTENDS Integers, Sequences, FiniteSets

CONSTANTS
  Calls,        \* calls of verify_itinerary
  Requests,     \* lists of assertions, by how many there are and which are malformed
  MaxEntries,   \* _MAX_ENTRIES
  Retention,    \* _RETENTION_SECONDS, in ticks
  MaxClock      \* bound: ticks explored

ASSUME RequestsAssumption ==
  \A r \in Requests : /\ {"total", "malformed"} \subseteq DOMAIN r
                      /\ r.total \in Nat \ {0}
                      /\ r.malformed \subseteq 1 .. r.total
ASSUME BoundsAssumption == /\ MaxEntries \in Nat \ {0}
                           /\ Retention \in Nat /\ MaxClock \in Nat

VARIABLES
  call,      \* the calls
  entries,   \* self._entries: a function from some of the ids
  inbox,     \* the inbox of each entry; messages to a dropped one are not kept
  worker,    \* the background threads, and what each has still to check
  clock

vars == <<call, entries, inbox, worker, clock>>

Assertions(r) == 1 .. r.total
Checkable(r)  == Assertions(r) \ r.malformed

Entries == {e \in [request : Requests, created : 0 .. MaxClock,
                   status : {"RUNNING", "COMPLETE", "FAILED"}, found : SUBSET Nat] :
               e.found \subseteq Assertions(e.request)}
Finding(i) == [kind |-> "finding", index |-> i]
Done(s)    == [kind |-> "done", status |-> s]
Messages   == [kind : {"finding"}, index : Nat]
              \union [kind : {"done"}, status : {"COMPLETE", "FAILED"}]
IdleCall == [pc |-> "idle"]
CallStates == {IdleCall}
  \union [pc : {"inserted", "spawned"}, request : Requests]
  \union [pc : {"returned"}, receipt : Calls]
  \union [pc : {"refused", "asserted"}]
Workers == [pc : {"none", "running", "ended"}, left : SUBSET Nat]

Init == /\ call = [c \in Calls |-> IdleCall]
        /\ entries = [c \in {} |-> IdleCall]
        /\ inbox = [c \in Calls |-> <<>>]
        /\ worker = [c \in Calls |-> [pc |-> "none", left |-> {}]]
        /\ clock = 0

-----------------------------------------------------------------------------
(* What the holder of the lock does first.                                  *)

Findings(q) == {m.index : m \in {q[k] : k \in {j \in DOMAIN q : q[j].kind = "finding"}}}
Verdicts(q) == {m.status : m \in {q[k] : k \in {j \in DOMAIN q : q[j].kind = "done"}}}

\* Mutant: the findings drained now replace the ones drained before.
DrainedAfresh(c) ==
  [entries[c] EXCEPT
     !.found  = entries[c].request.malformed \union Findings(inbox[c]),
     !.status = IF Verdicts(inbox[c]) = {} THEN @
                ELSE CHOOSE s \in Verdicts(inbox[c]) : TRUE]

\* Mutant: the name a snapshot gives to "all found, not yet done" is stored.
DrainedFinalizing(c) ==
  LET found == entries[c].found \union Findings(inbox[c]) IN
  [entries[c] EXCEPT
     !.found  = found,
     !.status = IF Verdicts(inbox[c]) # {} THEN CHOOSE s \in Verdicts(inbox[c]) : TRUE
                ELSE IF @ = "RUNNING" /\ found = Assertions(entries[c].request)
                THEN "FINALIZING" ELSE @]

\* _drain_locked: every message in the inbox is applied; a worker puts one
\* "done", after its last finding.
Drained(c) ==
  [entries[c] EXCEPT
     !.found  = @ \union Findings(inbox[c]),
     !.status = IF Verdicts(inbox[c]) = {} THEN @
                ELSE CHOOSE s \in Verdicts(inbox[c]) : TRUE]

Expired(c) == clock - entries[c].created > Retention
Kept       == {c \in DOMAIN entries : ~Expired(c)}

\* _prune_locked.
Pruned     == [c \in Kept |-> Drained(c)]
EmptyInbox == inbox' = [c \in Calls |-> <<>>]

-----------------------------------------------------------------------------
(* start_background.                                                       *)

Registered(c, r, pc) == call' = [call EXCEPT ![c] = [pc |-> pc, request |-> r]]
Returned(c, id) == call' = [call EXCEPT ![c] = [pc |-> "returned", receipt |-> id]]
Raised(c, error) == call' = [call EXCEPT ![c] = [pc |-> error]]

\* Mutant: only a finished verification answers for the same assertions.
DuplicatesFinished(r) ==
  {d \in DOMAIN Pruned : Pruned[d].request = r /\ Pruned[d].status = "COMPLETE"}

\* Entries that answer for the same assertions: all but the failed ones.
Duplicates(r) ==
  {d \in DOMAIN Pruned : Pruned[d].request = r /\ Pruned[d].status # "FAILED"}

AnswerDuplicate(c, r) ==
  /\ call[c].pc = "idle"
  /\ \E d \in Duplicates(r) : Returned(c, d)
  /\ entries' = Pruned /\ EmptyInbox
  /\ UNCHANGED <<worker, clock>>

\* Mutant: which entries are finished is judged before their inboxes are drained.
FinishedUndrained == {d \in DOMAIN Pruned : entries[d].status # "RUNNING"}

\* Mutant: any entry makes room.
FinishedOrNot == DOMAIN Pruned

Finished == {d \in DOMAIN Pruned : Pruned[d].status # "RUNNING"}
Full     == Cardinality(DOMAIN Pruned) >= MaxEntries

\* _evict_finished_for_capacity_locked: one of the oldest finished entries.
\* The table is never over its bound, so one victim is enough.
Oldest == {d \in Finished : \A e \in Finished : Pruned[d].created <= Pruned[e].created}
RoomFor(c, r, victims) ==
  [d \in (DOMAIN Pruned \ victims) \union {c} |->
     IF d # c THEN Pruned[d]
     ELSE [request |-> r, created |-> clock, found |-> r.malformed,
           status  |-> IF r.malformed = Assertions(r) THEN "COMPLETE" ELSE "RUNNING"]]

\* Mutant: one malformed assertion makes the entry complete.
InsertTooComplete(c, r) ==
  /\ call[c].pc = "idle" /\ Duplicates(r) = {}
  /\ \E victims \in IF Full THEN {{d} : d \in Oldest} ELSE {{}} :
       entries' = [RoomFor(c, r, victims) EXCEPT
                     ![c].status = IF r.malformed # {} THEN "COMPLETE" ELSE "RUNNING"]
  /\ EmptyInbox /\ Registered(c, r, "inserted")
  /\ UNCHANGED <<worker, clock>>

Insert(c, r) ==
  /\ call[c].pc = "idle" /\ Duplicates(r) = {}
  /\ \E victims \in IF Full THEN {{d} : d \in Oldest} ELSE {{}} :
       entries' = RoomFor(c, r, victims)
  /\ EmptyInbox /\ Registered(c, r, "inserted")
  /\ UNCHANGED <<worker, clock>>

\* VerificationCapacityError.
RefuseForCapacity(c, r) ==
  /\ call[c].pc = "idle" /\ Duplicates(r) = {}
  /\ Full /\ Finished = {}
  /\ entries' = Pruned /\ EmptyInbox /\ Raised(c, "refused")
  /\ UNCHANGED <<worker, clock>>

\* Nothing to collect, no thread.
Spawn(c) ==
  /\ call[c].pc = "inserted"
  /\ worker' = IF Checkable(call[c].request) = {} THEN worker
               ELSE [worker EXCEPT ![c] = [pc   |-> "running",
                                           left |-> Checkable(call[c].request)]]
  /\ Registered(c, call[c].request, "spawned")
  /\ UNCHANGED <<entries, inbox, clock>>

\* The receipt is a read like any other; its result is asserted to be there.
Receipt(c) ==
  /\ call[c].pc = "spawned"
  /\ entries' = Pruned /\ EmptyInbox
  /\ IF c \in DOMAIN Pruned THEN Returned(c, c) ELSE Raised(c, "asserted")
  /\ UNCHANGED <<worker, clock>>

-----------------------------------------------------------------------------
\* read: a host polls an id it was given.
Read ==
  /\ \E c \in Calls : call[c].pc = "returned"
  /\ entries' = Pruned /\ EmptyInbox
  /\ UNCHANGED <<call, worker, clock>>

(* The worker and its collector, verify_checkable_incrementally.            *)

Put(c, messages) ==
  inbox' = [inbox EXCEPT ![c] = IF c \in DOMAIN entries THEN @ \o messages ELSE @]

Report(c) ==
  /\ worker[c].pc = "running"
  /\ \E i \in worker[c].left :
       /\ \A j \in worker[c].left : i <= j
       /\ Put(c, <<Finding(i)>>)
       /\ worker' = [worker EXCEPT ![c].left = @ \ {i}]
  /\ UNCHANGED <<call, entries, clock>>

End(c, messages) ==
  /\ worker[c].pc = "running"
  /\ Put(c, messages)
  /\ worker' = [worker EXCEPT ![c] = [pc |-> "ended", left |-> {}]]
  /\ UNCHANGED <<call, entries, clock>>

Finish(c) == worker[c].left = {} /\ End(c, <<Done("COMPLETE")>>)

\* Mutant: an exception in the thread is nobody's business.
RaiseSilently(c) == End(c, <<>>)

\* The collector raised; what it has reported stays reported.
Raise(c) == End(c, <<Done("FAILED")>>)

Tick == /\ clock < MaxClock /\ clock' = clock + 1
        /\ UNCHANGED <<call, entries, inbox, worker>>

-----------------------------------------------------------------------------
Caller(c) == \/ \E r \in Requests :
                  AnswerDuplicate(c, r) \/ Insert(c, r) \/ RefuseForCapacity(c, r)
             \/ Spawn(c) \/ Receipt(c)
Collector(c) == Report(c) \/ Finish(c) \/ Raise(c)

Next == \/ \E c \in Calls : Caller(c) \/ Collector(c)
        \/ Read \/ Tick

Spec == Init /\ [][Next]_vars

\* A collector's queries time out, so a worker goes on; a call that has started
\* a worker goes on to its receipt; and hosts poll the ids they were given, as
\* the next_call of every response tells them to.
Fairness == /\ WF_vars(Read)
            /\ \A c \in Calls : WF_vars(Collector(c) \/ Spawn(c) \/ Receipt(c))
FairSpec == Spec /\ Fairness

-----------------------------------------------------------------------------
(* Properties.                                                             *)

\* Every variable stays in the type the code gives it, and the table within
\* its bound.
TypeOK ==
  /\ call \in [Calls -> CallStates]
  /\ DOMAIN entries \subseteq Calls /\ Cardinality(DOMAIN entries) <= MaxEntries
  /\ \A c \in DOMAIN entries : entries[c] \in Entries
  /\ inbox \in [Calls -> Seq(Messages)]
  /\ worker \in [Calls -> Workers]
  /\ clock \in 0 .. MaxClock

\* A verification reported COMPLETE has a conclusion on every assertion.
CompleteHasEveryFinding ==
  \A c \in DOMAIN entries : entries[c].status = "COMPLETE" =>
                            entries[c].found = Assertions(entries[c].request)

\* Two workers collect the same assertions only after the retention has dropped
\* the entry of one of them.
OneCollectionPerRequest ==
  \A c, d \in DOMAIN entries :
    /\ worker[c].pc = "running" /\ worker[d].pc = "running"
    /\ entries[c].request = entries[d].request
    => c = d

\* Room is made only by dropping verifications that have ended; one that is
\* still running leaves the table by age alone.
CapacitySparesRunning ==
  [][\A c \in DOMAIN entries :
       c \notin DOMAIN entries' =>
         Expired(c) \/ entries[c].status # "RUNNING" \/ Verdicts(inbox[c]) # {}]_vars

\* A call is refused only when every slot is held by a verification that has
\* not ended, also when nobody has polled the ones that have.
RefusedOnlyWhenAllRun ==
  [][\A c \in Calls :
       call[c].pc # "refused" /\ call'[c].pc = "refused" =>
         /\ Cardinality(DOMAIN entries') = MaxEntries
         /\ \A d \in DOMAIN entries' : entries'[d].status = "RUNNING"
                                       /\ Verdicts(inbox[d]) = {}]_vars

\* A host that keeps polling learns how its verification ended, or that the id
\* is gone, also when the worker died of an exception.
EveryReceiptSettles ==
  \A c \in Calls : c \in DOMAIN entries
                   ~> c \notin DOMAIN entries \/ entries[c].status # "RUNNING"

\* What hosts see implements the promise made to them.
Promise == INSTANCE VerificationPromise WITH
  promise <- [c \in Calls |->
    IF c \in DOMAIN entries
    THEN [status |-> entries[c].status, request |-> entries[c].request,
          found |-> entries[c].found]
    ELSE IF \/ call[c].pc \in {"idle", "refused"}
            \/ call[c].pc = "returned" /\ call[c].receipt # c
    THEN [status |-> "unused"] ELSE [status |-> "forgotten"]]
KeepsPromise == Promise!Spec

-----------------------------------------------------------------------------
(* What an assertion of the code says and its steps do not keep.           *)

\* The receipt of a verification that was just registered is there to be read
\* (retention aside: the clock does not move between the two critical sections).
ReceiptIsThere == \A c \in Calls : call[c].pc # "asserted"

=============================================================================
