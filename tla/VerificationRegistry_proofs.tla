--------------------- MODULE VerificationRegistry_proofs ---------------------
(***************************************************************************)
(* For every number of calls, lists of assertions, slots and ticks:         *)
(* VerificationRegistry keeps its types; a verification reported COMPLETE   *)
(* has a conclusion on every assertion; capacity drops no verification that *)
(* runs; a new one is refused only when all slots run; no request is        *)
(* collected twice at once; and the registry implements VerificationPromise. *)
(***************************************************************************)
EXTENDS VerificationRegistry, FiniteSetTheorems, TLAPS

-----------------------------------------------------------------------------
(* Inboxes.                                                                *)

\* An empty inbox says nothing.
LEMMA EmptyQueue == Findings(<<>>) = {} /\ Verdicts(<<>>) = {}
  BY DEF Findings, Verdicts

\* What the messages of an inbox say.
LEMMA QueueTypes ==
  ASSUME NEW q \in Seq(Messages)
  PROVE  Findings(q) \subseteq Nat /\ Verdicts(q) \subseteq {"COMPLETE", "FAILED"}
<1>1. \A k \in DOMAIN q : q[k] \in Messages
  OBVIOUS
<1>2. QED
  BY <1>1 DEF Findings, Verdicts, Messages

\* One more message adds its finding or its verdict.
LEMMA AppendQueue ==
  ASSUME NEW q \in Seq(Messages), NEW m \in Messages
  PROVE  /\ q \o <<m>> \in Seq(Messages)
         /\ m.kind = "finding" => /\ Findings(q \o <<m>>) = Findings(q) \union {m.index}
                                  /\ Verdicts(q \o <<m>>) = Verdicts(q)
         /\ m.kind = "done" => /\ Findings(q \o <<m>>) = Findings(q)
                               /\ Verdicts(q \o <<m>>) = Verdicts(q) \union {m.status}
<1> DEFINE p == q \o <<m>>
<1>1. /\ p \in Seq(Messages) /\ DOMAIN p = DOMAIN q \union {Len(q) + 1}
      /\ p[Len(q) + 1] = m /\ \A k \in DOMAIN q : p[k] = q[k]
  OBVIOUS
<1> HIDE DEF p
<1>2. \A x : x \in {p[k] : k \in {j \in DOMAIN p : p[j].kind = "finding"}} <=>
             \/ x \in {q[k] : k \in {j \in DOMAIN q : q[j].kind = "finding"}}
             \/ m.kind = "finding" /\ x = m
  BY <1>1
<1>3. \A x : x \in {p[k] : k \in {j \in DOMAIN p : p[j].kind = "done"}} <=>
             \/ x \in {q[k] : k \in {j \in DOMAIN q : q[j].kind = "done"}}
             \/ m.kind = "done" /\ x = m
  BY <1>1
<1>4. Findings(p) = Findings(q) \union (IF m.kind = "finding" THEN {m.index} ELSE {})
  BY <1>2 DEF Findings
<1>5. Verdicts(p) = Verdicts(q) \union (IF m.kind = "done" THEN {m.status} ELSE {})
  BY <1>3 DEF Verdicts
<1>6. QED
  BY <1>1, <1>4, <1>5 DEF p

-----------------------------------------------------------------------------
(* The inductive invariant.                                                *)

\* A call that has not begun has left no trace.
Fresh == \A c \in Calls : call[c].pc = "idle" =>
           c \notin DOMAIN entries /\ inbox[c] = <<>> /\ worker[c].pc = "none"

\* What an entry and its inbox know already.
Known(c) == entries[c].found \union Findings(inbox[c])

\* Findings made, findings under way and findings still to be made add up to the
\* request, and a verdict comes after the last of them.
Covered(c) ==
  LET e == entries[c]
      A == Assertions(e.request)
  IN
  /\ e.request.malformed \subseteq e.found /\ Known(c) \subseteq A
  /\ e.status = "COMPLETE" => e.found = A
  /\ e.status # "RUNNING" => Verdicts(inbox[c]) = {}
  /\ call[c].pc = "inserted" => call[c].request = e.request /\ worker[c].pc = "none"
  /\ worker[c].pc = "none" =>
       /\ Verdicts(inbox[c]) = {}
       /\ e.status = IF e.request.malformed = A THEN "COMPLETE" ELSE "RUNNING"
  /\ worker[c].pc = "running" =>
       /\ Verdicts(inbox[c]) = {} /\ e.status = "RUNNING"
       /\ worker[c].left \subseteq A /\ A \subseteq Known(c) \union worker[c].left
  /\ worker[c].pc = "ended" =>
       ("COMPLETE" \in Verdicts(inbox[c]) => A \subseteq Known(c))

IInv == /\ TypeOK /\ IsFiniteSet(DOMAIN entries)
        /\ Fresh /\ \A c \in DOMAIN entries : Covered(c)

-----------------------------------------------------------------------------
(* What the holder of the lock does first.                                  *)

\* Applying an inbox.
LEMMA DrainedType ==
  ASSUME TypeOK, NEW c \in DOMAIN entries, Covered(c)
  PROVE  /\ Drained(c) \in Entries
         /\ Drained(c).request = entries[c].request
         /\ Drained(c).created = entries[c].created
         /\ Drained(c).found = Known(c)
         /\ Verdicts(inbox[c]) = {} => Drained(c).status = entries[c].status
         /\ Verdicts(inbox[c]) # {} => Drained(c).status \in Verdicts(inbox[c])
<1> DEFINE e == entries[c]
           s == IF Verdicts(inbox[c]) = {} THEN e.status
                ELSE CHOOSE v \in Verdicts(inbox[c]) : TRUE
<1>1. e \in Entries /\ inbox[c] \in Seq(Messages)
  BY DEF TypeOK
<1>2. Verdicts(inbox[c]) \subseteq {"COMPLETE", "FAILED"} /\ Findings(inbox[c]) \subseteq Nat
  BY <1>1, QueueTypes
<1>3. e \in [request : Requests, created : 0 .. MaxClock,
             status : {"RUNNING", "COMPLETE", "FAILED"}, found : SUBSET Nat]
  BY <1>1 DEF Entries
<1>4. Verdicts(inbox[c]) # {} => s \in Verdicts(inbox[c])
  OBVIOUS
<1>5. s \in {"RUNNING", "COMPLETE", "FAILED"}
  BY <1>2, <1>3, <1>4
<1>6. Drained(c) = [e EXCEPT !.found = Known(c), !.status = s]
  BY <1>3 DEF Drained, Known
<1>7. Known(c) \in SUBSET Nat /\ Known(c) \subseteq Assertions(e.request)
  BY <1>2, <1>3 DEF Known, Covered
<1> HIDE DEF e, s
<1>8. /\ Drained(c) \in [request : Requests, created : 0 .. MaxClock,
                         status : {"RUNNING", "COMPLETE", "FAILED"}, found : SUBSET Nat]
      /\ Drained(c).request = e.request /\ Drained(c).created = e.created
      /\ Drained(c).found = Known(c) /\ Drained(c).status = s
  BY <1>3, <1>5, <1>6, <1>7
<1>9. Drained(c) \in Entries
  BY <1>7, <1>8 DEF Entries
<1>10. QED
  BY <1>4, <1>8, <1>9 DEF e, s

\* Applying an inbox keeps the entry covered, with nothing left in the inbox.
LEMMA DrainedCovered ==
  ASSUME IInv, NEW c \in DOMAIN entries, c \in DOMAIN entries',
         entries'[c] = Drained(c), inbox'[c] = <<>>,
         call'[c].pc = "inserted" => call'[c] = call[c], worker'[c] = worker[c]
  PROVE  Covered(c)'
<1>1. TypeOK /\ Covered(c)
  BY DEF IInv
<1> DEFINE A == Assertions(entries[c].request)
<1>2. /\ entries'[c].request = entries[c].request
      /\ entries'[c].found = Known(c) /\ Known(c)' = Known(c)
      /\ Findings(inbox'[c]) = {} /\ Verdicts(inbox'[c]) = {}
  BY <1>1, DrainedType, EmptyQueue DEF Known
<1>3. entries[c].status = "COMPLETE" => Known(c) = A
  BY <1>1 DEF Covered, Known
<1>4. "COMPLETE" \in Verdicts(inbox[c]) => Known(c) = A
  <2>1. worker[c].pc \in {"none", "running", "ended"}
    BY <1>1 DEF TypeOK, Workers, IInv
  <2>2. QED
    BY <1>1, <2>1 DEF Covered
<1>5. entries'[c].status = "COMPLETE" => Known(c) = A
  BY <1>1, <1>3, <1>4, DrainedType
<1>6. Verdicts(inbox[c]) = {} => entries'[c].status = entries[c].status
  BY <1>1, DrainedType
<1>7. entries[c].request.malformed \subseteq Known(c)
  BY <1>1 DEF Covered, Known
<1>8. QED
  BY <1>1, <1>2, <1>5, <1>6, <1>7 DEF Covered

\* Dropping what has expired.
LEMMA PrunedType ==
  ASSUME IInv
  PROVE  /\ DOMAIN Pruned \subseteq DOMAIN entries /\ DOMAIN Pruned \subseteq Calls
         /\ IsFiniteSet(DOMAIN Pruned)
         /\ Cardinality(DOMAIN Pruned) \in Nat
         /\ Cardinality(DOMAIN Pruned) <= MaxEntries
         /\ \A c \in DOMAIN Pruned : Pruned[c] = Drained(c) /\ Pruned[c] \in Entries
<1>1. DOMAIN Pruned \subseteq DOMAIN entries
  BY DEF Pruned, Kept
<1>2. IsFiniteSet(DOMAIN Pruned) /\ Cardinality(DOMAIN Pruned) <= Cardinality(DOMAIN entries)
  BY <1>1, FS_Subset DEF IInv
<1>3. Cardinality(DOMAIN Pruned) \in Nat /\ Cardinality(DOMAIN entries) \in Nat
  BY <1>2, FS_CardinalityType DEF IInv
<1>4. \A c \in DOMAIN Pruned : Pruned[c] = Drained(c)
  BY DEF Pruned
<1>5. \A c \in DOMAIN Pruned : Drained(c) \in Entries
  BY <1>1, DrainedType DEF IInv
<1>6. QED
  BY <1>1, <1>2, <1>3, <1>4, <1>5, BoundsAssumption DEF IInv, TypeOK

\* A section that only drains and prunes, and moves calls that have no entry of
\* their own to make.
LEMMA PruneStep ==
  ASSUME IInv, entries' = Pruned, EmptyInbox, call' \in [Calls -> CallStates],
         UNCHANGED <<worker, clock>>,
         \A c \in Calls : \/ call'[c] = call[c]
                          \/ call'[c].pc \notin {"idle", "inserted"}
  PROVE  IInv'
<1>1. TypeOK'
  <2>1. inbox' \in [Calls -> Seq(Messages)]
    BY DEF EmptyInbox
  <2>2. QED
    BY <2>1, PrunedType DEF IInv, TypeOK
<1>2. Fresh'
  BY PrunedType DEF IInv, Fresh, EmptyInbox
<1>3. ASSUME NEW c \in DOMAIN Pruned PROVE Covered(c)'
  <2>1. c \in Calls /\ inbox'[c] = <<>>
    BY <1>3, PrunedType DEF EmptyInbox
  <2>2. QED
    BY <1>3, <2>1, PrunedType, DrainedCovered
<1>4. QED
  BY <1>1, <1>2, <1>3, PrunedType DEF IInv

-----------------------------------------------------------------------------
(* One lemma for each kind of step.                                        *)

\* Registering a new entry.
LEMMA InsertStep ==
  ASSUME IInv, NEW c \in Calls, NEW r \in Requests, Insert(c, r)
  PROVE  IInv'
<1>1. PICK victims \in IF Full THEN {{d} : d \in Oldest} ELSE {{}} :
        entries' = RoomFor(c, r, victims)
  BY DEF Insert
<1> DEFINE Rest == DOMAIN Pruned \ victims
<1>2. c \notin DOMAIN entries /\ c \notin Rest /\ worker[c].pc = "none"
  BY PrunedType DEF IInv, Fresh, Insert
<1>3. /\ DOMAIN entries' = Rest \union {c}
      /\ \A d \in Rest : entries'[d] = Drained(d)
      /\ entries'[c] = [request |-> r, created |-> clock, found |-> r.malformed,
                        status  |-> IF r.malformed = Assertions(r)
                                    THEN "COMPLETE" ELSE "RUNNING"]
  BY <1>1, <1>2, PrunedType DEF RoomFor
<1>4. /\ \A d \in Calls : inbox'[d] = <<>>
      /\ inbox' \in [Calls -> Seq(Messages)]
      /\ UNCHANGED <<worker, clock>>
      /\ call' = [call EXCEPT ![c] = [pc |-> "inserted", request |-> r]]
  BY DEF Insert, EmptyInbox, Registered
<1>5. r.malformed \subseteq Assertions(r) /\ Assertions(r) \subseteq Nat
  BY RequestsAssumption DEF Assertions
<1>6. entries'[c] \in Entries
  <2>1. clock \in 0 .. MaxClock
    BY DEF IInv, TypeOK
  <2>2. QED
    BY <1>3, <1>5, <2>1 DEF Entries
<1>7. IsFiniteSet(DOMAIN entries') /\ Cardinality(DOMAIN entries') <= MaxEntries
  <2>1. CASE Full
    <3>1. PICK d \in DOMAIN Pruned : victims = {d}
      BY <1>1, <2>1 DEF Oldest, Finished
    <3>2. IsFiniteSet(Rest) /\ Cardinality(Rest) = Cardinality(DOMAIN Pruned) - 1
      BY <3>1, PrunedType, FS_RemoveElement
    <3>3. /\ IsFiniteSet(Rest \union {c})
          /\ Cardinality(Rest \union {c}) = Cardinality(Rest) + 1
      BY <1>2, <3>2, FS_AddElement
    <3>4. QED
      BY <1>3, <3>2, <3>3, PrunedType, BoundsAssumption
  <2>2. CASE ~Full
    <3>1. Rest = DOMAIN Pruned /\ Cardinality(DOMAIN Pruned) < MaxEntries
      BY <1>1, <2>2, PrunedType, BoundsAssumption DEF Full
    <3>2. /\ IsFiniteSet(Rest \union {c})
          /\ Cardinality(Rest \union {c}) = Cardinality(Rest) + 1
      BY <1>2, <3>1, PrunedType, FS_AddElement
    <3>3. QED
      BY <1>3, <3>1, <3>2, PrunedType, BoundsAssumption
  <2>3. QED
    BY <2>1, <2>2
<1>8. call' \in [Calls -> CallStates]
  BY <1>4 DEF IInv, TypeOK, CallStates
<1>9. TypeOK'
  <2>1. \A d \in DOMAIN entries' : entries'[d] \in Entries
    BY <1>3, <1>6, PrunedType
  <2>2. DOMAIN entries' \subseteq Calls
    BY <1>3, PrunedType
  <2>3. QED
    BY <1>4, <1>7, <1>8, <2>1, <2>2 DEF IInv, TypeOK
<1>10. Fresh'
  <2> SUFFICES ASSUME NEW d \in Calls, call'[d].pc = "idle"
               PROVE  d \notin DOMAIN entries' /\ inbox'[d] = <<>> /\ worker'[d].pc = "none"
    BY DEF Fresh
  <2>1. d # c /\ call[d].pc = "idle"
    BY <1>4 DEF IInv, TypeOK
  <2>2. QED
    BY <1>3, <1>4, <2>1, PrunedType DEF IInv, Fresh
<1>11. Covered(c)'
  <2>1. Findings(inbox'[c]) = {} /\ Verdicts(inbox'[c]) = {}
    BY <1>4, EmptyQueue
  <2>2. Known(c)' = r.malformed
    BY <1>3, <2>1 DEF Known
  <2>3. call'[c].request = r /\ worker'[c].pc = "none"
    BY <1>2, <1>4 DEF IInv, TypeOK
  <2>4. QED
    BY <1>3, <1>5, <2>1, <2>2, <2>3 DEF Covered
<1>12. ASSUME NEW d \in Rest PROVE Covered(d)'
  <2>1. d \in DOMAIN entries /\ d \in DOMAIN entries' /\ d \in Calls /\ d # c
    BY <1>2, <1>3, <1>12, PrunedType
  <2>2. call'[d] = call[d] /\ worker'[d] = worker[d] /\ inbox'[d] = <<>>
    BY <1>4, <2>1 DEF IInv, TypeOK
  <2>3. QED
    BY <1>3, <1>12, <2>1, <2>2, DrainedCovered
<1>13. QED
  BY <1>3, <1>7, <1>9, <1>10, <1>11, <1>12 DEF IInv

\* Starting a worker.
LEMMA SpawnStep == ASSUME IInv, NEW c \in Calls, Spawn(c) PROVE IInv'
<1> DEFINE r == call[c].request
<1>1. /\ call[c].pc = "inserted" /\ r \in Requests
      /\ call' = [call EXCEPT ![c] = [pc |-> "spawned", request |-> r]]
      /\ call' \in [Calls -> CallStates]
  <2>1. call[c].pc = "inserted" /\ call[c] \in CallStates
    BY DEF Spawn, IInv, TypeOK
  <2>2. call[c] \in [pc : {"inserted", "spawned"}, request : Requests]
    BY <2>1 DEF CallStates, IdleCall
  <2>3. call' = [call EXCEPT ![c] = [pc |-> "spawned", request |-> r]]
    BY DEF Spawn, Registered
  <2>4. [pc |-> "spawned", request |-> r] \in CallStates
    BY <2>2 DEF CallStates
  <2>5. QED
    BY <2>1, <2>2, <2>3, <2>4 DEF IInv, TypeOK
<1>2. UNCHANGED <<entries, inbox, clock>>
  BY DEF Spawn
<1>3. Checkable(r) \subseteq Nat
  BY <1>1, RequestsAssumption DEF Checkable, Assertions
<1>4. worker' \in [Calls -> Workers]
  BY <1>3 DEF Spawn, Workers, IInv, TypeOK
<1>5. TypeOK'
  BY <1>1, <1>2, <1>4 DEF IInv, TypeOK
<1>6. \A d \in Calls \ {c} : call'[d] = call[d] /\ worker'[d] = worker[d]
  BY <1>1 DEF Spawn, IInv, TypeOK
<1>7. call'[c].pc = "spawned"
  BY <1>1 DEF IInv, TypeOK
<1>8. Fresh'
  BY <1>2, <1>6, <1>7 DEF IInv, Fresh
<1>9. ASSUME NEW d \in DOMAIN entries PROVE Covered(d)'
  <2>1. d \in Calls /\ Covered(d)
    BY <1>9 DEF IInv, TypeOK
  <2>2. CASE d # c
    BY <1>2, <1>6, <2>1, <2>2 DEF Covered, Known
  <2>3. CASE d = c
    <3>1. entries[c].request = r /\ worker[c].pc = "none"
      BY <1>1, <2>1, <2>3 DEF Covered
    <3>2. CASE Checkable(r) = {}
      <4>1. worker'[c] = worker[c]
        BY <3>2 DEF Spawn
      <4>2. QED
        BY <1>2, <1>7, <2>1, <2>3, <4>1 DEF Covered, Known
    <3>3. CASE Checkable(r) # {}
      <4>1. worker'[c] = [pc |-> "running", left |-> Checkable(r)]
        BY <3>3 DEF Spawn, IInv, TypeOK
      <4>2. /\ Verdicts(inbox[c]) = {} /\ entries[c].status = "RUNNING"
            /\ Checkable(r) \subseteq Assertions(r)
            /\ Assertions(r) \subseteq Known(c) \union Checkable(r)
        BY <2>1, <2>3, <3>1, <3>3 DEF Covered, Checkable, Known
      <4>3. QED
        BY <1>2, <1>7, <2>1, <2>3, <3>1, <4>1, <4>2 DEF Covered, Known
    <3>4. QED
      BY <3>2, <3>3
  <2>4. QED
    BY <2>2, <2>3
<1>10. QED
  BY <1>2, <1>5, <1>8, <1>9 DEF IInv

\* A message reaches the inbox of an entry, or nobody.
LEMMA PutStep ==
  ASSUME IInv, NEW c \in Calls, NEW m \in Messages, Put(c, <<m>>)
  PROVE  /\ inbox' \in [Calls -> Seq(Messages)]
         /\ \A d \in Calls : d # c \/ c \notin DOMAIN entries => inbox'[d] = inbox[d]
         /\ c \in DOMAIN entries =>
              /\ m.kind = "finding" =>
                   /\ Findings(inbox'[c]) = Findings(inbox[c]) \union {m.index}
                   /\ Verdicts(inbox'[c]) = Verdicts(inbox[c])
              /\ m.kind = "done" =>
                   /\ Findings(inbox'[c]) = Findings(inbox[c])
                   /\ Verdicts(inbox'[c]) = Verdicts(inbox[c]) \union {m.status}
<1>1. inbox \in [Calls -> Seq(Messages)]
  BY DEF IInv, TypeOK
<1>2. inbox[c] \o <<m>> \in Seq(Messages)
  BY <1>1, AppendQueue
<1>3. CASE c \in DOMAIN entries
  <2>1. inbox' = [inbox EXCEPT ![c] = inbox[c] \o <<m>>]
    BY <1>3 DEF Put
  <2>2. QED
    BY <1>1, <1>2, <1>3, <2>1, AppendQueue
<1>4. CASE c \notin DOMAIN entries
  <2>1. inbox' = inbox
    BY <1>1, <1>4 DEF Put
  <2>2. QED
    BY <1>1, <1>4, <2>1
<1>5. QED
  BY <1>3, <1>4

\* A worker reports a finding.
LEMMA ReportStep == ASSUME IInv, NEW c \in Calls, Report(c) PROVE IInv'
<1>1. PICK i \in worker[c].left :
        Put(c, <<Finding(i)>>) /\ worker' = [worker EXCEPT ![c].left = @ \ {i}]
  BY DEF Report
<1>2. worker[c].pc = "running" /\ UNCHANGED <<call, entries, clock>>
  BY DEF Report
<1>3. worker[c] \in Workers /\ i \in Nat
  BY DEF IInv, TypeOK, Workers
<1>4. /\ Finding(i) \in Messages
      /\ Finding(i).kind = "finding" /\ Finding(i).index = i
  BY <1>3 DEF Finding, Messages
<1>5. /\ worker' \in [Calls -> Workers]
      /\ worker'[c].pc = "running" /\ worker'[c].left = worker[c].left \ {i}
      /\ \A d \in Calls \ {c} : worker'[d] = worker[d]
  BY <1>1, <1>2, <1>3 DEF IInv, TypeOK, Workers
<1>6. /\ inbox' \in [Calls -> Seq(Messages)]
      /\ \A d \in Calls : d # c \/ c \notin DOMAIN entries => inbox'[d] = inbox[d]
      /\ c \in DOMAIN entries =>
           /\ Findings(inbox'[c]) = Findings(inbox[c]) \union {i}
           /\ Verdicts(inbox'[c]) = Verdicts(inbox[c])
  BY <1>1, <1>4, PutStep
<1>7. TypeOK'
  BY <1>2, <1>5, <1>6 DEF IInv, TypeOK
<1>8. Fresh'
  BY <1>2, <1>5, <1>6 DEF IInv, Fresh
<1>9. ASSUME NEW d \in DOMAIN entries PROVE Covered(d)'
  <2>1. d \in Calls /\ Covered(d)
    BY <1>9 DEF IInv, TypeOK
  <2>2. CASE d # c
    BY <1>2, <1>5, <1>6, <2>1, <2>2 DEF Covered, Known
  <2>3. CASE d = c
    <3>1. Known(c)' = Known(c) \union {i}
      BY <1>2, <1>6, <2>3 DEF Known
    <3>2. QED
      BY <1>1, <1>2, <1>5, <1>6, <2>1, <2>3, <3>1 DEF Covered
  <2>4. QED
    BY <2>2, <2>3
<1>10. QED
  BY <1>2, <1>7, <1>8, <1>9 DEF IInv

\* A worker ends, with every finding reported or with an exception.
LEMMA EndStep ==
  ASSUME IInv, NEW c \in Calls, NEW s \in {"COMPLETE", "FAILED"}, End(c, <<Done(s)>>),
         s = "COMPLETE" => worker[c].left = {}
  PROVE  IInv'
<1>1. /\ worker[c].pc = "running" /\ UNCHANGED <<call, entries, clock>>
      /\ Put(c, <<Done(s)>>)
      /\ worker' = [worker EXCEPT ![c] = [pc |-> "ended", left |-> {}]]
  BY DEF End
<1>2. Done(s) \in Messages /\ Done(s).kind = "done" /\ Done(s).status = s
  BY DEF Done, Messages
<1>3. /\ worker' \in [Calls -> Workers] /\ worker'[c].pc = "ended"
      /\ \A d \in Calls \ {c} : worker'[d] = worker[d]
  BY <1>1 DEF IInv, TypeOK, Workers
<1>4. /\ inbox' \in [Calls -> Seq(Messages)]
      /\ \A d \in Calls : d # c \/ c \notin DOMAIN entries => inbox'[d] = inbox[d]
      /\ c \in DOMAIN entries =>
           /\ Findings(inbox'[c]) = Findings(inbox[c])
           /\ Verdicts(inbox'[c]) = Verdicts(inbox[c]) \union {s}
  BY <1>1, <1>2, PutStep
<1>5. TypeOK'
  BY <1>1, <1>3, <1>4 DEF IInv, TypeOK
<1>6. Fresh'
  BY <1>1, <1>3, <1>4 DEF IInv, Fresh
<1>7. ASSUME NEW d \in DOMAIN entries PROVE Covered(d)'
  <2>1. d \in Calls /\ Covered(d)
    BY <1>7 DEF IInv, TypeOK
  <2>2. CASE d # c
    BY <1>1, <1>3, <1>4, <2>1, <2>2 DEF Covered, Known
  <2>3. CASE d = c
    <3>1. Known(c)' = Known(c)
      BY <1>1, <1>4, <2>3 DEF Known
    <3>2. QED
      BY <1>1, <1>3, <1>4, <2>1, <2>3, <3>1 DEF Covered
  <2>4. QED
    BY <2>2, <2>3
<1>8. QED
  BY <1>1, <1>5, <1>6, <1>7 DEF IInv

-----------------------------------------------------------------------------

\* The invariant holds initially.
LEMMA InvInit == Init => IInv
<1> SUFFICES ASSUME Init PROVE IInv
  OBVIOUS
<1>1. DOMAIN entries = {}
  BY DEF Init
<1>2. IsFiniteSet(DOMAIN entries) /\ Cardinality(DOMAIN entries) = 0
  BY <1>1, FS_EmptySet
<1>3. TypeOK
  BY <1>1, <1>2, BoundsAssumption DEF Init, TypeOK, CallStates, Workers
<1>4. QED
  BY <1>1, <1>2, <1>3 DEF IInv, Fresh, Init

\* Every step keeps the invariant.
LEMMA InvNext == IInv /\ [Next]_vars => IInv'
<1> SUFFICES ASSUME IInv, [Next]_vars PROVE IInv'
  OBVIOUS
<1>1. ASSUME NEW c \in Calls, NEW r \in Requests, AnswerDuplicate(c, r) PROVE IInv'
  <2>1. PICK d \in Duplicates(r) : Returned(c, d)
    BY <1>1 DEF AnswerDuplicate
  <2>2. d \in Calls
    BY PrunedType DEF Duplicates
  <2>3. /\ call' \in [Calls -> CallStates] /\ call'[c].pc = "returned"
        /\ \A e \in Calls \ {c} : call'[e] = call[e]
    BY <2>1, <2>2 DEF Returned, CallStates, IInv, TypeOK
  <2>4. QED
    BY <1>1, <2>3, PruneStep DEF AnswerDuplicate
<1>2. ASSUME NEW c \in Calls, NEW r \in Requests, RefuseForCapacity(c, r) PROVE IInv'
  <2>1. /\ call' \in [Calls -> CallStates] /\ call'[c].pc = "refused"
        /\ \A e \in Calls \ {c} : call'[e] = call[e]
    BY <1>2 DEF RefuseForCapacity, Raised, CallStates, IInv, TypeOK
  <2>2. QED
    BY <1>2, <2>1, PruneStep DEF RefuseForCapacity
<1>3. ASSUME NEW c \in Calls, Receipt(c) PROVE IInv'
  <2>1. /\ call' \in [Calls -> CallStates] /\ call'[c].pc \in {"returned", "asserted"}
        /\ \A e \in Calls \ {c} : call'[e] = call[e]
    <3>1. \/ call' = [call EXCEPT ![c] = [pc |-> "returned", receipt |-> c]]
          \/ call' = [call EXCEPT ![c] = [pc |-> "asserted"]]
      BY <1>3 DEF Receipt, Returned, Raised
    <3>2. /\ [pc |-> "returned", receipt |-> c] \in CallStates
          /\ [pc |-> "asserted"] \in CallStates
      BY DEF CallStates
    <3>3. call \in [Calls -> CallStates]
      BY DEF IInv, TypeOK
    <3>4. ASSUME NEW s \in CallStates, call' = [call EXCEPT ![c] = s]
          PROVE  /\ call' \in [Calls -> CallStates] /\ call'[c] = s
                 /\ \A e \in Calls \ {c} : call'[e] = call[e]
      BY <3>3, <3>4
    <3>5. CASE call' = [call EXCEPT ![c] = [pc |-> "returned", receipt |-> c]]
      BY <3>2, <3>4, <3>5
    <3>6. CASE call' = [call EXCEPT ![c] = [pc |-> "asserted"]]
      BY <3>2, <3>4, <3>6
    <3>7. QED
      BY <3>1, <3>5, <3>6
  <2>2. QED
    BY <1>3, <2>1, PruneStep DEF Receipt
<1>4. CASE Read
  <2>1. call' \in [Calls -> CallStates]
    BY <1>4 DEF Read, IInv, TypeOK
  <2>2. QED
    BY <1>4, <2>1, PruneStep DEF Read
<1>5. ASSUME NEW c \in Calls, Collector(c) PROVE IInv'
  <2>1. CASE Report(c)
    BY <2>1, ReportStep
  <2>2. CASE Finish(c)
    BY <2>2, EndStep DEF Finish
  <2>3. CASE Raise(c)
    BY <2>3, EndStep DEF Raise
  <2>4. QED
    BY <1>5, <2>1, <2>2, <2>3 DEF Collector
<1>6. CASE Tick
  <2>1. clock' \in 0 .. MaxClock
    BY <1>6, BoundsAssumption DEF Tick, IInv, TypeOK
  <2>2. QED
    BY <1>6, <2>1 DEF Tick, IInv, TypeOK, Fresh, Covered, Known
<1>7. CASE UNCHANGED vars
  BY <1>7 DEF vars, IInv, TypeOK, Fresh, Covered, Known
<1>8. QED
  BY <1>1, <1>2, <1>3, <1>4, <1>5, <1>6, <1>7, InsertStep, SpawnStep DEF Next, Caller

\* Every variable of the registry stays in its type, and the table within
\* MaxEntries however calls, expiry and evictions interleave.
THEOREM TypeCorrect == Spec => []TypeOK
<1>1. IInv => TypeOK
  BY DEF IInv
<1>2. QED
  BY <1>1, InvInit, InvNext, PTL DEF Spec

\* A verification reported COMPLETE has a conclusion on every assertion: what is
\* found, what waits in the inbox and what the worker has still to look up add up
\* to the request, and the verdict is put behind the last finding.
THEOREM CompleteIsComplete == Spec => []CompleteHasEveryFinding
<1>1. IInv => CompleteHasEveryFinding
  BY DEF IInv, Covered, CompleteHasEveryFinding
<1>2. QED
  BY <1>1, InvInit, InvNext, PTL DEF Spec

-----------------------------------------------------------------------------
(* What leaves the table, and who collects.                                *)

\* How a step changes the table: not at all, by draining and pruning, or by an
\* insertion, which takes ended entries out and is made for a request that no
\* entry answers.
LEMMA TableStep ==
  ASSUME IInv, [Next]_vars
  PROVE  \/ entries' = entries
         \/ entries' = Pruned
         \/ \E c \in Calls, r \in Requests :
              /\ Duplicates(r) = {} /\ entries'[c].request = r
              /\ \E victims \in SUBSET Finished :
                   /\ DOMAIN entries' = (DOMAIN Pruned \ victims) \union {c}
                   /\ \A d \in DOMAIN Pruned \ victims :
                        d # c /\ entries'[d] = Drained(d)
<1>1. ASSUME NEW c \in Calls, NEW r \in Requests, Insert(c, r)
      PROVE  /\ Duplicates(r) = {} /\ entries'[c].request = r
             /\ \E victims \in SUBSET Finished :
                  /\ DOMAIN entries' = (DOMAIN Pruned \ victims) \union {c}
                  /\ \A d \in DOMAIN Pruned \ victims :
                       d # c /\ entries'[d] = Drained(d)
  <2>1. PICK victims \in IF Full THEN {{d} : d \in Oldest} ELSE {{}} :
          entries' = RoomFor(c, r, victims)
    BY <1>1 DEF Insert
  <2>2. victims \in SUBSET Finished
    BY <2>1 DEF Oldest
  <2>3. c \notin DOMAIN Pruned
    BY <1>1, PrunedType DEF IInv, Fresh, Insert
  <2>4. /\ DOMAIN entries' = (DOMAIN Pruned \ victims) \union {c}
        /\ entries'[c].request = r
        /\ \A d \in DOMAIN Pruned \ victims : d # c /\ entries'[d] = Drained(d)
    BY <2>1, <2>3, PrunedType DEF RoomFor
  <2>5. QED
    BY <1>1, <2>2, <2>4 DEF Insert
<1>2. CASE \E c \in Calls, r \in Requests : Insert(c, r)
  BY <1>1, <1>2
<1>3. CASE \E c \in Calls : \/ Receipt(c)
                            \/ \E r \in Requests : AnswerDuplicate(c, r)
                                                   \/ RefuseForCapacity(c, r)
  BY <1>3 DEF Receipt, AnswerDuplicate, RefuseForCapacity
<1>4. CASE Read
  BY <1>4 DEF Read
<1>5. CASE Tick \/ UNCHANGED vars \/ \E c \in Calls : Spawn(c) \/ Collector(c)
  BY <1>5 DEF Tick, vars, Spawn, Collector, Report, Finish, Raise, End
<1>6. QED
  BY <1>2, <1>3, <1>4, <1>5 DEF Next, Caller

\* Making room only drops verifications that have ended; a running one leaves the
\* table by age alone.
THEOREM CapacityIsSparing == Spec => CapacitySparesRunning
<1> DEFINE Spares == \A c \in DOMAIN entries :
       c \notin DOMAIN entries' =>
         Expired(c) \/ entries[c].status # "RUNNING" \/ Verdicts(inbox[c]) # {}
<1>1. IInv /\ [Next]_vars => [Spares]_vars
  <2> SUFFICES ASSUME IInv, [Next]_vars, NEW c \in DOMAIN entries,
                      c \notin DOMAIN entries', ~Expired(c)
               PROVE  entries[c].status # "RUNNING" \/ Verdicts(inbox[c]) # {}
    OBVIOUS
  <2>1. c \in DOMAIN Pruned
    BY DEF Pruned, Kept
  <2>2. c \in Finished
    BY <2>1, TableStep
  <2>3. Drained(c).status # "RUNNING"
    BY <2>1, <2>2, PrunedType DEF Finished
  <2>4. QED
    BY <2>3, DrainedType DEF IInv
<1>2. QED
  BY <1>1, InvInit, InvNext, PTL DEF Spec, CapacitySparesRunning

\* Entries that have not failed are for different requests.
Unique ==
  \A c, d \in DOMAIN entries :
    /\ entries[c].request = entries[d].request
    /\ entries[c].status # "FAILED" /\ entries[d].status # "FAILED"
    => c = d

\* Draining does not bring a failed entry back.
LEMMA FailedStays ==
  ASSUME IInv, NEW c \in DOMAIN entries, entries[c].status = "FAILED"
  PROVE  Drained(c).status = "FAILED"
<1>1. TypeOK /\ Covered(c)
  BY DEF IInv
<1>2. Verdicts(inbox[c]) = {}
  BY <1>1 DEF Covered
<1>3. QED
  BY <1>1, <1>2, DrainedType

\* Entries stay unique: one is only made when none that has not failed asks for the same.
LEMMA UniqueNext == IInv /\ Unique /\ [Next]_vars => Unique'
<1> SUFFICES ASSUME IInv, Unique, [Next]_vars PROVE Unique'
  OBVIOUS
<1>1. \A c \in DOMAIN Pruned :
        /\ c \in DOMAIN entries /\ Pruned[c] = Drained(c)
        /\ Drained(c).request = entries[c].request
        /\ Drained(c).status # "FAILED" => entries[c].status # "FAILED"
  BY PrunedType, DrainedType, FailedStays DEF IInv
<1>2. CASE entries' = entries
  BY <1>2 DEF Unique
<1>3. CASE entries' = Pruned
  BY <1>1, <1>3 DEF Unique
<1>4. ASSUME NEW c \in Calls, NEW r \in Requests, NEW victims \in SUBSET Finished,
             Duplicates(r) = {}, entries'[c].request = r,
             DOMAIN entries' = (DOMAIN Pruned \ victims) \union {c},
             \A d \in DOMAIN Pruned \ victims : d # c /\ entries'[d] = Drained(d)
      PROVE  Unique'
  <2>1. \A d \in DOMAIN Pruned \ victims :
          entries'[d].request = r => entries'[d].status = "FAILED"
    BY <1>1, <1>4 DEF Duplicates
  <2>2. \A d, e \in DOMAIN Pruned \ victims :
          /\ entries'[d].request = entries'[e].request
          /\ entries'[d].status # "FAILED" /\ entries'[e].status # "FAILED"
          => d = e
    BY <1>1, <1>4 DEF Unique
  <2>3. QED
    BY <1>4, <2>1, <2>2 DEF Unique
<1>5. QED
  BY <1>2, <1>3, <1>4, TableStep

\* The same assertions are collected twice at once only after the retention has
\* dropped the entry of one of the two: an entry is only made when none that has
\* not failed asks for the same, and a worker that runs has an entry that is RUNNING.
THEOREM CollectedOnce == Spec => []OneCollectionPerRequest
<1>1. Init => Unique
  BY DEF Init, Unique
<1>2. IInv /\ Unique /\ [Next]_vars => Unique'
  BY UniqueNext
<1>3. IInv /\ Unique => OneCollectionPerRequest
  <2> SUFFICES ASSUME IInv, Unique PROVE OneCollectionPerRequest
    OBVIOUS
  <2>1. \A c \in DOMAIN entries : worker[c].pc = "running" => entries[c].status = "RUNNING"
    BY DEF IInv, Covered
  <2>2. QED
    BY <2>1 DEF Unique, OneCollectionPerRequest
<1>4. QED
  BY <1>1, <1>2, <1>3, InvInit, InvNext, PTL DEF Spec

-----------------------------------------------------------------------------
(* When a call is refused.                                                 *)

\* A call is refused only when every slot is held by a verification that has not
\* ended, whether or not anybody has polled: what waits in the inboxes is drained
\* before the table is called full.
THEOREM RefusedWhenAllRun == Spec => RefusedOnlyWhenAllRun
<1> DEFINE AllRun == \A c \in Calls :
       call[c].pc # "refused" /\ call'[c].pc = "refused" =>
         /\ Cardinality(DOMAIN entries') = MaxEntries
         /\ \A d \in DOMAIN entries' : entries'[d].status = "RUNNING"
                                       /\ Verdicts(inbox[d]) = {}
<1>1. IInv /\ [Next]_vars => [AllRun]_vars
  <2> SUFFICES ASSUME IInv, [Next]_vars, NEW c \in Calls,
                      call[c].pc # "refused", call'[c].pc = "refused"
               PROVE  /\ Cardinality(DOMAIN entries') = MaxEntries
                      /\ \A d \in DOMAIN entries' : entries'[d].status = "RUNNING"
                                                    /\ Verdicts(inbox[d]) = {}
    OBVIOUS
  <2>1. call \in [Calls -> CallStates]
    BY DEF IInv, TypeOK
  <2>2. PICK d \in Calls, r \in Requests : RefuseForCapacity(d, r)
    <3>1. ASSUME NEW d \in Calls, NEW s, call' = [call EXCEPT ![d] = s],
                 s.pc # "refused"
          PROVE  FALSE
      BY <2>1, <3>1
    <3>2. ASSUME NEW d \in Calls, NEW r \in Requests
          PROVE  ~AnswerDuplicate(d, r) /\ ~Insert(d, r)
      BY <3>1 DEF AnswerDuplicate, Returned, Insert, Registered
    <3>3. ASSUME NEW d \in Calls PROVE ~Spawn(d) /\ ~Receipt(d)
      BY <3>1 DEF Spawn, Registered, Receipt, Returned, Raised
    <3>4. ASSUME NEW d \in Calls PROVE ~Collector(d)
      BY DEF Collector, Report, Finish, Raise, End
    <3>5. ~Read /\ ~Tick /\ ~UNCHANGED vars
      BY DEF Read, Tick, vars
    <3>6. QED
      BY <3>2, <3>3, <3>4, <3>5 DEF Next, Caller
  <2>3. Full /\ Finished = {} /\ entries' = Pruned
    BY <2>2 DEF RefuseForCapacity
  <2>4. Cardinality(DOMAIN entries') = MaxEntries
    BY <2>3, PrunedType, BoundsAssumption DEF Full
  <2>5. ASSUME NEW e \in DOMAIN entries'
        PROVE  entries'[e].status = "RUNNING" /\ Verdicts(inbox[e]) = {}
    <3>1. entries'[e] = Drained(e) /\ e \in DOMAIN entries /\ entries'[e].status = "RUNNING"
      BY <2>3, <2>5, PrunedType DEF Finished
    <3>2. inbox[e] \in Seq(Messages)
      BY <3>1 DEF IInv, TypeOK
    <3>3. QED
      BY <3>1, <3>2, DrainedType, QueueTypes DEF IInv
  <2>6. QED
    BY <2>4, <2>5
<1>2. QED
  BY <1>1, InvInit, InvNext, PTL DEF Spec, RefusedOnlyWhenAllRun

-----------------------------------------------------------------------------
(* The registry implements the promise made to hosts.                      *)

\* A call that has no entry and never will, unless it has not begun.
Unregistered(c) == \/ call[c].pc \in {"idle", "refused"}
                   \/ call[c].pc = "returned" /\ call[c].receipt # c

\* What hosts see of an id.
View(c) ==
  IF c \in DOMAIN entries
  THEN [status |-> entries[c].status, request |-> entries[c].request,
        found |-> entries[c].found]
  ELSE IF Unregistered(c) THEN [status |-> "unused"] ELSE [status |-> "forgotten"]

\* An entry belongs to a call that made it, and a failed one learns nothing more.
RInv == /\ \A c \in DOMAIN entries : ~Unregistered(c)
        /\ \A c \in DOMAIN entries : entries[c].status = "FAILED" => Findings(inbox[c]) = {}

\* Draining an entry advances what hosts see of it.
LEMMA DrainedAdvances ==
  ASSUME IInv, RInv, NEW c \in DOMAIN entries, c \in DOMAIN entries',
         entries'[c] = Drained(c)
  PROVE  Promise!Advances(View(c), View(c)')
<1> DEFINE old == entries[c]
           new == entries'[c]
           A == Assertions(old.request)
<1>1. TypeOK /\ Covered(c) /\ c \in Calls
  BY DEF IInv, TypeOK
<1>2. /\ old \in Entries /\ new \in Entries /\ new.request = old.request
      /\ new.found = Known(c)
      /\ Verdicts(inbox[c]) = {} => new.status = old.status
      /\ Verdicts(inbox[c]) # {} => new.status \in Verdicts(inbox[c])
  BY <1>1, DrainedType DEF TypeOK
<1>3. /\ old.request \in Requests
      /\ old.status \in {"RUNNING", "COMPLETE", "FAILED"}
      /\ new.status \in {"RUNNING", "COMPLETE", "FAILED"}
      /\ old.found \subseteq A /\ new.found \subseteq A /\ old.found \subseteq new.found
  BY <1>2 DEF Entries, Known
<1>4. /\ View(c) = [status |-> old.status, request |-> old.request, found |-> old.found]
      /\ View(c)' = [status |-> new.status, request |-> old.request, found |-> new.found]
  BY <1>2 DEF View
<1>5. CASE old.status = "RUNNING"
  <2>1. new.status = "COMPLETE" => new.found = A
    <3>1. worker[c].pc \in {"none", "running", "ended"}
      BY <1>1 DEF TypeOK, Workers
    <3>2. new.status = "COMPLETE" => "COMPLETE" \in Verdicts(inbox[c])
      BY <1>2, <1>5
    <3>3. QED
      BY <1>1, <1>2, <1>3, <3>1, <3>2 DEF Covered
  <2>2. View(c)' \in Promise!Shown(new.status)
    <3>1. new.found \in SUBSET UNION {Promise!Assertions(r) : r \in Requests}
      BY <1>3 DEF Assertions, Promise!Assertions
    <3>2. QED
      BY <1>3, <1>4, <3>1 DEF Promise!Shown, Assertions, Promise!Assertions
  <2>3. View(c)' \in Promise!Progress(View(c))
    BY <1>3, <1>4, <2>1, <2>2 DEF Promise!Progress, Assertions, Promise!Assertions
  <2>4. QED
    BY <1>4, <1>5, <2>3 DEF Promise!Advances
<1>6. CASE old.status # "RUNNING"
  <2>1. Verdicts(inbox[c]) = {}
    BY <1>1, <1>6 DEF Covered
  <2>2. Findings(inbox[c]) \subseteq old.found
    BY <1>1, <1>3, <1>6 DEF Covered, Known, RInv
  <2>3. View(c)' = View(c)
    BY <1>2, <1>4, <2>1, <2>2 DEF Known
  <2>4. QED
    BY <2>3 DEF Promise!Advances
<1>7. QED
  BY <1>5, <1>6

\* The entry of a call that begins is one a host may be given.
LEMMA FirstViewAccepted ==
  ASSUME NEW r \in Requests, NEW t,
         t = [status |-> IF r.malformed = Assertions(r) THEN "COMPLETE" ELSE "RUNNING",
              request |-> r, found |-> r.malformed]
  PROVE  t \in Promise!Accepted
<1>1. r.malformed \subseteq Assertions(r)
  BY RequestsAssumption DEF Assertions
<1>2. r.malformed \in SUBSET UNION {Promise!Assertions(q) : q \in Requests}
  BY <1>1 DEF Assertions, Promise!Assertions
<1>3. t \in Promise!Shown(t.status)
  BY <1>1, <1>2 DEF Promise!Shown, Assertions, Promise!Assertions
<1>4. QED
  BY <1>1, <1>3 DEF Promise!Accepted, Assertions, Promise!Assertions

\* The steps that make no entry: they drain, or leave the table and the inboxes of what
\* has failed, and give no call an entry and take it from none.
LEMMA CallStep ==
  ASSUME IInv, RInv, [Next]_vars, ~\E c \in Calls, r \in Requests : Insert(c, r)
  PROVE  /\ \/ entries' = Pruned /\ EmptyInbox
            \/ /\ entries' = entries
               /\ \A d \in DOMAIN entries :
                    entries[d].status = "FAILED" => inbox'[d] = inbox[d]
         /\ \A d \in Calls : Unregistered(d)' <=> Unregistered(d)
<1> DEFINE Drains == entries' = Pruned /\ EmptyInbox
           Leaves == /\ entries' = entries
                     /\ \A d \in DOMAIN entries :
                          entries[d].status = "FAILED" => inbox'[d] = inbox[d]
           Same == \A d \in Calls : Unregistered(d)' <=> Unregistered(d)
<1>1. call \in [Calls -> CallStates] /\ inbox \in [Calls -> Seq(Messages)]
      /\ DOMAIN entries \subseteq Calls
  BY DEF IInv, TypeOK
<1>2. ASSUME NEW c \in Calls, NEW s, call' = [call EXCEPT ![c] = s],
             Unregistered(c) <=> \/ s.pc \in {"idle", "refused"}
                                 \/ s.pc = "returned" /\ s.receipt # c
      PROVE  Same
  <2>1. call'[c] = s /\ \A d \in Calls \ {c} : call'[d] = call[d]
    BY <1>1, <1>2
  <2>2. QED
    BY <1>2, <2>1 DEF Unregistered
<1>3. ASSUME NEW c \in Calls, NEW r \in Requests, AnswerDuplicate(c, r)
      PROVE  Drains /\ Same
  <2>1. PICK d \in Duplicates(r) : Returned(c, d)
    BY <1>3 DEF AnswerDuplicate
  <2>2. d # c /\ Unregistered(c)
    BY <1>3, PrunedType DEF Duplicates, AnswerDuplicate, IInv, Fresh, Unregistered
  <2>3. Same
    BY <1>2, <2>1, <2>2 DEF Returned
  <2>4. QED
    BY <1>3, <2>3 DEF AnswerDuplicate
<1>4. ASSUME NEW c \in Calls, NEW r \in Requests, RefuseForCapacity(c, r)
      PROVE  Drains /\ Same
  BY <1>2, <1>4 DEF RefuseForCapacity, Raised, Unregistered
<1>5. ASSUME NEW c \in Calls, Spawn(c) PROVE Leaves /\ Same
  BY <1>2, <1>5 DEF Spawn, Registered, Unregistered
<1>6. ASSUME NEW c \in Calls, Receipt(c) PROVE Drains /\ Same
  <2>1. ~Unregistered(c)
    BY <1>6 DEF Receipt, Unregistered
  <2>2. CASE Returned(c, c)
    BY <1>2, <1>6, <2>1, <2>2 DEF Receipt, Returned
  <2>3. CASE Raised(c, "asserted")
    BY <1>2, <1>6, <2>1, <2>3 DEF Receipt, Raised
  <2>4. QED
    BY <1>6, <2>2, <2>3 DEF Receipt
<1>7. CASE Read
  BY <1>7 DEF Read, Unregistered
<1>8. ASSUME NEW c \in Calls, Collector(c) PROVE Leaves /\ Same
  <2>1. /\ worker[c].pc = "running" /\ entries' = entries /\ call' = call
        /\ \E m : Put(c, m)
    BY <1>8 DEF Collector, Report, Finish, Raise, End
  <2>2. c \in DOMAIN entries => entries[c].status = "RUNNING"
    BY <2>1 DEF IInv, Covered
  <2>3. \A d \in Calls \ {c} : inbox'[d] = inbox[d]
    BY <1>1, <2>1 DEF Put
  <2>4. QED
    BY <1>1, <2>1, <2>2, <2>3 DEF Unregistered
<1>9. CASE Tick \/ UNCHANGED vars
  BY <1>9 DEF Tick, vars, Unregistered
<1>10. QED
  BY <1>3, <1>4, <1>5, <1>6, <1>7, <1>8, <1>9 DEF Next, Caller

\* What a step that makes an entry does to the table and the calls.
LEMMA InsertView ==
  ASSUME IInv, RInv, NEW c \in Calls, NEW r \in Requests, Insert(c, r)
  PROVE  /\ c \notin DOMAIN entries /\ Unregistered(c)
         /\ c \in DOMAIN entries' /\ ~Unregistered(c)'
         /\ View(c)' = [status |-> IF r.malformed = Assertions(r) THEN "COMPLETE"
                                   ELSE "RUNNING",
                        request |-> r, found |-> r.malformed]
         /\ EmptyInbox
         /\ \A d \in Calls \ {c} :
              /\ Unregistered(d)' <=> Unregistered(d)
              /\ d \in DOMAIN entries' => d \in DOMAIN entries /\ entries'[d] = Drained(d)
<1>1. PICK victims \in IF Full THEN {{d} : d \in Oldest} ELSE {{}} :
        entries' = RoomFor(c, r, victims)
  BY DEF Insert
<1>2. c \notin DOMAIN entries /\ c \notin DOMAIN Pruned
  BY PrunedType DEF IInv, Fresh, Insert
<1>3. /\ c \in DOMAIN entries' /\ entries'[c].request = r /\ entries'[c].found = r.malformed
      /\ entries'[c].status = IF r.malformed = Assertions(r) THEN "COMPLETE" ELSE "RUNNING"
      /\ \A d \in Calls \ {c} :
           d \in DOMAIN entries' => d \in DOMAIN entries /\ entries'[d] = Drained(d)
  BY <1>1, <1>2, PrunedType DEF RoomFor
<1>4. call'[c].pc = "inserted" /\ \A d \in Calls \ {c} : call'[d] = call[d]
  BY DEF Insert, Registered, IInv, TypeOK
<1>5. QED
  BY <1>2, <1>3, <1>4 DEF Insert, View, Unregistered

\* Every step keeps it.
LEMMA RInvNext == IInv /\ RInv /\ [Next]_vars => RInv'
<1> SUFFICES ASSUME IInv, RInv, [Next]_vars PROVE RInv'
  OBVIOUS
<1>1. DOMAIN entries' \subseteq Calls
  BY InvNext DEF IInv, TypeOK
<1>2. EmptyInbox => \A d \in Calls : Findings(inbox'[d]) = {}
  BY EmptyQueue DEF EmptyInbox
<1>3. ASSUME NEW c \in Calls, NEW r \in Requests, Insert(c, r) PROVE RInv'
  BY <1>1, <1>2, <1>3, InsertView DEF RInv
<1>4. CASE ~\E c \in Calls, r \in Requests : Insert(c, r)
  <2>1. DOMAIN entries' \subseteq DOMAIN entries
    BY <1>4, CallStep, PrunedType
  <2>2. \A d \in DOMAIN entries' : ~Unregistered(d)'
    BY <1>1, <1>4, <2>1, CallStep DEF RInv
  <2>3. CASE EmptyInbox
    BY <1>1, <1>2, <2>2, <2>3 DEF RInv
  <2>4. CASE /\ entries' = entries
             /\ \A d \in DOMAIN entries :
                  entries[d].status = "FAILED" => inbox'[d] = inbox[d]
    BY <2>2, <2>4 DEF RInv
  <2>5. QED
    BY <1>4, <2>3, <2>4, CallStep
<1>5. QED
  BY <1>3, <1>4

\* Every step advances what hosts see of every id, or leaves it.
LEMMA ViewStep ==
  ASSUME IInv, RInv, [Next]_vars, NEW d \in Calls
  PROVE  Promise!Advances(View(d), View(d)')
<1>1. d \in DOMAIN entries => View(d) # [status |-> "unused"]
  BY DEF View
<1>2. ASSUME d \in DOMAIN entries, d \notin DOMAIN entries', ~Unregistered(d)'
      PROVE  Promise!Advances(View(d), View(d)')
  <2>1. View(d)' = [status |-> "forgotten"]
    BY <1>2 DEF View
  <2>2. QED
    BY <1>1, <1>2, <2>1 DEF Promise!Advances, Promise!Unused, Promise!Forgotten
<1>3. ASSUME d \notin DOMAIN entries, d \notin DOMAIN entries', Unregistered(d)' <=> Unregistered(d)
      PROVE  Promise!Advances(View(d), View(d)')
  BY <1>3 DEF View, Promise!Advances
<1>4. ASSUME NEW c \in Calls, NEW r \in Requests, Insert(c, r)
      PROVE  Promise!Advances(View(d), View(d)')
  <2>1. CASE d = c
    <3>1. View(c) = Promise!Unused
      BY <1>4, InsertView DEF View, Promise!Unused
    <3>2. View(c)' \in Promise!Accepted
      BY <1>4, InsertView, FirstViewAccepted
    <3>3. QED
      BY <2>1, <3>1, <3>2 DEF Promise!Advances
  <2>2. CASE d # c
    <3>1. CASE d \in DOMAIN entries'
      BY <1>4, <2>2, <3>1, InsertView, DrainedAdvances
    <3>2. CASE d \notin DOMAIN entries'
      BY <1>2, <1>3, <1>4, <2>2, <3>2, InsertView DEF RInv
    <3>3. QED
      BY <3>1, <3>2
  <2>3. QED
    BY <2>1, <2>2
<1>5. CASE ~\E c \in Calls, r \in Requests : Insert(c, r)
  <2>1. CASE entries' = entries
    BY <1>5, <2>1, CallStep DEF View, Promise!Advances
  <2>2. CASE entries' = Pruned
    <3>1. CASE d \in DOMAIN entries'
      BY <2>2, <3>1, PrunedType, DrainedAdvances
    <3>2. CASE d \notin DOMAIN entries'
      BY <1>2, <1>3, <1>5, <3>2, CallStep DEF RInv
    <3>3. QED
      BY <3>1, <3>2
  <2>3. QED
    BY <1>5, <2>1, <2>2, CallStep
<1>6. QED
  BY <1>4, <1>5

\* What hosts see implements the promise made to them, for any calls, lists of assertions,
\* slots and retention: each step of a thread, a call or the clock is a step of the promise
\* or shows nothing.
THEOREM PromiseKept == Spec => KeepsPromise
<1> DEFINE seen == [c \in Calls |->
      IF c \in DOMAIN entries
      THEN [status |-> entries[c].status, request |-> entries[c].request,
            found |-> entries[c].found]
      ELSE IF \/ call[c].pc \in {"idle", "refused"}
              \/ call[c].pc = "returned" /\ call[c].receipt # c
      THEN [status |-> "unused"] ELSE [status |-> "forgotten"]]
<1>1. Init => Promise!Init
  BY DEF Init, Promise!Init, IdleCall, Promise!Unused
<1>2. Init => RInv /\ Unique
  BY DEF Init, RInv, Unique
<1>3. IInv /\ RInv /\ Unique /\ [Next]_vars => RInv' /\ Unique'
  BY RInvNext, UniqueNext
<1>4. Unique' => Promise!OneIdPerRequest'
  <2> SUFFICES ASSUME Unique' PROVE Promise!OneIdPerRequest'
    OBVIOUS
  <2>1. ASSUME NEW c \in Calls, Promise!Known(c)'
        PROVE  /\ c \in DOMAIN entries' /\ entries'[c].status # "FAILED"
               /\ seen'[c].request = entries'[c].request
    BY <2>1 DEF Promise!Known
  <2>2. QED
    BY <2>1 DEF Unique, Promise!OneIdPerRequest
<1>5. IInv /\ RInv /\ [Next]_vars => \A d \in Calls : Promise!Advances(seen[d], seen'[d])
  BY ViewStep DEF View, Unregistered
<1>6. IInv /\ RInv /\ Unique' /\ [Next]_vars => [Promise!Next]_seen
  BY <1>4, <1>5 DEF Promise!Next
<1>7. QED
  BY <1>1, <1>2, <1>3, <1>6, InvInit, InvNext, PTL
  DEF Spec, KeepsPromise, Promise!Spec

=============================================================================
