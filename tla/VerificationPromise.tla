------------------------- MODULE VerificationPromise -------------------------
(***************************************************************************)
(* What a host that asked for verifications may rely on, whatever threads   *)
(* and queues produce it: an id it was given shows findings that only grow, *)
(* and then one verdict that never changes, until the id is forgotten for   *)
(* good; asking again for what is known gives the id that is known.         *)
(***************************************************************************)
EXTENDS Integers

CONSTANTS Calls, Requests

VARIABLE promise    \* per id: unused, forgotten, or what a read of it shows

Unused    == [status |-> "unused"]
Forgotten == [status |-> "forgotten"]

Assertions(r) == 1 .. r.total

Shown(s) == {v \in [status : {s}, request : Requests,
                    found : SUBSET UNION {Assertions(r) : r \in Requests}] :
                 v.found \subseteq Assertions(v.request)}

\* A first receipt has the malformed assertions, and nothing else, decided.
Accepted == {v \in Shown("RUNNING") \union Shown("COMPLETE") :
                 /\ v.found = v.request.malformed
                 /\ v.status = "COMPLETE" <=> v.found = Assertions(v.request)}

\* A verification in progress gains findings; complete means all of them.
Progress(old) ==
  {v \in Shown("RUNNING") \union Shown("COMPLETE") \union Shown("FAILED") :
      /\ v.request = old.request /\ old.found \subseteq v.found
      /\ v.status = "COMPLETE" => v.found = Assertions(v.request)}

Advances(old, new) ==
  \/ new = old
  \/ old = Unused /\ new \in Accepted
  \/ old.status = "RUNNING" /\ new \in Progress(old)
  \/ old # Unused /\ new = Forgotten

Known(c) == promise[c].status \in {"RUNNING", "COMPLETE"}
OneIdPerRequest ==
  \A c, d \in Calls : Known(c) /\ Known(d) /\ promise[c].request = promise[d].request
                      => c = d

Init == promise = [c \in Calls |-> Unused]
Next == /\ \A c \in Calls : Advances(promise[c], promise'[c])
        /\ OneIdPerRequest'
Spec == Init /\ [][Next]_promise

=============================================================================
