------------------------------- MODULE Planning -------------------------------
(* A plan from its compilation on: the planner action installs what the compiler   *)
(* makes of the evidence, and edits of the user rework it (agent_actions.py,        *)
(* destination_runtime.py, itinerary_planner.py).                                   *)
EXTENDS Replan

CONSTANTS
    Cases,      \* the trips and their evidence: records of trip and input
    Paces,      \* the paces an edit may ask for
    Lengths,    \* the minutes a visit may be given
    Clocks,     \* the times a day may be made to start at
    MaxChanges, \* bound on the changes made to a plan
    MaxAge      \* bound on the time the evidence is judged at

\* A trip ends on some day.  A route has an id, and the attractions whose names match
\* where it starts and where it leads; those of the map and of the web may be the same.
ASSUME CasesAssumption ==
    \A c \in Cases :
        /\ c.trip.earliest \in 0 .. DayLength - 1 /\ c.trip.latest \in Nat
        /\ \A dir \in DOMAIN c.input.train : c.input.train[dir] \in Nat \X Nat
        /\ c.input.routes \in
              Seq([id : STRING, from : SUBSET STRING, to : SUBSET STRING, minutes : Nat])
        /\ \A i, j \in DOMAIN c.input.routes : c.input.routes[i].id = c.input.routes[j].id => i = j
        /\ c.input.attractions \in [map : Seq([id : STRING \ {None}, minutes : Nat]),
                                    web : Seq([id : STRING \ {None}, minutes : Nat])]

ASSUME BoundsAssumption == Lengths \subseteq Nat /\ Clocks \subseteq Nat /\ MaxChanges \in Nat

VARIABLES
    trip,
    input,   \* the evidence of the run
    now,     \* the time the planner runs at
    state,   \* the planning state it came to
    plan,    \* the plan installed, with what its last edit reported
    edits,   \* the last edit
    changes  \* how many changes were made
vars == <<trip, input, now, state, plan, edits, changes>>

NoPlan == [event |-> <<>>, days |-> <<>>, conflicts |-> {}, unscheduled |-> {}]
Installed == plan # NoPlan

Size(e) == Cardinality(e.must) + Cardinality(e.removed) + Cardinality(e.locked)
    + Cardinality(DOMAIN e.forced) + Cardinality(DOMAIN e.minutes)
    + Cardinality(DOMAIN e.starts) + (IF e.pace = None THEN 0 ELSE 1)

VisitsOf(p) == {id \in Placed(p) : p.event[id].type = "attraction"}

\* An edit with one more change.
OneMore(p, e) ==
    {[e EXCEPT !.must = @ \union {a}] : a \in Attractions(p) \ e.must}
    \union {[e EXCEPT !.removed = @ \union {a}] : a \in Attractions(p) \ e.removed}
    \union {[e EXCEPT !.locked = @ \union {id}] : id \in IdsPlaced(p) \ e.locked}
    \union {[e EXCEPT !.pace = q] : q \in {x \in Paces : e.pace = None}}
    \union {[e EXCEPT !.forced = With(@, a, d)] :
                a \in Attractions(p) \ DOMAIN e.forced, d \in DOMAIN p.days}
    \union {[e EXCEPT !.minutes = With(@, a, m)] :
                a \in Attractions(p) \ DOMAIN e.minutes, m \in Lengths}
    \union {[e EXCEPT !.starts = With(@, d, t)] :
                d \in DOMAIN p.days \ DOMAIN e.starts, t \in Clocks}
EditsOf(p, room) ==
    LET grown(E, i) == E \union UNION {OneMore(p, e) : e \in E}
    IN  Loop(grown, {NoEdits}, room) \ {NoEdits}

-----------------------------------------------------------------------------
Init ==
    /\ \E c \in Cases : trip = c.trip /\ input = c.input
    /\ now \in 0 .. MaxAge
    /\ state = "none"
    /\ plan = NoPlan
    /\ edits = NoEdits
    /\ changes = 0

\* _planner_handler, which keeps a PlanVersion only of what may be installed.
Install(draft) ==
    LET days == Timetable(draft)
    IN  IF PlanningState(input, draft) \in InstallableStates
        THEN [event |-> days.event, days |-> days.days, conflicts |-> {}, unscheduled |-> {}]
        ELSE NoPlan

RunPlanner ==
    /\ state = "none"
    /\ LET draft == Compile(input, trip, now)
       IN  state' = PlanningState(input, draft) /\ plan' = Install(draft)
    /\ UNCHANGED <<trip, input, now, edits, changes>>

\* revise_destination_plan, of a plan that has days.  The edit may ask for another pace.
Revise ==
    /\ Installed
    /\ changes < MaxChanges
    /\ \E e \in EditsOf(plan, MaxChanges - changes) :
        /\ plan' = Replanned(plan, Settings(IF e.pace = None THEN trip.pace ELSE e.pace), e)
        /\ edits' = e
        /\ changes' = changes + Size(e)
    /\ UNCHANGED <<trip, input, now, state>>

\* A restart loads the plan from its file, where each listing is written out: from then
\* on each has an event of its own.
Reload ==
    LET rides == RideListings(plan)
    IN  /\ \E l, m \in rides : l # m /\ Key(plan, l) = Key(plan, m)
        /\ plan' = Separated(plan, [l \in rides |-> {l}])
        /\ UNCHANGED <<trip, input, now, state, edits, changes>>

Next == RunPlanner \/ Revise \/ Reload
Spec == Init /\ [][Next]_vars

-----------------------------------------------------------------------------
(* Properties.                                                                    *)

\* Type correctness; only rides are listed more than once.
TypeOK ==
    /\ [trip |-> trip, input |-> input] \in Cases
    /\ state \in {"none", "BLOCKED", "COLLECTING_EVIDENCE"} \union InstallableStates
    /\ Placed(plan) \subseteq DOMAIN plan.event
    /\ \A id \in Placed(plan) : plan.event[id].start \in Nat /\ plan.event[id].end \in Nat
    /\ \A d \in DOMAIN plan.days : \A k \in DOMAIN plan.days[d] :
          \A e \in DOMAIN plan.days : \A l \in DOMAIN plan.days[e] :
            plan.days[d][k] = plan.days[e][l] =>
                <<d, k>> = <<e, l>> \/ plan.days[d][k][1] = "local"
    /\ plan.unscheduled \intersect Attractions(plan) = {}
    /\ changes \in 0 .. MaxChanges

\* Two events that take some time lie on each other, and neither is meant to lie on
\* something.
LieOnEachOther(e, f) ==
    /\ e.overlaps = NoId /\ f.overlaps = NoId
    /\ e.start < e.end /\ f.start < f.end /\ Meets(e, f.start, f.end)
Clash(p, i, j) == i # j /\ LieOnEachOther(p.event[i], p.event[j])

\* A plan as the compiler installs it: a visit on the day of the arrival begins after
\* check-in, one on the day of the departure ends before check-out, and no meal and no
\* free time lies on anything else.
PlanIsSound ==
    Installed /\ edits = NoEdits =>
        /\ \A v \in VisitsOf(plan) :
            /\ DayOf(plan.event[v].start) = DayOf(plan.event[CheckIn].end) =>
                    plan.event[v].start >= plan.event[CheckIn].end
            /\ DayOf(plan.event[v].start) = DayOf(plan.event[CheckOut].start) =>
                    plan.event[v].end <= plan.event[CheckOut].start
        /\ \A d \in DOMAIN plan.days : \A i, j \in On(plan, d) :
            i[1] \in {"meal", "free"} => ~Clash(plan, i, j)

\* An edit that locks an event leaves it where it was last listed, at its time, and
\* nowhere else; only the removal of the attraction it goes with takes it away.
LockedStay ==
    [][changes' # changes =>
        \A id \in IdsPlaced(plan) \intersect edits'.locked :
            LET was == LastListing(plan, id)
                listed == {d \in DOMAIN plan'.days : id \in IdsOn(plan', d)}
            IN  \/ /\ listed = {was.day} /\ id \in On(plan', was.day)
                   /\ plan'.event[id] = was.event
                \/ was.event.goesWith \in edits'.removed /\ listed = {}]_vars

\* An attraction that an edit takes out of the plan was removed by the user, who did not
\* ask to visit it, or is kept as one without a place and reported.
NobodyIsLost ==
    [][changes' # changes =>
        \A a \in Attractions(plan) \ Attractions(plan') :
            \/ a \in edits'.removed \ edits'.must
            \/ a \in plan'.unscheduled
                /\ <<"forced_day_capacity", a>> \in plan'.conflicts]_vars

\* Event j begins while i lasts, and neither is meant to lie on the other.
BeginsDuring(p, i, j) ==
    /\ p.event[i].overlaps # j /\ p.event[j].overlaps # i
    /\ p.event[i].start <= p.event[j].start /\ p.event[j].start < p.event[i].end

\* Of what is listed on a day, nothing begins while something else lasts.
Calm(p, d) ==
    \A k, l \in DOMAIN p.days[d] : k # l => ~BeginsDuring(p, p.days[d][k], p.days[d][l])

\* An edit that makes two events of a day lie on each other, where none began during
\* another before, says so; unless a meal is taken during one of the two.
OverlapsAreTold ==
    [][changes' # changes =>
        \A d \in DOMAIN plan.days :
            /\ Calm(plan, d)
            /\ \E i, j \in On(plan', d) :
                /\ Clash(plan', i, j)
                /\ \A id \in On(plan', d) : plan'.event[id].overlaps \notin {i, j}
            => \E c \in plan'.conflicts : c[1] = "timeline_overlap" /\ c[2][1] = d]_vars

-----------------------------------------------------------------------------
(* What documents of the code say and its steps do not keep.                    *)

\* PLAN.md:159: activities do not overlap.
VisitsDoNotOverlap ==
    Installed /\ edits = NoEdits =>
        \A i, j \in VisitsOf(plan) : ~Clash(plan, i, j)

\* planning_input_compiler.py:866: an attraction for which there is no time before the
\* return is left out.
VisitsPrecedeReturn ==
    Installed /\ edits = NoEdits =>
        \A v \in VisitsOf(plan) : plan.event[v].end <= plan.event[CheckOut].start

\* PLAN.md:159 of an edited plan: one in which a day's events came to lie on each other
\* says so.  The review compares neighbours: a meal on a train hides what follows.
EveryOverlapIsTold ==
    [][changes' # changes =>
        \A d \in DOMAIN plan.days :
            /\ Calm(plan, d)
            /\ \E i, j \in On(plan', d) : Clash(plan', i, j)
            => \E c \in plan'.conflicts : c[1] = "timeline_overlap" /\ c[2][1] = d]_vars

\* itinerary_planner.py:2032: locked events are not moved without a word.  One that is
\* listed on two days is left on the last of them only.
EveryListingStays ==
    [][changes' # changes =>
        \A d \in DOMAIN plan.days : \A x \in On(plan, d) :
            IdOf(x) \in edits'.locked =>
                IdOf(x) \in IdsOn(plan', d) \/ plan.event[x].goesWith \in edits'.removed]_vars

\* A train runs when it runs: an edit may choose another, and not move it.
TrainsStay ==
    Installed => \A dir \in {x \in Directions : <<"rail", x>> \in Placed(plan)} :
        LET train == plan.event[<<"rail", dir>>]
        IN  <<train.start, train.end>> = input.train[dir]
=============================================================================
