------------------------------ MODULE PlanCompiler ------------------------------
(* PlanningInputCompiler.compile (planning_input_compiler.py): from the evidence   *)
(* of a run and the moment it is read to a draft, with the events of each day, the *)
(* blockers and the planning state.  Times are minutes since midnight of the first *)
(* day.  The compiler keeps one object per event and puts references to it into    *)
(* the days; so does the draft here: event[id] and, per day, a sequence of ids.    *)
EXTENDS EvidenceKernel, FiniteSetsExt

CONSTANT Names  \* the attractions and routes that may occur, in the order of their ids

None == "none"
ASSUME NamesAssumption == Names \in Seq(STRING \ {None})

Place(name) == CHOOSE i \in DOMAIN Names : Names[i] = name

\* f with v for x.
With(f, x, v) == [y \in DOMAIN f \union {x} |-> IF y = x THEN v ELSE f[y]]

\* What a loop over 1 .. n makes of x.
Loop(Step(_, _), x, n) ==
    LET upTo[k \in 0 .. n] == IF k = 0 THEN x ELSE Step(upTo[k - 1], k)
    IN  upTo[n]

\* sorted(), which is stable: keys are compared from their first place on.
Less(k, l) == \E i \in DOMAIN k : k[i] < l[i] /\ \A j \in 1 .. i - 1 : k[j] = l[j]
Sorted(s, key) ==
    LET insert(t, n) ==
            InsertAt(t, 1 + Cardinality({k \in DOMAIN t : ~Less(key[s[n]], key[t[k]])}), s[n])
    IN  Loop(insert, <<>>, Len(s))

\* The members of s that are not in gone.
Without(s, gone) ==
    LET keep(t, n) == IF s[n] \in gone THEN t ELSE Append(t, s[n])
    IN  Loop(keep, <<>>, Len(s))

DayLength == 1440
Clock(h, m) == 60 * h + m
DayOf(t) == t \div DayLength
TimeOfDay(t) == t % DayLength
At(d, clock) == d * DayLength + clock

\* PLANNER_DEFAULTS, with what a pace profile puts in their place, and its limits.
Standard ==
    [maxAttractions |-> 2, maxActive |-> 720, maxVisit |-> 120,
     earliestDeparture |-> Clock(7, 15), latestReturn |-> Clock(20, 30),
     breakfast |-> 30, lunch |-> 60, dinner |-> 60,
     lunchStart |-> Clock(11, 30), lunchEnd |-> Clock(13, 30),
     dinnerStart |-> Clock(17, 30), dinnerEnd |-> Clock(20, 0),
     arrivalBuffer |-> 30, railWait |-> 45, checkin |-> 30, checkout |-> 30, between |-> 10]

Settings(pace) ==
    CASE pace = "relaxed" ->
            [Standard EXCEPT !.maxAttractions = 1, !.maxActive = 650, !.maxVisit = 90,
               !.earliestDeparture = Clock(8, 0), !.latestReturn = Clock(19, 0),
               !.lunch = 75, !.dinner = 75, !.between = 20, !.arrivalBuffer = 45,
               !.railWait = 60]
      [] pace = "intensive" ->
            [Standard EXCEPT !.maxAttractions = 3, !.maxActive = 840, !.maxVisit = 180,
               !.earliestDeparture = Clock(6, 30), !.latestReturn = Clock(22, 0)]
      [] OTHER -> Standard

-----------------------------------------------------------------------------
(* Events.  attraction is the place visited, goesWith the attraction whose removal *)
(* takes the event away, overlaps the event it may lie on.  An id tells the kind of *)
(* event and what it is about.  Ids are ordered as the kinds are here (a ride's is   *)
(* "amap-local-N") and then by what they are about, days by their number: trips are *)
(* shorter than ten days.                                                           *)

Kinds == <<"activity-buffer", "local", "arrival-buffer", "attraction", "free", "hotel",
           "meal", "rail", "rail-wait-buffer", "rest">>
Outbound == <<"rail", "outbound">>
Return == <<"rail", "return">>
ArrivalBuffer == <<"arrival-buffer">>
CheckIn == <<"hotel", "checkin">>
CheckOut == <<"hotel", "checkout">>
RailWait == <<"rail-wait-buffer">>
RideId(name) == <<"local", name>>
VisitId(a) == <<"attraction", a>>
PauseId(a) == <<"activity-buffer", a>>
MealId(kind, d) == <<"meal", kind, d + 1>>
RestId(d) == <<"rest", d + 1>>
FreeId(d, start) == <<"free", d + 1, start>>
FreeAfterId(a, d) == <<"free", "after", a, d + 1>>

OrderOf(id) ==
    LET kind == CHOOSE i \in DOMAIN Kinds : Kinds[i] = id[1]
        meal == CHOOSE i \in 1 .. 3 : <<"breakfast", "dinner", "lunch">>[i] = id[2]
        about == CASE id[1] \in {"activity-buffer", "local", "attraction"} ->
                        <<Place(id[2]), 0, 0>>
                   [] id[1] \in {"hotel", "rail"} ->
                        <<IF id[2] \in {"checkin", "outbound"} THEN 0 ELSE 1, 0, 0>>
                   [] id[1] = "meal" -> <<meal, id[3], 0>>
                   [] id[1] = "rest" -> <<id[2], 0, 0>>
                   [] id[1] = "free" -> IF Len(id) = 4 THEN <<0, Place(id[3]), id[4]>>
                                        ELSE <<1, id[2], id[3]>>
                   [] OTHER -> <<0, 0, 0>>
    IN  <<kind>> \o about

NoId == <<>>
NewEvent(type, start, end) ==
    [type |-> type, start |-> start, end |-> end, attraction |-> None,
     goesWith |-> None, overlaps |-> NoId]
TrainEvent(times) == NewEvent("rail", times[1], times[2])
RideEvent(start, end) == NewEvent("transit", start, end)
VisitEvent(a, start, end) ==
    [NewEvent("attraction", start, end) EXCEPT !.attraction = a, !.goesWith = a]
MealEvent(start, minutes, on) ==
    [NewEvent("meal", start, start + minutes) EXCEPT !.overlaps = on]
Train(e) == e.type = "rail"

\* A trip: its window and pace.  An input: the railway item with its trains, the map
\* item with its routes between places, the web item with a base, and the attractions
\* both items tell of.  Places are matched by names that contain each other, so a route
\* leads to, or from, any number of attractions.
DayShells(trip) == [d \in 0 .. DayOf(trip.latest) |-> <<>>]
LastDay(trip) == DayOf(trip.latest)

BoundedTime(trip, d, clock) ==
    CASE At(d, clock) < trip.earliest -> trip.earliest
      [] At(d, clock) >= trip.latest -> trip.latest - 1
      [] OTHER -> At(d, clock)

\* A draft: events by id, the ids of each day in the order they were added, the visits
\* in the order they were scheduled, and the blockers by name.
EmptyDraft(trip) ==
    [event |-> <<>>, days |-> DayShells(trip), visits |-> <<>>, blockers |-> {}]

Has(draft, id) == id \in DOMAIN draft.event

\* _add_event, of an event that is new or whose times were changed: it goes to the day
\* its start is on, if that is a day of the trip.
Put(draft, id, e) ==
    LET d == DayOf(e.start)
        days == draft.days
    IN  [draft EXCEPT
           !.event = With(draft.event, id, e),
           !.days = IF d \in DOMAIN days THEN [days EXCEPT ![d] = Append(days[d], id)]
                    ELSE days]

Block(draft, ids) == [draft EXCEPT !.blockers = @ \union ids]

-----------------------------------------------------------------------------
(* Railway.                                                                     *)

Directions == {"outbound", "return"}

\* A direction whose train lacks a required field is as good as missing.
CompileRailway(input, now, draft) ==
    LET verdict == ProjectDomain(input.policies, "railway", input.rail, now)
        usable == IsUsable(input.rail) /\ ~input.noTrains
        scheduled == IF usable /\ verdict.support # "unknown" THEN DOMAIN input.train ELSE {}
        missing == {IF dir = "outbound" THEN "RAILWAY_OUTBOUND_MISSING"
                    ELSE "RAILWAY_RETURN_MISSING" : dir \in Directions \ scheduled}
        schedule(d, dir) ==
            IF dir \in scheduled
            THEN Put(d, <<"rail", dir>>, TrainEvent(input.train[dir])) ELSE d
    IN  CASE ~IsUsable(input.rail) -> Block(draft, {"RAILWAY_INPUT_UNAVAILABLE"})
          [] IsUsable(input.rail) /\ input.noTrains ->
                Block(draft, {"RAILWAY_NO_DIRECT_TRAIN"})
          [] usable /\ verdict.support = "unknown" ->
                Block(draft, {"RAILWAY_INPUT_UNAVAILABLE"})
          [] OTHER ->
                Block(schedule(schedule(draft, "outbound"), "return"),
                      missing \union
                      IF TokenFreshness(verdict.token) = "stale"
                      THEN {"RAILWAY_INPUT_UNAVAILABLE", "RAILWAY_SEAT_NOT_GUARANTEED"}
                      ELSE {})

-----------------------------------------------------------------------------
(* Local transit and attractions.                                               *)

\* The routes the map item has, as events that are not on any day yet.
CompileLocalTransit(input, trip, draft) ==
    LET cursor(i) == BoundedTime(trip, 1, Clock(8, 30)) + (i - 1) * 45
        timed == {i \in DOMAIN input.routes : input.routes[i].minutes > 0}
        late == {i \in timed : cursor(i) >= trip.latest}
        taken == {i \in timed : \A j \in late : i < j}
        reached == {i \in DOMAIN input.routes : \A j \in late : i < j}
        ride(i) == RideEvent(cursor(i),
                             Min({cursor(i) + input.routes[i].minutes, trip.latest}))
    IN  IF ~IsUsable(input.map) \/ input.routes = <<>>
        THEN Block(draft, {"MAP_INPUT_UNAVAILABLE"})
        ELSE [Block(draft, IF reached \subseteq timed THEN {}
                           ELSE {"LOCAL_TRANSIT_DURATION_MISSING"})
                EXCEPT !.event =
                    [id \in DOMAIN draft.event \union {RideId(input.routes[i].id) : i \in taken} |->
                        IF Has(draft, id) THEN draft.event[id]
                        ELSE ride(CHOOSE i \in taken : RideId(input.routes[i].id) = id)]]

\* The first route, of those compiled, with some property.
FirstRoute(input, draft, Test(_)) ==
    LET known == {i \in DOMAIN input.routes :
                    Has(draft, RideId(input.routes[i].id)) /\ Test(input.routes[i])}
    IN  IF known = {} THEN None ELSE input.routes[Min(known)].id

Route(input, id) == CHOOSE r \in ToSet(input.routes) : r.id = id

\* What the usable items tell of, the map first, each attraction once.
Candidates(input) ==
    LET told == (IF IsUsable(input.map) THEN input.attractions.map ELSE <<>>)
                \o (IF IsUsable(input.web) THEN input.attractions.web ELSE <<>>)
        add(s, n) == IF \E a \in ToSet(s) : a.id = told[n].id THEN s ELSE Append(s, told[n])
    IN  Loop(add, <<>>, Len(told))

\* Attractions in the order of the routes that lead to them, those without one last.
Visits(input, draft) ==
    LET place(a) ==
            LET to == {i \in DOMAIN input.routes :
                        Has(draft, RideId(input.routes[i].id)) /\ a.id \in input.routes[i].to}
            IN  IF to = {} THEN Len(input.routes) + 1 ELSE Min(to)
        candidates == Candidates(input)
    IN  Sorted(candidates, [a \in ToSet(candidates) |-> <<place(a)>>])

\* Mutant: check-in takes no time.
ArrivalUnchecked(draft, set) == draft.event[Outbound].end + set.arrivalBuffer

ArrivalReady(draft, set) == draft.event[Outbound].end + set.arrivalBuffer + set.checkin
ReturnCutoff(draft, set) == draft.event[Return].start - set.railWait - set.checkout

\* The k-th attraction, as one round of the loop of _compile_attractions.
CompileVisit(input, trip, set, draft, a, k) ==
    LET day == Min({k, LastDay(trip)})
        nominal == BoundedTime(trip, day, Clock(9, 30))
        wanted == Min({IF a.minutes > 0 THEN a.minutes ELSE 120, set.maxVisit})
        start == IF Has(draft, Outbound)
                    /\ DayOf(nominal) = DayOf(ArrivalReady(draft, set))
                 THEN Max({nominal, ArrivalReady(draft, set)}) ELSE nominal
        tooLate == /\ Has(draft, Return)
                   /\ DayOf(start) = DayOf(ReturnCutoff(draft, set))
                   /\ start + wanted > ReturnCutoff(draft, set)
        leadsHere(r) == a.id \in r.to
        inbound == FirstRoute(input, draft, leadsHere)
        beforeLunch == At(DayOf(start), set.lunchEnd) - set.lunch - set.between - start
        minutes == IF inbound = None THEN wanted
                   ELSE Min({wanted, Max({30, beforeLunch})})
        end == Min({start + minutes, trip.latest})
        retimed(d, name, from) ==
            Put(d, RideId(name),
                [d.event[RideId(name)] EXCEPT
                    !.start = from, !.end = from + Route(input, name).minutes])
        reached == IF inbound = None THEN Block(draft, {"ATTRACTION_TRANSIT_MISSING"})
                   ELSE retimed(draft, inbound, start - 15 - Route(input, inbound).minutes)
        visited == [Put(reached, VisitId(a.id), VisitEvent(a.id, start, end)) EXCEPT
                      !.visits = Append(@, [attraction |-> a.id, inbound |-> inbound])]
        leadsAway(r) == a.id \in r.from /\ r.id # inbound
        away == FirstRoute(input, draft, leadsAway)
        back == end + set.between
    IN  IF tooLate THEN Block(draft, {"ATTRACTION_RETAINED_UNSCHEDULED"})
        ELSE IF away = None
                \/ /\ Has(draft, Return)
                   /\ back + Route(input, away).minutes > ReturnCutoff(draft, set)
             THEN visited ELSE retimed(visited, away, back)

CompileAttractions(input, trip, set, draft) ==
    LET visits == Visits(input, draft)
        round(d, k) == CompileVisit(input, trip, set, d, visits[k], k)
    IN  IF visits = <<>> THEN Block(draft, {"WEB_INPUT_UNAVAILABLE"})
        ELSE Loop(round, draft, Len(visits))

-----------------------------------------------------------------------------
(* Buffers, hotel, meals, rest and free time.                                   *)

Events(draft, d) == {draft.event[id] : id \in ToSet(draft.days[d])}
Meets(e, start, end) == e.start < end /\ e.end > start

HotelKnown(input) == IsUsable(input.web) /\ input.hotel

\* Around the trains: buffer and check-in after the arrival, check-out and waiting
\* before the departure.
CompileStay(set, draft) ==
    LET arrived(d) ==
            LET at == d.event[Outbound].end
                ready == at + set.arrivalBuffer
            IN  Put(Put(d, ArrivalBuffer, NewEvent("buffer", at, ready)),
                    CheckIn, NewEvent("hotel", ready, ready + set.checkin))
        leaving(d) ==
            LET departure == d.event[Return].start
                wait == departure - set.railWait
            IN  Put(Put(d, CheckOut, NewEvent("hotel", wait - set.checkout, wait)),
                    RailWait, NewEvent("buffer", wait, departure))
        here == IF Has(draft, Outbound) THEN arrived(draft) ELSE draft
    IN  IF Has(here, Return) THEN leaving(here) ELSE here

\* A pause after each visit, unless something lies there already.
Pause(set, draft, a) ==
    LET e == draft.event[VisitId(a)]
        end == e.end + set.between
        day == DayOf(e.end)
        others == IF day \in DOMAIN draft.days THEN Events(draft, day) \ {e} ELSE {}
    IN  IF \E x \in others : Meets(x, e.end, end) THEN draft
        ELSE Put(draft, PauseId(a),
                 [NewEvent("buffer", e.end, end) EXCEPT !.goesWith = a])

CompileBuffers(set, draft) ==
    LET pause(x, k) == Pause(set, x, draft.visits[k].attraction)
    IN  Loop(pause, draft, Len(draft.visits))

\* scheduled_meal_start: from the preferred time on, after whatever is in the way, within
\* the window; failing that, on the train that runs at the preferred time.
MealSlot(trip, draft, d, preferred, minutes, windowEnd) ==
    LET events == Events(draft, d)
        first == Max({preferred, trip.earliest})
        clear(t) == \A e \in events : ~Meets(e, t, t + minutes)
        starts == {first} \union {e.end : e \in {x \in events : x.end > first}}
        slot == Min({t \in starts : clear(t)})
        fits == slot + minutes <= trip.latest /\ slot + minutes <= windowEnd
        rides == {id \in {Outbound, Return} \intersect ToSet(draft.days[d]) :
                    draft.event[id].start <= preferred /\ preferred < draft.event[id].end}
        ride == CHOOSE id \in rides :
                    \A other \in rides : draft.event[id].start <= draft.event[other].start
        onTrain == Max({draft.event[ride].start,
                        Min({preferred, draft.event[ride].end - minutes})})
    IN  CASE fits -> [at |-> slot, on |-> NoId]
          [] ~fits /\ rides # {} /\ onTrain + minutes <= draft.event[ride].end ->
                [at |-> onTrain, on |-> ride]
          [] OTHER -> [at |-> NoTime, on |-> NoId]

Meals(set) ==
    << [kind |-> "breakfast", from |-> Clock(8, 0), to |-> Clock(10, 0), minutes |-> set.breakfast],
       [kind |-> "lunch", from |-> set.lunchStart, to |-> set.lunchEnd, minutes |-> set.lunch],
       [kind |-> "dinner", from |-> set.dinnerStart, to |-> set.dinnerEnd, minutes |-> set.dinner] >>

Serve(trip, draft, d, meal) ==
    LET slot == MealSlot(trip, draft, d, At(d, meal.from), meal.minutes, At(d, meal.to))
    IN  IF slot.at = NoTime THEN draft
        ELSE Put(draft, MealId(meal.kind, d), MealEvent(slot.at, meal.minutes, slot.on))

CompileMeals(trip, set, draft, d) ==
    LET serve(x, n) == Serve(trip, x, d, Meals(set)[n])
    IN  serve(serve(serve(draft, 1), 2), 3)

\* The night after day d, which is not the last one.
CompileRest(trip, draft, d) ==
    LET start == At(d, Clock(22, 0))
        end == At(d + 1, Clock(7, 0))
    IN  IF d < LastDay(trip) /\ start < trip.latest /\ end > trip.earliest
        THEN Put(draft, RestId(d), NewEvent("rest", Max({start, trip.earliest}),
                                            Min({end, trip.latest})))
        ELSE draft

CompileDefaults(input, trip, set, draft) ==
    LET around == CompileBuffers(set, CompileStay(set,
                    Block(draft, IF HotelKnown(input) THEN {"HOTEL_DETAIL_PENDING"}
                                 ELSE {"HOTEL_SELECTION_MISSING"})))
        day(x, k) == CompileRest(trip, CompileMeals(trip, set, x, k - 1), k - 1)
    IN  Loop(day, around, LastDay(trip) + 1)

\* The gaps of half an hour and more between 9:00 and 18:00 of day d.
Gaps(trip, draft, d) ==
    LET from == Max({trip.earliest, At(d, Clock(9, 0))})
        to == Min({trip.latest, At(d, Clock(18, 0))})
        busy == {e \in Events(draft, d) :
                    Min({to, e.end}) > Max({from, e.start})}
        ends == {from} \union {e.end : e \in busy}
        covered(t) == \E e \in busy : e.start <= t /\ t < e.end
        nextAfter(t) == Min({to} \union {e.start : e \in {x \in busy : x.start > t}})
    IN  {g \in {<<t, nextAfter(t)>> : t \in {u \in ends : u < to /\ ~covered(u)}} :
            g[2] - g[1] >= 30}

\* They are listed as free time, which is a rest.
FreeTimeOn(trip, draft, d) ==
    LET gaps == SetToSeq(Gaps(trip, draft, d))
        free(x, n) == Put(x, FreeId(d, gaps[n][1]), NewEvent("rest", gaps[n][1], gaps[n][2]))
    IN  Loop(free, draft, Len(gaps))

CompileFreeTime(trip, draft) ==
    LET free(x, k) == FreeTimeOn(trip, x, k - 1)
    IN  Loop(free, draft, LastDay(trip) + 1)

-----------------------------------------------------------------------------
(* The verdict.                                                                 *)

\* _record_evidence_blockers
EvidenceBlockers(input) ==
    LET out(item) == item.status \in {"missing", "conflicting"}
    IN  (IF out(input.rail) THEN {"RAILWAY_INPUT_UNAVAILABLE"} ELSE {}) \union
        (IF out(input.map) THEN {"MAP_INPUT_UNAVAILABLE"} ELSE {}) \union
        (IF out(input.web) THEN {"WEB_INPUT_UNAVAILABLE"} ELSE {}) \union
        (IF input.hardConflict THEN {"HARD_CONSTRAINT_CONFLICT"} ELSE {})

Requirements == {"destination_resolved", "outbound_transport", "return_transport",
    "attraction", "local_transit", "attraction_transit_coverage", "accommodation_base",
    "hard_constraints_clear"}

\* display_requirements that are met.
Met(input, draft) ==
    LET holds(r) ==
        CASE r = "destination_resolved" ->
                (IsUsable(input.map) /\ input.resolved) \/ (IsUsable(input.web) /\ input.named)
          [] r = "outbound_transport" -> Has(draft, Outbound)
          [] r = "return_transport" -> Has(draft, Return)
          [] r = "attraction" -> draft.visits # <<>>
          [] r = "local_transit" -> \E x \in ToSet(input.routes) : Has(draft, RideId(x.id))
          [] r = "attraction_transit_coverage" ->
                draft.visits # <<>> /\ \A v \in ToSet(draft.visits) : v.inbound # None
          [] r = "accommodation_base" -> HotelKnown(input)
          [] OTHER -> "HARD_CONSTRAINT_CONFLICT" \notin draft.blockers
    IN  {r \in Requirements : holds(r)}

PlanningState(input, draft) ==
    CASE "hard_constraints_clear" \notin Met(input, draft) -> "BLOCKED"
      [] "hard_constraints_clear" \in Met(input, draft)
            /\ Met(input, draft) # Requirements -> "COLLECTING_EVIDENCE"
      [] Met(input, draft) = Requirements
            /\ ~(draft.blockers \subseteq {"HOTEL_DETAIL_PENDING"}) -> "PARTIAL_READY"
      [] OTHER -> "PLAN_READY"

InstallableStates == {"PARTIAL_READY", "PLAN_READY"}

\* PlanningInputCompiler.compile
Compile(input, trip, now) ==
    LET set == Settings(trip.pace)
        travelled == CompileRailway(input, now, EmptyDraft(trip))
        moved == CompileLocalTransit(input, trip, travelled)
        visited == CompileAttractions(input, trip, set, moved)
        dressed == CompileDefaults(input, trip, set, visited)
    IN  Block(CompileFreeTime(trip, dressed), EvidenceBlockers(input))

\* The days with their events in the order of their starts and ids.
Timetable(draft) ==
    LET key == [id \in DOMAIN draft.event |-> <<draft.event[id].start>> \o OrderOf(id)]
    IN  [event |-> draft.event,
         days |-> [d \in DOMAIN draft.days |-> Sorted(draft.days[d], key)]]
=============================================================================
