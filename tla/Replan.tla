-------------------------------- MODULE Replan --------------------------------
(* replan_itinerary (itinerary_planner.py): the edits of a user applied to a plan. *)
(* A plan is a timetable of PlanCompiler: events by key and, per day, their keys in *)
(* the order they are listed in.  While it is edited it carries the conflicts that *)
(* are reported and the attractions that lost their place.  Days count from 0.     *)
(* The key of an event is its id.  A ride between two attractions is compiled as   *)
(* the way from the one and as the way to the other, and its event is then listed  *)
(* twice: one object, which every listing moves.  When the listings come apart,    *)
(* each has a key of its own, which tells where it was listed then.                *)
EXTENDS PlanCompiler

NoEdits == [must |-> {}, removed |-> {}, locked |-> {}, pace |-> None,
            forced |-> <<>>, minutes |-> <<>>, starts |-> <<>>]

Report(plan, type, about) == [plan EXCEPT !.conflicts = @ \union {<<type, about>>}]
IdOf(key) == IF key[1] = "local" THEN RideId(key[2]) ELSE key
On(plan, d) == ToSet(plan.days[d])
Placed(plan) == UNION {On(plan, d) : d \in DOMAIN plan.days}
IdsOn(plan, d) == {IdOf(x) : x \in On(plan, d)}
IdsPlaced(plan) == UNION {IdsOn(plan, d) : d \in DOMAIN plan.days}
AttractionsOn(plan, d) ==
    {plan.event[id].attraction : id \in {x \in On(plan, d) : plan.event[x].type = "attraction"}}
Attractions(plan) == UNION {AttractionsOn(plan, d) : d \in DOMAIN plan.days}

\* The events that have a new time in from and to, at that time.
Retimed(plan, from, to) ==
    [plan EXCEPT !.event = [id \in DOMAIN plan.event |->
        IF id \in DOMAIN from THEN [plan.event[id] EXCEPT !.start = from[id], !.end = to[id]]
        ELSE plan.event[id]]]

Shift(plan, ids, delta) ==
    Retimed(plan, [id \in ids |-> plan.event[id].start + delta],
                  [id \in ids |-> plan.event[id].end + delta])

\* The events listed at some places of a day, each as often as it is listed there.
ShiftListed(plan, d, places, delta) ==
    LET times(key) == Cardinality({k \in places : plan.days[d][k] = key})
        keys == {plan.days[d][k] : k \in places}
    IN  Retimed(plan, [key \in keys |-> plan.event[key].start + delta * times(key)],
                      [key \in keys |-> plan.event[key].end + delta * times(key)])

-----------------------------------------------------------------------------
(* Listings: <<d, k>> is the k-th event of day d.                                 *)

Key(plan, l) == plan.days[l[1]][l[2]]
RideListings(plan) ==
    {l \in UNION {{d} \X DOMAIN plan.days[d] : d \in DOMAIN plan.days} :
        Key(plan, l)[1] = "local"}

\* The plan in which some listings get events of their own.  kin[l] are the listings
\* that go on sharing one with l.
Separated(plan, kin) ==
    LET own(l) == LET m == CHOOSE n \in kin[l] : TRUE
                  IN  <<"local", Key(plan, l)[2], m[1], m[2]>>
        copies == {own(l) : l \in DOMAIN kin}
    IN  [plan EXCEPT
           !.event = [key \in DOMAIN plan.event \union copies |->
                IF key \in copies THEN plan.event[Key(plan, <<key[3], key[4]>>)]
                ELSE plan.event[key]],
           !.days = [d \in DOMAIN plan.days |-> [k \in DOMAIN plan.days[d] |->
                IF <<d, k>> \in DOMAIN kin THEN own(<<d, k>>) ELSE plan.days[d][k]]]]

\* The last listing of an event, which stands for it when it is locked.
LastListing(plan, id) ==
    LET day == Max({d \in DOMAIN plan.days : id \in IdsOn(plan, d)})
        at == Max({k \in DOMAIN plan.days[day] : IdOf(plan.days[day][k]) = id})
    IN  [day |-> day, at |-> at, event |-> plan.event[plan.days[day][at]]]

\* A locked event is taken off every day and put where it was last listed.
Restored(plan, before, id) ==
    LET was == LastListing(before, id)
        off == [d \in DOMAIN plan.days |->
                    Without(plan.days[d], {x \in On(plan, d) : IdOf(x) = id})]
        at == Min({was.at, Len(off[was.day]) + 1})
    IN  [plan EXCEPT !.event = With(plan.event, id, was.event),
                     !.days = [off EXCEPT ![was.day] = InsertAt(@, at, id)]]

RestoreLocked(before, plan, locked) ==
    LET ids == locked \intersect IdsPlaced(before)
        sorted == Sorted(SetToSeq(ids), [id \in ids |-> OrderOf(id)])
        restore(p, n) == Restored(p, before, sorted[n])
    IN  Loop(restore, plan, Len(sorted))

\* The edits of one kind are applied in the order of the ids, or days, they are about.
ForEach(Edit(_, _), plan, names) ==
    LET edit(p, k) == IF Names[k] \in names THEN Edit(p, Names[k]) ELSE p
    IN  Loop(edit, plan, Len(Names))
ForDays(Edit(_, _), plan, days) ==
    LET edit(p, k) == IF k - 1 \in days THEN Edit(p, k - 1) ELSE p
    IN  Loop(edit, plan, Cardinality(DOMAIN plan.days))

-----------------------------------------------------------------------------
(* Pace and overlaps.                                                            *)

Minutes(e) == e.end - e.start
ActiveMinutes(plan, d) ==
    LET e(k) == plan.event[plan.days[d][k]]
        counted == {k \in DOMAIN plan.days[d] : /\ e(k).type \notin {"rest", "rail"}
                                                /\ e(k).overlaps = NoId}
    IN  FoldSet(LAMBDA k, sum : sum + Minutes(e(k)), 0, counted)

\* The limits of the pace that day d breaks.
PaceViolations(plan, set, d) ==
    LET rides == {e \in {plan.event[id] : id \in On(plan, d)} : e.type = "transit"}
        visits == {e \in {plan.event[id] : id \in On(plan, d)} : e.type = "attraction"}
    IN  {v \in {"attractions", "active", "continuous", "earliest", "latest"} :
          CASE v = "attractions" -> Cardinality(AttractionsOn(plan, d)) > set.maxAttractions
            [] v = "active" -> ActiveMinutes(plan, d) > set.maxActive
            [] v = "continuous" -> \E e \in visits : Minutes(e) > set.maxVisit
            [] v = "earliest" -> /\ rides # {}
                                 /\ TimeOfDay(Min({e.start : e \in rides}))
                                        < set.earliestDeparture
            [] v = "latest" -> /\ rides # {}
                               /\ TimeOfDay(Max({e.end : e \in rides})) > set.latestReturn}

\* Neighbours of a day, in the order of their starts, of which the later one starts too
\* early.  Only neighbours are compared.
OverlapsOn(plan, d) ==
    LET sorted == Sorted(plan.days[d], [id \in On(plan, d) |-> <<plan.event[id].start>>])
        tied(l, r) == plan.event[r].overlaps = l \/ plan.event[l].overlaps = r
    IN  {<<IdOf(sorted[k]), IdOf(sorted[k + 1])>> : k \in
            {n \in 1 .. Len(sorted) - 1 :
                /\ ~tied(sorted[n], sorted[n + 1])
                /\ plan.event[sorted[n + 1]].start < plan.event[sorted[n]].end}}
Overlaps(plan) == UNION {{<<d, p[1], p[2]>> : p \in OverlapsOn(plan, d)} : d \in DOMAIN plan.days}

-----------------------------------------------------------------------------
(* A later start of a day.                                                        *)

\* Meals that the activities were pushed onto follow them; a locked one stays.
PushMeals(plan, locked, d, activities) ==
    LET busy == {plan.event[id] : id \in activities}
        meals == {id \in On(plan, d) : plan.event[id].type = "meal"}
        hit == {id \in meals : \E e \in busy : Meets(e, plan.event[id].start, plan.event[id].end)}
        free == {id \in hit : IdOf(id) \notin locked}
        clear(m, t) == \A e \in busy : ~Meets(e, t, t + Minutes(m))
        resumed(m) == Min({t \in {e.end : e \in busy} : t > m.start /\ clear(m, t)})
        pushed == Retimed(plan,
            [id \in free |-> resumed(plan.event[id])],
            [id \in free |-> resumed(plan.event[id]) + Minutes(plan.event[id])])
        late == {id \in free : id[2] = "lunch"
                    /\ pushed.event[id].end > At(d, Standard.lunchEnd)}
    IN  [pushed EXCEPT !.conflicts = @
            \union {<<"day_start_hits_locked_meal", id>> : id \in hit \ free}
            \union {<<"lunch_window_exceeded", id>> : id \in late}]

StartLater(plan, locked, d, clock) ==
    LET movable == {id \in On(plan, d) : plan.event[id].type \in {"attraction", "transit"}}
        first == Min({plan.event[id].start : id \in movable})
        inTime == first >= At(d, clock)
        follows(e) == e.type \in {"attraction", "transit"}
                        \/ (e.type = "buffer" /\ e.goesWith # None)
        affected == {k \in DOMAIN plan.days[d] :
                        LET e == plan.event[plan.days[d][k]] IN e.start >= first /\ follows(e)}
        keys == {plan.days[d][k] : k \in affected}
        held == \E x \in keys : IdOf(x) \in locked
    IN  CASE movable = {} -> Report(plan, "day_start_activity_missing", d)
          [] movable # {} /\ inTime -> plan
          [] movable # {} /\ ~inTime /\ held -> Report(plan, "day_start_hits_locked_event", d)
          [] OTHER -> PushMeals(ShiftListed(plan, d, affected, At(d, clock) - first),
                                locked, d, keys)

-----------------------------------------------------------------------------
(* The removal of an attraction.                                                  *)

Fixed == {"meal", "hotel", "rest"}

\* One listing of an event is moved up; an end on the next day stays.
Earlier(plan, key, gained) ==
    LET e == plan.event[key]
    IN  Retimed(plan, [x \in {key} |-> e.start - gained],
                      [x \in {key} |-> IF DayOf(e.end) = DayOf(e.start) THEN e.end - gained
                                       ELSE e.end])

\* Day d without the events that go with the attraction: what follows is moved up, as far
\* as the first event that has its own time or is locked; a buffer in front of such an
\* event stays, and the time gained before it becomes free time.
RemoveOn(plan, locked, a, d) ==
    LET gone == {id \in On(plan, d) : plan.event[id].goesWith = a}
        kept == Without(plan.days[d], gone)
        e(k) == plan.event[kept[k]]
        until == Max({plan.event[id].end : id \in gone})
        gained == until - Min({plan.event[id].start : id \in gone})
        closes(k) == e(k).type = "buffer" /\ k < Len(kept) /\ e(k + 1).type \in Fixed
        before(k) == Cardinality({n \in 1 .. k - 1 : kept[n] = kept[k]})
        later == {k \in DOMAIN kept : /\ e(k).start >= until
                                      /\ e(k).start - gained * before(k) >= until}
        stops == {k \in later : e(k).type \in Fixed \/ IdOf(kept[k]) \in locked \/ closes(k)}
        moved == {n \in later : \A s \in stops : n < s}
        pull(p, k) == IF k \in moved THEN Earlier(p, kept[k], gained) ELSE p
        rest == Loop(pull, [plan EXCEPT !.days[d] = kept], Len(kept))
        id == FreeAfterId(a, d)
        free(k) == [rest EXCEPT
                      !.event = With(rest.event, id,
                                     NewEvent("rest", e(k).start - gained, e(k).start)),
                      !.days[d] = InsertAt(kept, k, id)]
    IN  CASE gone = {} -> plan
          [] gone # {} /\ stops # {} /\ e(Min(stops)).type \notin Fixed
                /\ IdOf(kept[Min(stops)]) \in locked ->
                Report(rest, "removal_hits_locked_event", IdOf(kept[Min(stops)]))
          [] gone # {} /\ gained > 0 /\ stops # {} /\ e(Min(stops)).type \notin Fixed
                /\ IdOf(kept[Min(stops)]) \notin locked -> free(Min(stops))
          [] OTHER -> rest

RemoveEvents(plan, locked, a) ==
    ForDays(LAMBDA p, d : RemoveOn(p, locked, a, d), plan, DOMAIN plan.days)

\* Mutant: a removal does not look at the locks.
RemoveLocked(plan, edits, a) ==
    IF a \in edits.must THEN Report(plan, "must_visit_removed", a)
    ELSE RemoveEvents(plan, {}, a)

RemoveAttraction(plan, edits, a) ==
    LET visits == {id \in Placed(plan) : plan.event[id].attraction = a}
    IN  CASE a \in edits.must -> Report(plan, "must_visit_removed", a)
          [] a \notin edits.must /\ (\E v \in visits : IdOf(v) \in edits.locked) ->
                Report(plan, "locked_event_removed", a)
          [] OTHER -> RemoveEvents(plan, edits.locked, a)

-----------------------------------------------------------------------------
(* An attraction forced to a day.                                                 *)

Unvisited(plan, a) ==
    [plan EXCEPT !.days = [d \in DOMAIN plan.days |->
        Without(plan.days[d], {id \in On(plan, d) : plan.event[id].attraction = a})]]

\* What speaks against moving a visit to day d.
LacksCapacity(plan, set, visit, d) ==
    \/ Cardinality(AttractionsOn(plan, d)) + 1 > set.maxAttractions
    \/ ActiveMinutes(plan, d) + Minutes(plan.event[visit]) + set.between > set.maxActive
    \/ Minutes(plan.event[visit]) > set.maxVisit

\* After the last visit of the day, or as early as the pace allows.
MoveTo(plan, set, visit, d) ==
    LET others == Unvisited(plan, plan.event[visit].attraction)
        visits == {k \in DOMAIN others.days[d] :
                    plan.event[others.days[d][k]].type = "attraction"}
        at == IF visits = {} THEN At(d, set.earliestDeparture)
              ELSE plan.event[others.days[d][Max(visits)]].end + set.between
    IN  [Shift(others, {visit}, at - plan.event[visit].start) EXCEPT
            !.days[d] = InsertAt(others.days[d],
                                 IF visits = {} THEN 1 ELSE Max(visits) + 1, visit)]

\* The rest of a night ends when the next day begins.
Opens(plan, d) == Min({plan.event[id].start : id \in On(plan, d)})
TooLong(plan, d) ==
    {id \in On(plan, d) : /\ d + 1 \in DOMAIN plan.days /\ On(plan, d + 1) # {}
                          /\ plan.event[id].type = "rest"
                          /\ plan.event[id].end > Opens(plan, d + 1)}
TrimRests(plan) ==
    LET trimmed == UNION {TooLong(plan, d) : d \in DOMAIN plan.days}
        dayOf(id) == CHOOSE d \in DOMAIN plan.days : id \in TooLong(plan, d)
    IN  [ids |-> trimmed,
         plan |-> Retimed(plan, [id \in trimmed |-> plan.event[id].start],
                                [id \in trimmed |-> Opens(plan, dayOf(id) + 1)])]

\* Two days change places, if nothing locked and no train lies on them and both are
\* in order afterwards.  Each is copied on its own, so a ride that is also listed
\* elsewhere moves on that day only.
Swaps(plan, set, locked, from, to) ==
    LET both == On(plan, from) \union On(plan, to)
        free == {l \in RideListings(plan) : IdOf(Key(plan, l)) \notin locked}
        together(l, m) == /\ Key(plan, l) = Key(plan, m)
                          /\ l[1] = m[1] \/ {l[1], m[1]} \intersect {from, to} = {}
        copied == Separated(plan, [l \in free |-> {m \in free : together(l, m)}])
        away == ShiftListed(copied, from, DOMAIN copied.days[from], (to - from) * DayLength)
        here == ShiftListed(away, to, DOMAIN away.days[to], (from - to) * DayLength)
        swapped == [here EXCEPT !.days[from] = here.days[to], !.days[to] = here.days[from]]
        trimmed == TrimRests(swapped)
        sound == /\ \A id \in both : IdOf(id) \notin locked /\ ~Train(plan.event[id])
                 /\ \A id \in trimmed.ids : IdOf(id) \notin locked
                 /\ \A d \in {from, to} : /\ PaceViolations(trimmed.plan, set, d) = {}
                                          /\ OverlapsOn(trimmed.plan, d) = {}
    IN  IF sound THEN {trimmed.plan} ELSE {}

\* Mutant: a visit without a place is dropped without a word.
ForceSilently(plan, set, edits, a) ==
    LET visits == {id \in Placed(plan) : plan.event[id].attraction = a}
        to == edits.forced[a]
        visit == CHOOSE id \in visits : TRUE
        from == CHOOSE d \in DOMAIN plan.days : visit \in On(plan, d)
    IN  IF visits = {} \/ to \notin DOMAIN plan.days \/ from = to \/ IdOf(visit) \in edits.locked
        THEN plan
        ELSE IF LacksCapacity(plan, set, visit, to) THEN Unvisited(plan, a)
        ELSE MoveTo(plan, set, visit, to)

ForceVisit(plan, set, edits, a) ==
    LET visits == {id \in Placed(plan) : plan.event[id].attraction = a}
        to == edits.forced[a]
        visit == CHOOSE id \in visits : TRUE
        from == CHOOSE d \in DOMAIN plan.days : visit \in On(plan, d)
        swaps == Swaps(plan, set, edits.locked, from, to)
    IN  CASE visits = {} -> Report(plan, "forced_attraction_missing", a)
          [] visits # {} /\ from = to -> plan
          [] visits # {} /\ from # to /\ IdOf(visit) \in edits.locked ->
                Report(plan, "locked_event_move", a)
          [] visits # {} /\ IdOf(visit) \notin edits.locked /\ to \notin DOMAIN plan.days ->
                Report(plan, "forced_day_missing", a)
          [] OTHER ->
                IF ~LacksCapacity(plan, set, visit, to) THEN MoveTo(plan, set, visit, to)
                ELSE IF swaps # {} THEN CHOOSE p \in swaps : TRUE
                ELSE Report([Unvisited(plan, a) EXCEPT !.unscheduled = @ \union {a}],
                            "forced_day_capacity", a)

-----------------------------------------------------------------------------
(* The time spent on a visit.                                                     *)

\* Whatever comes later that day moves along, up to a locked event.
Spend(plan, locked, visit, minutes) ==
    LET here == CHOOSE d \in DOMAIN plan.days : visit \in On(plan, d)
        k == CHOOSE n \in DOMAIN plan.days[here] : plan.days[here][n] = visit
        delta == minutes - Minutes(plan.event[visit])
        later == k + 1 .. Len(plan.days[here])
        stops == {n \in later : IdOf(plan.days[here][n]) \in locked}
        shifted == ShiftListed(plan, here, {m \in later : \A s \in stops : m < s}, delta)
        spent == Retimed(shifted, [id \in {visit} |-> shifted.event[id].start],
                                  [id \in {visit} |-> shifted.event[id].end + delta])
    IN  CASE visit \notin Placed(plan) -> Report(plan, "duration_event_missing", visit)
          [] visit \in Placed(plan) /\ IdOf(visit) \in locked ->
                Report(plan, "locked_event_duration", visit)
          [] OTHER -> IF delta = 0 \/ stops = {} THEN spent
                      ELSE Report(spent, "duration_hits_locked_event",
                                  IdOf(plan.days[here][Min(stops)]))

-----------------------------------------------------------------------------
(* The whole edit.                                                                *)

\* Mutant: overlaps the edits make are not looked for.
ReviewedBlindly(before, plan, set, edits) ==
    [plan EXCEPT !.conflicts = @ \union
        {<<"must_visit_unscheduled", a>> : a \in edits.must \ Attractions(plan)}]

\* What is wrong with the edited plan that was not wrong with the one before.
Reviewed(before, plan, set, edits) ==
    [plan EXCEPT !.conflicts = @
        \union {<<"must_visit_unscheduled", a>> : a \in edits.must \ Attractions(plan)}
        \union {<<"pace_constraint_violation", d>> : d \in
                 {x \in DOMAIN plan.days :
                    ~(PaceViolations(plan, set, x) \subseteq PaceViolations(before, set, x))}}
        \union {<<"timeline_overlap", o>> : o \in Overlaps(plan) \ Overlaps(before)}]

StartDays(plan, edits) ==
    ForDays(LAMBDA p, d : StartLater(p, edits.locked, d, edits.starts[d]), plan,
            DOMAIN edits.starts)
RemoveAll(plan, edits) ==
    ForEach(LAMBDA p, a : RemoveAttraction(p, edits, a), plan, edits.removed)
ForceAll(plan, set, edits) ==
    ForEach(LAMBDA p, a : ForceVisit(p, set, edits, a), plan, DOMAIN edits.forced)
SpendAll(plan, edits) ==
    ForEach(LAMBDA p, a : Spend(p, edits.locked, VisitId(a), edits.minutes[a]), plan,
            DOMAIN edits.minutes)

Replanned(before, set, edits) ==
    LET fresh == [event |-> before.event, days |-> before.days, unscheduled |-> {},
                  conflicts |->
                    {<<"locked_event_missing", id>> : id \in edits.locked \ IdsPlaced(before)}
                    \union {<<"day_start_day_missing", d>> :
                                d \in DOMAIN edits.starts \ DOMAIN before.days}]
        started == StartDays(RestoreLocked(before, fresh, edits.locked), edits)
        removed == RemoveAll(started, edits)
        forced == ForceAll(removed, set, edits)
    IN  Reviewed(before, SpendAll(forced, edits), set, edits)
=============================================================================
