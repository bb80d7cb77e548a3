------------------------------ MODULE MCPlanning ------------------------------
EXTENDS Planning

Sourced(at) ==
    [MissingItem("no_source_found") EXCEPT
        !.status = "sourced", !.valued = TRUE, !.snapshotAt = at, !.sources = <<at>>,
        !.reason = NoReason]
Estimated == [Sourced(0) EXCEPT !.status = "estimated", !.routes = TRUE]

Days(n, pace) ==
    [earliest |-> Clock(6, 0), latest |-> At(n - 1, Clock(23, 0)), pace |-> pace]

Way(id, from, to, minutes) == [id |-> id, from |-> from, to |-> to, minutes |-> minutes]
Star(minutes) ==
    << Way("to a1", {}, {"a1"}, minutes), Way("from a1", {"a1"}, {}, minutes),
       Way("to a2", {}, {"a2"}, minutes) >>
\* What the collector makes of a base and two attractions: from place to place.
Chain(minutes) ==
    << Way("to a1", {}, {"a1"}, minutes), Way("to a2", {"a1"}, {"a2"}, minutes) >>
\* The name of the one attraction contains the name of the other.
Alike(minutes) ==
    << Way("to a1", {}, {"a1", "a2"}, minutes), Way("from a1", {"a1", "a2"}, {}, minutes) >>

Evidence(n, arrival, departure, routes, visits) ==
    [policies |-> PoliciesOf(0, 1), rail |-> Sourced(0), map |-> Estimated,
     web |-> Sourced(0), noTrains |-> FALSE,
     train |-> ("outbound" :> <<arrival - 120, arrival>>)
                @@ ("return" :> <<At(n - 1, departure), At(n - 1, departure) + 120>>),
     routes |-> routes,
     attractions |-> visits, resolved |-> TRUE, named |-> TRUE, hotel |-> TRUE,
     hardConflict |-> FALSE]

Visit(a, minutes) == [id |-> a, minutes |-> minutes]

InOrder == <<"a1", "a2", "from a1", "to a1", "to a2">>

CaseOf(n, pace, arrival, departure, minutes, routes) ==
    [trip |-> Days(n, pace),
     input |-> Evidence(n, arrival, departure, routes,
                        [map |-> <<>>, web |-> <<Visit("a1", minutes), Visit("a2", 0)>>])]
Case(n, pace, arrival, departure, minutes) ==
    CaseOf(n, pace, arrival, departure, minutes, Star(30))

\* Trips of two days, where both visits fall on the last; of three days, with a late
\* arrival or an early departure, with dinner on the way back, with a return shortly after
\* midnight, and with a train that arrives on the day of the first visit.
Complete ==
    {Case(2, "standard", Clock(10, 0), Clock(20, 0), 180),
     Case(3, "standard", Clock(21, 0), Clock(20, 0), 180),
     Case(3, "relaxed", Clock(10, 0), Clock(13, 0), 60),
     Case(3, "intensive", Clock(13, 0), Clock(12, 0), 240),
     Case(3, "standard", Clock(10, 0), Clock(17, 15), 60),
     Case(3, "standard", Clock(10, 0), Clock(1, 0), 60),
     Case(3, "standard", At(1, Clock(9, 45)), Clock(20, 0), 60)}
Broken(c) ==
    {[c EXCEPT !.input.noTrains = TRUE], [c EXCEPT !.input.hotel = FALSE],
     [c EXCEPT !.input.hardConflict = TRUE], [c EXCEPT !.input.routes = <<>>],
     [c EXCEPT !.input.web = MissingItem("collector_error")],
     [c EXCEPT !.input.train = "outbound" :> @["outbound"]]}

\* The ride from the one attraction to the other is listed twice, on one day or on two, of
\* four days two that have no train; a route serves both attractions; the map tells of
\* attractions, too.
Twice ==
    {CaseOf(2, "standard", Clock(10, 0), Clock(20, 0), 60, Chain(30)),
     CaseOf(3, "standard", Clock(10, 0), Clock(20, 0), 60, Chain(30)),
     CaseOf(4, "relaxed", Clock(10, 0), Clock(20, 0), 60, Chain(30)),
     CaseOf(3, "intensive", Clock(10, 0), Clock(20, 0), 60, Alike(30)),
     [CaseOf(3, "relaxed", Clock(10, 0), Clock(20, 0), 60, Chain(30)) EXCEPT
        !.input.attractions.map = <<Visit("a2", 60)>>]}
SomeCases == Complete \union UNION {Broken(c) : c \in Complete} \union Twice
=============================================================================
