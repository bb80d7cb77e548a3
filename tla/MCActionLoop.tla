---------------------------- MODULE MCActionLoop ----------------------------
(* Instances of ActionLoop for TLC.                                         *)
EXTENDS ActionLoop, TLC

\* One intent; a revision of the destination; and one of the rail inputs alone.
OneIntent    == {[dest |-> "A", rail |-> "r"]}
TwoTowns     == OneIntent \union {[dest |-> "B", rail |-> "r"]}
ThreeIntents == TwoTowns \union {[dest |-> "A", rail |-> "s"]}

\* A comparison hands over nothing, or usable rail and unusable web evidence.
MixedSeed  == [NoEvidence EXCEPT
                !["railway"] = Usable({CHOOSE i \in Intents : TRUE}),
                !["web"] = Missing]
NoSeeds    == {NoEvidence}
SomeSeeds  == {NoEvidence, MixedSeed}

Threads == Permutations(Workers)
=============================================================================
