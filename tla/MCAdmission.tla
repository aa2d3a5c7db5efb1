---------------------------- MODULE MCAdmission ----------------------------
EXTENDS Admission, TLC

CONSTANTS i1, i2, i3, r1, r2, q1

\* Two work objects, the first attached twice.
Board == (i1 :> r1) @@ (i2 :> r1) @@ (i3 :> r2)

\* The second revision of r2 does not pass the checks of its own configuration.
InvalidPins == {<<r2, 2>>}

CapitalDrafts == {[enabled |-> FALSE, shares |-> {}], [enabled |-> TRUE, shares |-> {i1}]}
=============================================================================
