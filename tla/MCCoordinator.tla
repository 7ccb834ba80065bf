---------------------------- MODULE MCCoordinator ----------------------------
EXTENDS SessionCoordinator, TLC

CONSTANTS s1, e1, e2, e3

MCSessions == {s1}
MCOne == {e1}
MCOther == {e2}
MCThird == {e3}
MCTwo == {e1, e2}
MCOuter == {e1, e3}
MCThree == {e1, e2, e3}
MCNone == {}
MCSymmetry == Permutations({e1, e2})
=============================================================================
