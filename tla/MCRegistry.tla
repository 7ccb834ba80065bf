------------------------------ MODULE MCRegistry ------------------------------
EXTENDS SessionExecutionRegistry, TLC

CONSTANTS s1, s2, r1, e1, e2, e3

MCSessions == {s1, s2}
MCRequests == {r1}
MCExecs == {e1, e2, e3}
MCSymmetry == Permutations({e1, e2, e3})
=============================================================================
