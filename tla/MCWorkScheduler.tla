--------------------------- MODULE MCWorkScheduler ---------------------------
EXTENDS SessionWorkScheduler

CONSTANTS s1, c1, c2, m1

MCSessions == {s1}
MCExecs == {c1, c2, m1}
MCLatestFirst == {c1, c2}
=============================================================================
