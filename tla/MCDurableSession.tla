-------------------------- MODULE MCDurableSession --------------------------
EXTENDS DurableSession
CONSTANTS p1, p2, p3
TwoProcs == {p1, p2}
ThreeProcs == {p1, p2, p3}
TwoJobs == {1, 2}
SecondJob == {2}
=============================================================================
