--------------------------- MODULE MCJoinRequests ---------------------------
(* An instance of JoinRequests for TLC.                                      *)
EXTENDS JoinRequests

\* Two requesters, the first with a single-use and a last-resort key package.
TwoIdentities == {"ann", "bob"}
PairKps == {"a1", "al", "b1"}
PairLastResort == {"al"}
PairOwner == [k \in PairKps |-> IF k = "b1" THEN "bob" ELSE "ann"]
=============================================================================
