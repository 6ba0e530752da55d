--------------------------- MODULE MCKeyPackages ----------------------------
(* An instance of KeyPackages for TLC.                                       *)
EXTENDS KeyPackages

\* A requester with one single-use key package and two last-resort ones.
OneIdentity == {"ann"}
AnnKps == {"a1", "al", "am"}
AnnLastResort == {"al", "am"}
AnnOwner == [k \in AnnKps |-> "ann"]
=============================================================================
