------------------------- MODULE MCWelcomeDelivery -------------------------
(* Instances of WelcomeDelivery for TLC.                                     *)
EXTENDS WelcomeDelivery

\* "kp" is a single-use key package, "lr" a last-resort one.
LastResortRefs == {"lr"}

\* An invitation to a group and a later re-invitation to it, both over the
\* last-resort key package; or one invitation over the single-use one.
MixedInvites == {"toA", "toB", "toBagain"}
MixedOccasions == {{"toB", "toBagain"}, {"toA"}}
MixedKpRef == [i \in MixedInvites |-> IF i = "toA" THEN "kp" ELSE "lr"]
MixedGroupOf == [i \in MixedInvites |-> IF i = "toA" THEN "A" ELSE "B"]
MixedEpochOf == [i \in MixedInvites |-> IF i = "toBagain" THEN 2 ELSE 1]

\* A group joined over the last-resort key package, and a re-invitation to it
\* over a single-use one.
AgainInvites == {"toB", "toBagain"}
AgainOccasions == {AgainInvites}
AgainKpRef == [i \in AgainInvites |-> IF i = "toB" THEN "lr" ELSE "kp"]
AgainGroupOf == [i \in AgainInvites |-> "B"]
AgainEpochOf == [i \in AgainInvites |-> IF i = "toBagain" THEN 2 ELSE 1]
=============================================================================
