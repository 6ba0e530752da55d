-------------------------- MODULE MCGroupDelivery --------------------------
(* Instances of GroupDelivery for TLC.  Groups and streams are strings, since *)
(* every run also checks temporal properties and declares no symmetry.        *)
EXTENDS GroupDelivery

TwoGroups == {"alpha", "beta"}
OneStream == {"s1"}
TwoStreams == {"s1", "s2"}
=============================================================================
