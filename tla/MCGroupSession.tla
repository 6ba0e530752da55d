--------------------------- MODULE MCGroupSession ---------------------------
(* Instances of GroupSession for TLC.                                        *)
EXTENDS GroupSession

\* Everybody may administer the group until an update of "a2" leaves it to A.
\* "a1" and "a2" share the leaf of A, "b" is another member; C can be invited
\* but has no session of its own here.
SharedDevices == {"a1", "a2", "b"}
SharedIdentities == {"A", "B", "C"}
SharedIdentityOf == [d \in SharedDevices |-> IF d = "b" THEN "B" ELSE "A"]
SharedFounders == {"A", "B"}
Want(d, kind, t) == [by |-> d, kind |-> kind, target |-> t]
SharedWants == {Want("a1", "add", "C"), Want("a1", "remove", "C"),
                Want("a2", "update", "A"), Want("a2", "add", "C"),
                Want("b", "add", "A"), Want("b", "app", None),
                Want("a1", "remove", "B")}
SharedCrashes == [d \in SharedDevices |-> IF d = "a1" THEN 1 ELSE 0]

\* Only the two devices of A, and C to invite.
PairDevices == {"a1", "a2"}
PairIdentities == {"A", "C"}
PairIdentityOf == [d \in PairDevices |-> "A"]
PairFounders == {"A"}
PairWants == {Want("a1", "update", None), Want("a2", "add", "C")}
PairCrashes == [d \in PairDevices |-> 0]
PairCrashOnce == [d \in PairDevices |-> IF d = "a2" THEN 1 ELSE 0]
=============================================================================
