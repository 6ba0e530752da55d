---------------------------- MODULE MCDocuments ----------------------------
(* Instances of Documents for TLC.                                           *)
EXTENDS Documents, TLC

CONSTANTS d1, d2, d3
Pair == {d1, d2}
Trio == {d1, d2, d3}
SwapPair == Permutations(Pair)
SwapDevices == Permutations(Trio)

\* No operation takes a session to another epoch while it reconciles a document.
Undisturbed ==
    \A d \in Devices : working[d] = Idle \/ working[d].since = Epoch(group[d].branch)

\* d3 has seen nothing of a log with these authors, which the others publish their
\* states of.
Behind(authors, base) ==
    /\ Undisturbed
    /\ group[d3].branch = {} /\ group[d3].fetch = 0 /\ lastTip[d3] = 0
    /\ \E n \in Addresses : DOMAIN docs = 1 .. n
    /\ \A c \in Cursors : /\ log[c].by = authors[c] /\ log[c].commit = (c <= 2)
                          /\ c > 2 => log[c].base = base

\* Two devices race, and the one that lost goes on with the other's state.
RaceThenMessages == Behind(<<d1, d2, Others, Others>>, {1}) /\ group[d1].fetch = 0

\* A Commit of another member, one of d1 on top of it, then a message.
SiblingThenMessage ==
    Behind(<<Others, d1, Others>>, {1, 2}) /\ {1, 2} \cap Cursors \subseteq chain
=============================================================================
