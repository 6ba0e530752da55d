----------------------------- MODULE GroupFeed -----------------------------
(***************************************************************************)
(* What the coordinator promises to the reader of a subscription stream,   *)
(* with nothing of how it is done: every group is a log of messages        *)
(* numbered 1, 2, 3, ...; a stream opened with a cursor per group hands    *)
(* over, for each of its groups, the messages after that cursor, one after *)
(* the other, none missing, none twice.  GroupDelivery implements it.      *)
(***************************************************************************)
EXTENDS Naturals

CONSTANTS Groups,    \* delivery group identifiers
          Streams    \* subscription streams of clients

VARIABLES last,      \* last[g]: the cursor of the newest message of g
          open,      \* open[s]: the stream's request is being served
          live,      \* live[s]: its client still reads
          groups,    \* groups[s]: the groups it asked for
          position   \* position[s][g]: the newest message of g handed over

vars == <<last, open, live, groups, position>>

Init ==
    /\ last = [g \in Groups |-> 0]
    /\ open = [s \in Streams |-> FALSE]
    /\ live = [s \in Streams |-> FALSE]
    /\ groups = [s \in Streams |-> {}]
    /\ position = [s \in Streams |-> [g \in Groups |-> 0]]

Append(g) ==
    /\ last' = [last EXCEPT ![g] = @ + 1]
    /\ UNCHANGED <<open, live, groups, position>>

Open(s) ==
    /\ ~open[s]
    /\ open' = [open EXCEPT ![s] = TRUE]
    /\ live' = [live EXCEPT ![s] = TRUE]
    /\ \E G \in SUBSET Groups \ {{}} : groups' = [groups EXCEPT ![s] = G]
    /\ position'[s] \in [Groups -> Nat]
    /\ position' = [position EXCEPT ![s] = position'[s]]
    /\ UNCHANGED last

Deliver(s, g) ==
    /\ open[s]
    /\ g \in groups[s]
    /\ position[s][g] < last[g]
    /\ position' = [position EXCEPT ![s][g] = @ + 1]
    /\ UNCHANGED <<last, open, live, groups>>

Leave(s) ==
    /\ live[s]
    /\ live' = [live EXCEPT ![s] = FALSE]
    /\ open' \in {open, [open EXCEPT ![s] = FALSE]}
    /\ UNCHANGED <<last, groups, position>>

\* A stream is closed only once its client is gone.
Close(s) ==
    /\ open[s] /\ ~live[s]
    /\ open' = [open EXCEPT ![s] = FALSE]
    /\ UNCHANGED <<last, live, groups, position>>

Next ==
    \/ \E g \in Groups : Append(g)
    \/ \E s \in Streams :
          \/ Open(s) \/ Leave(s) \/ Close(s)
          \/ \E g \in Groups : Deliver(s, g)

Spec == Init /\ [][Next]_vars
=============================================================================
