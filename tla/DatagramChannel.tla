-------------------------- MODULE DatagramChannel ---------------------------
(***************************************************************************)
(* What the tunnel promises the application for one direction: the UDP     *)
(* datagrams that come out were put in, unaltered, each at most once; any  *)
(* of them may be lost, and they may come out in any order.  One step may  *)
(* put out several, as one repaired group can complete several datagrams.  *)
(***************************************************************************)
CONSTANT Datagrams

VARIABLES
    sent,       \* datagrams the application handed to the tunnel
    received    \* bag of datagrams the tunnel handed to the other side: how
                \* often each of them came out

vars == <<sent, received>>

Init == sent = {} /\ received = [d \in {} |-> 1]

Send(d) == sent' = sent \cup {d} /\ UNCHANGED received

Deliver(D) ==
    /\ D \cap DOMAIN received = {}
    /\ received' = [d \in DOMAIN received \cup D |-> IF d \in D THEN 1 ELSE received[d]]
    /\ UNCHANGED sent

Next ==
    \/ \E d \in Datagrams \ sent : Send(d)
    \/ \E D \in SUBSET sent : Deliver(D)

Spec == Init /\ [][Next]_vars

=============================================================================
