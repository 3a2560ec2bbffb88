------------------------------- MODULE Carrier -------------------------------
(***************************************************************************)
(* Datagram mode of the QUIC relay, from the server to the client: every   *)
(* datagram of the upstream is cut into numbered fragments, each its own   *)
(* QUIC DATAGRAM, which the network may lose or reorder; the client puts   *)
(* the groups together again and hands the result to its local peer.  The  *)
(* other direction is the same without the peer.                           *)
(*                                                                         *)
(* A fragment's content is the pair of its datagram and its index.  A send *)
(* that is cut off half-way is one whose remaining fragments are lost.     *)
(* Ages are counted in units of which CARRIER_TTL has CarrierTtl.  A       *)
(* connection that ends takes its fragments with it, and the next one      *)
(* begins with a new counter and an empty CarrierReassembly.               *)
(***************************************************************************)
EXTENDS Integers, Sequences, FiniteSets, Bags

CONSTANTS
    MaxPayloads,        \* bound on the datagrams of the upstream
    MaxFragments,       \* MAX_CARRIER_FRAGMENTS
    MaxGroups,          \* MAX_CARRIER_GROUPS
    CarrierTtl,         \* CARRIER_TTL
    MaxSessions         \* bound on the connections made

ASSUME CarrierAssumption ==
    /\ MaxFragments \in Nat \ {0} /\ MaxGroups \in Nat \ {0} /\ CarrierTtl \in Nat
    /\ MaxPayloads \in Nat /\ MaxSessions \in Nat

\* A datagram is known by its place in the order of arrival.
Payloads == 1..MaxPayloads

VARIABLES
    message,            \* the server's message counter
    network,            \* fragments under way
    groups,             \* CarrierReassembly.groups
    localPeer,          \* a local datagram told the client its peer
    session,            \* number of the connection
    offered,            \* history: datagrams received from the upstream
    carries,            \* history: those sent over this connection, in order
    delivered,          \* history: datagrams given to the local peer
    wanting             \* history: messages of this connection that lost a
                        \* fragment, expired, or were complete without a peer

carrierVars == <<message, network, groups, localPeer, session, offered, carries,
                 delivered, wanting>>

CarrierInit ==
    /\ message = 0 /\ network = {} /\ groups = [m \in {} |-> 0]
    /\ localPeer = FALSE /\ session = 1
    /\ offered = {} /\ carries = <<>> /\ delivered = EmptyBag /\ wanting = {}

-----------------------------------------------------------------------------

\* send_carrier, of a payload that needs `count' fragments
SendCarrier(d, count) ==
    /\ d = Cardinality(offered) + 1
    /\ offered' = offered \cup {d} /\ carries' = Append(carries, d)
    /\ message' = message + 1
    /\ network' = network \cup
        {[message |-> message + 1, index |-> i, count |-> count, part |-> <<d, i>>] : i \in 0..(count - 1)}
    /\ UNCHANGED <<groups, localPeer, session, delivered, wanting>>

Lose(f) ==
    /\ network' = network \ {f}
    /\ wanting' = wanting \cup {f.message}
    /\ UNCHANGED <<message, groups, localPeer, session, offered, carries, delivered>>

\* The connection ends and run_client makes the next one.
NewSession ==
    /\ message' = 0 /\ network' = {} /\ groups' = [m \in {} |-> 0]
    /\ localPeer' = FALSE /\ session' = session + 1
    /\ carries' = <<>> /\ wanting' = {}
    /\ UNCHANGED <<offered, delivered>>

Live == {m \in DOMAIN groups : groups[m].age <= CarrierTtl}

\* The group a fragment belongs to, new if there is none.
Group(f) ==
    IF f.message \in Live THEN groups[f.message]
    ELSE [age |-> 0, count |-> f.count, parts |-> [i \in {} |-> 0]]

MutantFitsOneMore(f) == f.message \in Live \/ Cardinality(Live) <= MaxGroups

Fits(f) == f.message \in Live \/ Cardinality(Live) < MaxGroups

\* push returns an error, and `?' ends the session
Unacceptable(f) == ~Fits(f) \/ Group(f).count # f.count

\* The first copy of a part is kept.
WithPart(f) ==
    LET g == Group(f) IN
    [age |-> g.age, count |-> g.count,
     parts |-> [i \in DOMAIN g.parts \cup {f.index} |->
                    IF i \in DOMAIN g.parts THEN g.parts[i] ELSE f.part]]

MutantComplete(g) == 0..(g.count - 2) \subseteq DOMAIN g.parts

Complete(g) == DOMAIN g.parts = 0..(g.count - 1)

\* The payload is one of those sent if its parts are those of one datagram;
\* any other payload is 0.
Joined(g) ==
    IF \E d \in Payloads : g.parts = [i \in 0..(g.count - 1) |-> <<d, i>>]
    THEN g.parts[0][1] ELSE 0

MutantPush(f) ==
    LET g == WithPart(f)
        kept == IF Complete(g) THEN Live \ {f.message} ELSE Live \cup {f.message}
    IN  /\ f \in network /\ ~Unacceptable(f)
        /\ network' = network \ {f}
        /\ IF localPeer
           THEN /\ groups' = [m \in kept |-> IF m = f.message THEN g ELSE groups[m]]
                /\ delivered' = IF Complete(g) THEN delivered (+) SetToBag({Joined(g)}) ELSE delivered
                /\ wanting' = wanting \cup (DOMAIN groups \ Live)
           ELSE /\ wanting' = wanting \cup (IF Complete(g) THEN {f.message} ELSE {})
                /\ UNCHANGED <<groups, delivered>>
        /\ UNCHANGED <<message, localPeer, session, offered, carries>>

\* push succeeds: expired groups go, the part is stored, and a complete group
\* is removed and its payload sent to the local peer, if one is known.
Push(f) ==
    LET g == WithPart(f)
        kept == IF Complete(g) THEN Live \ {f.message} ELSE Live \cup {f.message}
    IN  /\ f \in network /\ ~Unacceptable(f)
        /\ network' = network \ {f}
        /\ groups' = [m \in kept |-> IF m = f.message THEN g ELSE groups[m]]
        /\ delivered' = IF Complete(g) /\ localPeer THEN delivered (+) SetToBag({Joined(g)}) ELSE delivered
        /\ wanting' = wanting \cup (DOMAIN groups \ Live)
                              \cup (IF Complete(g) /\ ~localPeer THEN {f.message} ELSE {})
        /\ UNCHANGED <<message, localPeer, session, offered, carries>>

PushFails(f) ==
    /\ f \in network /\ Unacceptable(f)
    /\ session < MaxSessions
    /\ NewSession

\* The session ends for another reason.
LinkFails ==
    /\ session < MaxSessions
    /\ NewSession

\* The local program sends a datagram: peer_tx.send_replace
LocalDatagram ==
    /\ ~localPeer
    /\ localPeer' = TRUE
    /\ UNCHANGED <<message, network, groups, session, offered, carries, delivered, wanting>>

\* Ages beyond CarrierTtl + 1 are not told apart.
GroupsAge ==
    /\ groups # [m \in {} |-> 0]
    /\ groups' = [m \in DOMAIN groups |->
            [age |-> IF groups[m].age > CarrierTtl THEN groups[m].age ELSE groups[m].age + 1,
             count |-> groups[m].count, parts |-> groups[m].parts]]
    /\ UNCHANGED <<message, network, localPeer, session, offered, carries, delivered, wanting>>

CarrierNext ==
    \/ \E d \in Payloads, count \in 1..MaxFragments : SendCarrier(d, count)
    \/ \E f \in network : Lose(f) \/ Push(f) \/ PushFails(f)
    \/ LinkFails \/ LocalDatagram \/ GroupsAge

CarrierSpec == CarrierInit /\ [][CarrierNext]_carrierVars

-----------------------------------------------------------------------------

\* The table of incomplete datagrams stays within MAX_CARRIER_GROUPS, and the
\* other variables keep their types.
CarrierTypeOK ==
    /\ message \in Nat /\ session \in Nat /\ localPeer \in BOOLEAN
    /\ \A f \in network : f.index < f.count
    /\ Cardinality(DOMAIN groups) <= MaxGroups
    /\ \A m \in DOMAIN groups : groups[m].age <= CarrierTtl + 1
    /\ offered \subseteq Payloads /\ wanting \subseteq 1..message

Channel == INSTANCE DatagramChannel WITH
    Datagrams <- Payloads, sent <- offered, received <- delivered

\* Fragmentation, reassembly and reconnection together are a datagram channel
\* that invents nothing, mixes nothing and delivers at most once: a message
\* number that starts again in a new session never meets fragments of the old.
CarrierIsChannel == Channel!Spec

\* A datagram whose fragments all arrive in time at a client that knows its
\* peer is delivered, however the fragments of other datagrams are reordered,
\* lost or expired around it, and whether the first of them came before the
\* client knew its peer.
NothingElseIsLost ==
    \A m \in 1..Len(carries) :
        \/ m \in wanting
        \/ \E f \in network : f.message = m
        \/ BagIn(carries[m], delivered)

\* A fragment ends the session (push returns an error) only when MaxGroups
\* datagrams of this session, all younger than CARRIER_TTL, are incomplete.
EndsOnlyWhenFull ==
    \A f \in network : Unacceptable(f) => Cardinality(Live) = MaxGroups /\ f.message \notin Live

\* The relay loses a datagram or a session only for the reasons the code names:
\* lost or late fragments, no local peer, a table full of live groups.
LossesExplained == NothingElseIsLost /\ EndsOnlyWhenFull

=============================================================================
