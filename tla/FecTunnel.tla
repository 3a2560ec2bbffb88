----------------------------- MODULE FecTunnel ------------------------------
(***************************************************************************)
(* One direction of the tunnel: an Encoder, the network, and the Decoder   *)
(* of the same session.  Datagrams are cut into fragments, fragments fill  *)
(* groups of at most DataShards shards, a group is sent with up to         *)
(* MaxParity Reed-Solomon shards, and the decoder delivers what arrives at *)
(* once and rebuilds the rest from any `data' shards of the group.         *)
(*                                                                         *)
(* The network loses, repeats and reorders frames: a frame sent stays in   *)
(* `net' and may be received any number of times, or never, until it is    *)
(* MaxDelay old.  The redundancy the encoder finds in its Adaptive         *)
(* controller is any value from 0 to MaxParity (module Adaptive).          *)
(*                                                                         *)
(* A fragment stands for its header and its chunk, a shard for the         *)
(* fragments it is computed from: one for a data shard, all of the group's *)
(* for a parity shard.  Padding the shards to one length and cutting them  *)
(* back to the length in the header cancel out.                            *)
(***************************************************************************)
EXTENDS SequenceWindow, Sequences, SequencesExt, BagsExt

CONSTANTS
    DataShards,         \* DATA_SHARDS                                  (10)
    MaxParity,          \* MAX_PARITY                                    (4)
    GroupTTL,           \* GROUP_TTL
    ReassemblyTTL,      \* REASSEMBLY_TTL
    MaxGroups,          \* MAX_GROUPS
    MaxReassemblies,    \* MAX_REASSEMBLIES
    MaxDelay,           \* a frame arrives within MaxDelay, or never
    FragmentCounts,     \* sizes of the datagrams, in fragments
    MaxDatagrams,       \* bound: datagrams the application sends
    MaxReports,         \* bound: report frames the encoder adds
    MaxTime             \* bound: the clock

ASSUME TunnelAssumption ==
    /\ DataShards \in Nat \ {0} /\ MaxParity \in Nat
    /\ GroupTTL \in Nat \ {0} /\ ReassemblyTTL \in Nat \ {0}
    /\ MaxGroups \in Nat \ {0} /\ MaxReassemblies \in Nat \ {0}
    /\ FragmentCounts \subseteq Nat \ {0}
    /\ {MaxDelay, MaxDatagrams, MaxReports, MaxTime} \subseteq Nat

VARIABLES
    enc,        \* the Encoder: sequence, packet, group, shards
    net,        \* frames sent so far, with the time of sending
    win,        \* the Decoder's sequence window
    groups,     \* the Decoder's groups, by number
    packets,    \* the Decoder's reassemblies, by packet number
    clock,
    sent,       \* history: datagrams handed to the encoder
    delivered,  \* history: bag of datagrams the decoder returned
    accepted,   \* history: when each sequence was processed
    full        \* history: a table's limit has refused or evicted something

encVars == <<enc, net, sent>>
decVars == <<win, groups, packets, delivered, accepted, full>>
vars == <<enc, net, win, groups, packets, clock, sent, delivered, accepted, full>>

-----------------------------------------------------------------------------
\* The Encoder

Fragment(packet, idx, count) == [packet |-> packet, idx |-> idx, count |-> count]

NewEncoder == [sequence |-> 1, packet |-> 1, group |-> 1, shards |-> <<>>]

\* Repair shards for a group of `data' source shards at redundancy p.
GroupParity(data, p) ==
    LET full_group == (data * p + DataShards - 1) \div DataShards
        wanted == IF data < DataShards THEN Min({p, data}) ELSE full_group
    IN Min({wanted, MaxParity})

\* The frames flush() makes of the pending shards.
GroupFrames(e, p) ==
    LET data == Len(e.shards)
        parity == GroupParity(data, p)
    IN {[kind |-> IF i < data THEN "data" ELSE "parity",
         seq |-> e.sequence + i, group |-> e.group, index |-> i,
         data |-> data, parity |-> parity, at |-> clock,
         shard |-> IF i < data THEN <<e.shards[i + 1]>> ELSE e.shards]
            : i \in 0..(data + parity - 1)}

Flush(e, p) ==
    [e EXCEPT !.sequence = @ + Cardinality(GroupFrames(e, p)),
              !.group = @ + 1, !.shards = <<>>]

\* One round of encode_datagram's loop: a full group is flushed at once.
PushFragment(acc, fragment, p) ==
    LET e == [acc.enc EXCEPT !.shards = Append(@, fragment)]
    IN IF Len(e.shards) = DataShards
       THEN [enc |-> Flush(e, p), frames |-> acc.frames \cup GroupFrames(e, p)]
       ELSE [enc |-> e, frames |-> acc.frames]

Datagram(packet, count) == [i \in 1..count |-> Fragment(packet, i - 1, count)]

\* An application datagram of `count' fragments arrives at the encoder's side.
EncodeDatagram(count, p) ==
    LET start == [enc |-> [enc EXCEPT !.packet = @ + 1], frames |-> {}]
        datagram == Datagram(enc.packet, count)
        end == FoldLeft(LAMBDA acc, f : PushFragment(acc, f, p), start, datagram)
    IN /\ enc.packet <= MaxDatagrams
       /\ enc' = end.enc
       /\ net' = net \cup end.frames
       /\ sent' = sent \cup {datagram}
       /\ UNCHANGED <<decVars, clock>>

\* The flush timer fires: a partial group does not wait for more data.
FlushTick(p) ==
    /\ enc.shards # <<>>
    /\ enc' = Flush(enc, p)
    /\ net' = net \cup GroupFrames(enc, p)
    /\ UNCHANGED <<decVars, clock, sent>>

\* A report about the other direction takes a sequence number of this one.
SendReport ==
    /\ Cardinality({f \in net : f.kind = "report"}) < MaxReports
    /\ enc' = [enc EXCEPT !.sequence = @ + 1]
    /\ net' = net \cup {[kind |-> "report", seq |-> enc.sequence, group |-> 0,
                         index |-> 0, data |-> 0, parity |-> 0, at |-> clock,
                         shard |-> <<>>]}
    /\ UNCHANGED <<decVars, clock, sent>>

-----------------------------------------------------------------------------
\* The Decoder

Young(f, ttl) == RestrictValues(f, LAMBDA e : clock - e.created < ttl)

MutantPruneGroups(gs) ==
    RestrictValues(Young(gs, GroupTTL), LAMBDA g : Cardinality(g.delivered) < g.data)

\* prune(), the groups: complete ones are kept as tombstones.
PruneGroups(gs) == Young(gs, GroupTTL)

MutantPrunePackets(ps) == {Young(ps, ReassemblyTTL)}

\* prune(), the reassemblies: beyond the limit the oldest go; which of several
\* equally old ones is not determined.
PrunePackets(ps) ==
    LET young == Young(ps, ReassemblyTTL)
        excess == Cardinality(DOMAIN young) - MaxReassemblies
        Oldest(E) == \A p \in E, q \in DOMAIN young \ E :
                        young[p].created <= young[q].created
    IN IF excess <= 0
       THEN {young}
       ELSE {Restrict(young, DOMAIN young \ E) :
                E \in {E \in SUBSET DOMAIN young : Cardinality(E) = excess /\ Oldest(E)}}

\* fragment(): adds a fragment to its packet, and returns the packet when
\* nothing is missing any more.
AddFragment(acc, f) ==
    LET entry == IF f.packet \in DOMAIN acc.packets
                 THEN acc.packets[f.packet]
                 ELSE [created |-> clock, parts |-> [i \in 1..f.count |-> <<>>]]
        parts == [entry.parts EXCEPT ![f.idx + 1] = <<f>>]
    IN IF \A i \in DOMAIN parts : parts[i] # <<>>
       THEN [packets |-> Restrict(acc.packets, DOMAIN acc.packets \ {f.packet}),
             output |-> Append(acc.output, FlattenSeq(parts))]
       ELSE [packets |-> (f.packet :> [entry EXCEPT !.parts = parts]) @@ acc.packets,
             output |-> acc.output]

\* ReedSolomon::reconstruct: `data' shards of a group determine all the others.
Reconstruct(shards, data, total) ==
    LET parity == shards[CHOOSE i \in DOMAIN shards : i >= data]
    IN [i \in 0..(total - 1) |->
            IF i \in DOMAIN shards THEN shards[i]
            ELSE IF i < data THEN <<parity[i + 1]>> ELSE parity]

\* The group the frame belongs to, with the frame's shard in it.
StoreShard(f, gs) ==
    LET g == IF f.group \in DOMAIN gs
             THEN gs[f.group]
             ELSE [created |-> clock, data |-> f.data, parity |-> f.parity,
                   shards |-> <<>>, delivered |-> {}]
    IN [g EXCEPT !.shards = @ @@ (f.index :> f.shard)]

MutantRepairs(g) == g.parity > 0 /\ Cardinality(DOMAIN g.shards) > g.data

\* The group can be rebuilt.
Repairs(g) == g.parity > 0 /\ Cardinality(DOMAIN g.shards) >= g.data

\* The shards frame() hands to fragment(), in order: the one that arrived,
\* then the ones rebuilt.
Released(f, g) ==
    LET immediate == {i \in {f.index} : i < g.data} \ g.delivered
        missing == (0..g.data - 1) \ (g.delivered \cup immediate)
        rebuilt == IF Repairs(g) THEN missing ELSE {}
        shards == IF rebuilt = {} THEN g.shards
                  ELSE Reconstruct(g.shards, g.data, g.data + g.parity)
        order == SetToSeq(immediate) \o SetToSortSeq(rebuilt, <)
    IN [fragments |-> [i \in DOMAIN order |-> shards[order[i]][1]],
        group |-> [g EXCEPT !.shards = shards,
                            !.delivered = @ \cup immediate \cup rebuilt]]

MutantNoRoom(f, gs) == f.group \notin DOMAIN gs /\ Cardinality(DOMAIN gs) > MaxGroups

\* "too many fec groups"
NoRoom(f, gs) == f.group \notin DOMAIN gs /\ Cardinality(DOMAIN gs) >= MaxGroups

\* frame(), from the first prune() on, for a data or parity frame.
DecodeShard(f) ==
    LET gs == PruneGroups(groups)
        released == Released(f, StoreShard(f, gs))
    IN \E ps \in PrunePackets(packets) :
        IF NoRoom(f, gs)
        THEN /\ groups' = gs
             /\ packets' = ps
             /\ full' = TRUE
             /\ UNCHANGED delivered
        ELSE LET end == FoldLeft(AddFragment, [packets |-> ps, output |-> <<>>],
                                 released.fragments)
             IN /\ groups' = PruneGroups((f.group :> released.group) @@ gs)
                /\ packets' \in PrunePackets(end.packets)
                /\ full' = (full \/ Cardinality(DOMAIN end.packets) > MaxReassemblies)
                /\ delivered' = FoldLeft(BagAdd, delivered, end.output)

\* A frame reaches the decoder.  The checks of frame() on the session, the
\* kind, the sizes and the shape of the group hold of every frame an encoder
\* of this session sends.
Receive(f) ==
    /\ clock - f.at <= MaxDelay
    /\ win' = ObserveSeq(win, f.seq)
    /\ accepted' = IF Fresh(win, f.seq) THEN (f.seq :> clock) @@ accepted ELSE accepted
    /\ IF Fresh(win, f.seq) /\ f.kind # "report"
       THEN DecodeShard(f)
       ELSE UNCHANGED <<groups, packets, delivered, full>>
    /\ UNCHANGED <<encVars, clock>>

\* The report timer of the receiving side fires.
ReportTick ==
    /\ HasReport(win)
    /\ win' = SequenceReport(win)
    /\ UNCHANGED <<encVars, clock, groups, packets, delivered, accepted, full>>

Tick ==
    /\ clock < MaxTime
    /\ clock' = clock + 1
    /\ UNCHANGED <<encVars, decVars>>

-----------------------------------------------------------------------------

Init ==
    /\ enc = NewEncoder
    /\ net = {}
    /\ win = NewWindow
    /\ groups = <<>> /\ packets = <<>>
    /\ clock = 0
    /\ sent = {} /\ delivered = EmptyBag /\ accepted = <<>> /\ full = FALSE

Next ==
    \/ \E count \in FragmentCounts, p \in 0..MaxParity : EncodeDatagram(count, p)
    \/ \E p \in 0..MaxParity : FlushTick(p)
    \/ SendReport
    \/ \E f \in net : Receive(f)
    \/ ReportTick
    \/ Tick

Spec == Init /\ [][Next]_vars

-----------------------------------------------------------------------------

Groups == {f.group : f \in net} \ {0}
Frames(g) == {f \in net : f.group = g}
Arrived(g) == {f \in Frames(g) : f.seq \in DOMAIN accepted}
GroupsOf(d) == {f.group : f \in {f \in net : f.kind = "data" /\ f.shard[1] \in Range(d)}}

\* The encoder never holds a full group back, and the decoder's groups have
\* only slots that their data and parity counts allow.
TypeOK ==
    /\ enc.shards \in Seq([packet : 1..MaxDatagrams, idx : Nat, count : FragmentCounts])
    /\ Len(enc.shards) < DataShards
    /\ win \in Window
    /\ DOMAIN groups \subseteq Groups
    /\ \A g \in DOMAIN groups :
        /\ groups[g].data \in 1..DataShards /\ groups[g].parity \in 0..MaxParity
        /\ DOMAIN groups[g].shards \subseteq 0..(groups[g].data + groups[g].parity - 1)
        /\ groups[g].delivered \subseteq 0..(groups[g].data - 1)
    /\ DOMAIN packets \subseteq 1..MaxDatagrams
    /\ clock \in 0..MaxTime
    /\ full \in BOOLEAN

\* The decoder's tables keep their shape and stay within MAX_GROUPS and
\* MAX_REASSEMBLIES whatever arrives, although one repaired group can open
\* several reassemblies.
BoundedTables ==
    /\ TypeOK
    /\ Cardinality(DOMAIN groups) <= MaxGroups
    /\ Cardinality(DOMAIN packets) <= MaxReassemblies

\* The channel the application sees: what comes out is what the decoder returned.
Channel == INSTANCE DatagramChannel
    WITH Datagrams <- {Datagram(p, n) : p \in 1..MaxDatagrams, n \in FragmentCounts},
         received <- delivered

\* Seen from the application the tunnel is an at-most-once datagram channel,
\* as long as no frame is in flight for a whole GROUP_TTL: nothing invented,
\* mixed up, truncated or repeated by fragmentation, repair and reassembly.
ChannelSpec == Channel!Spec

\* Group g can yield the fragments of d: they arrived, or enough to rebuild.
Available(d, g) ==
    \/ \A f \in Frames(g) : f.kind = "data" /\ f.shard[1] \in Range(d) => f \in Arrived(g)
    \/ \E f \in Frames(g) : Cardinality(Arrived(g)) >= f.data
ArrivalTimes(d) == UNION {{accepted[f.seq] : f \in Arrived(g)} : g \in GroupsOf(d)}
Prompt(d) == \A s, t \in ArrivalTimes(d) : t - s < Min({GroupTTL, ReassemblyTTL})
Shipped(d) == \A i \in DOMAIN d : d[i] \notin Range(enc.shards)

\* The repair works: a datagram comes out once, of each of its groups, either
\* its own shards or any `data' shards have been processed, provided the
\* frames of its groups came within the life of a group and no table was full.
RepairWorks ==
    \A d \in sent :
        /\ ~full /\ Shipped(d) /\ Prompt(d)
        /\ \A g \in GroupsOf(d) : Available(d, g)
        => BagIn(d, delivered)

\* With frames that are delayed longer a datagram can come out again, but only
\* when each of its groups received frames at least a GROUP_TTL apart: the
\* tombstones that prune() keeps suppress every earlier repetition.
RepeatsAreLate ==
    \A d \in BagToSet(delivered) : delivered[d] > 1 =>
        \A g \in GroupsOf(d) : \E e, f \in Arrived(g) :
            accepted[f.seq] - accepted[e.seq] >= GroupTTL

=============================================================================
