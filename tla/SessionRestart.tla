--------------------------- MODULE SessionRestart ---------------------------
(***************************************************************************)
(* A session that is registered again under a running client: the tunnel   *)
(* server was restarted, or the session's task had ended or was idle and   *)
(* cleanup removed its entry.  The client's next frame registers it with a *)
(* new Encoder that counts sequences and groups from 1, while the client's *)
(* Decoder keeps the window and the groups of the registration before: new *)
(* frames meet numbers the client has already seen.                        *)
(*                                                                         *)
(* Only the direction from the server to the client is modelled, as that   *)
(* is where the counters start again.  Of a shard the client keeps where   *)
(* it comes from.  A frame arrives, any number of times, within MaxLag     *)
(* ticks, or never.  The limit MAX_GROUPS, which only refuses frames, is   *)
(* left to FecTunnel.                                                      *)
(***************************************************************************)
EXTENDS SequenceWindow

CONSTANTS
    DataShards,     \* DATA_SHARDS
    Parities,       \* the parities Adaptive asks for, at most MAX_PARITY
    GroupTtl,       \* GROUP_TTL in ticks
    MaxLag,         \* how long a frame can be under way
    MaxClock,       \* bound on the time
    MaxRestarts     \* bound on the registrations after the first

ASSUME RestartAssumption ==
    /\ DataShards \in Nat \ {0} /\ Parities \subseteq Nat /\ GroupTtl \in Nat \ {0}
    /\ MaxLag \in Nat /\ MaxClock \in Nat /\ MaxRestarts \in Nat

VARIABLES
    clock,
    registration,   \* number of registrations so far
    next,           \* Encoder.sequence
    nextGroup,      \* Encoder.group
    air,            \* frames under way
    window,         \* the client's sequence window
    table,          \* Decoder.groups of the client
    before,         \* history: highest sequence that an earlier registration
                    \* sent or that precedes the first frame received
    handled         \* history: sequences of this registration processed

restartVars == <<clock, registration, next, nextGroup, air, window, table, before, handled>>

RestartInit ==
    /\ clock = 0
    /\ registration = 1 /\ next = 1 /\ nextGroup = 1
    /\ air = {}
    /\ window = NewWindow
    /\ table = [g \in {} |-> 0]
    /\ before = 0 /\ handled = {}

-----------------------------------------------------------------------------
\* The session's task at the server

\* The frame with index i of a group of d data and p parity shards.
Frame(i, d, p) ==
    [from |-> registration, at |-> clock, seq |-> next + i,
     group |-> nextGroup, index |-> i, data |-> d, parity |-> p]

\* Encoder::flush, after DATA_SHARDS fragments or at the flush tick, with as
\* much parity as asked for but no more than data.
SendGroup(d, asked) ==
    LET p == IF asked < d THEN asked ELSE d IN
    /\ \A i \in 0..(d + p - 1) : next + i \in SeqNums
    /\ air' = air \cup {Frame(i, d, p) : i \in 0..(d + p - 1)}
    /\ next' = next + d + p /\ nextGroup' = nextGroup + 1
    /\ UNCHANGED <<clock, registration, window, table, before, handled>>

\* Encoder::report_frame: a sequence, but no group.
SendReport ==
    /\ next \in SeqNums
    /\ air' = air \cup {[from |-> registration, at |-> clock, seq |-> next,
                         group |-> 0, index |-> 0, data |-> 0, parity |-> 0]}
    /\ next' = next + 1
    /\ UNCHANGED <<clock, registration, nextGroup, window, table, before, handled>>

\* The session is registered again.  The old task has ended by then, but not
\* for any particular time.
Register ==
    /\ registration <= MaxRestarts
    /\ registration' = registration + 1
    /\ next' = 1 /\ nextGroup' = 1
    /\ before' = IF next - 1 > before THEN next - 1 ELSE before
    /\ handled' = {}
    /\ UNCHANGED <<clock, air, window, table>>

-----------------------------------------------------------------------------
\* The client's Decoder

Origin(f) == [from |-> f.from, at |-> f.at]

Origins(g) == UNION {g.shards[i] : i \in DOMAIN g.shards}

MutantYoung(g) == clock - table[g].created <= GroupTtl

Young(g) == clock - table[g].created < GroupTtl

\* The groups prune keeps.
Kept == {g \in DOMAIN table : Young(g)}

\* The entry of a frame's group.
Entry(f) ==
    IF f.group \in Kept
    THEN table[f.group]
    ELSE [created |-> clock, data |-> f.data, parity |-> f.parity, shards |-> [i \in {} |-> {}]]

\* The first frame for a place stays there.
Placed(shards, f) ==
    [i \in DOMAIN shards \cup {f.index} |-> IF i \in DOMAIN shards THEN shards[i] ELSE {Origin(f)}]

\* A data shard is missing and as many shards as data shards are there: what
\* reconstruct makes of them comes from all.
Reconstructed(g) ==
    IF g.parity > 0 /\ Cardinality(DOMAIN g.shards) >= g.data /\ \E i \in 0..(g.data - 1) : i \notin DOMAIN g.shards
    THEN [g EXCEPT !.shards =
            [i \in 0..(g.data + g.parity - 1) |-> IF i \in DOMAIN g.shards THEN g.shards[i] ELSE Origins(g)]]
    ELSE g

\* The group of a frame, after it; "group mismatch" leaves it as it was.
GroupWith(f) ==
    IF Entry(f).data = f.data /\ Entry(f).parity = f.parity
    THEN Reconstructed([Entry(f) EXCEPT !.shards = Placed(@, f)])
    ELSE Entry(f)

\* Decoder::frame; of a report frame the client's loop observes the sequence.
FrameArrives(f) ==
    /\ window' = ObserveSeq(window, f.seq)
    /\ table' = IF Fresh(window, f.seq) /\ f.data > 0
                THEN [g \in Kept \cup {f.group} |-> IF g = f.group THEN GroupWith(f) ELSE table[g]]
                ELSE table
    /\ handled' = IF Fresh(window, f.seq) /\ f.from = registration THEN handled \cup {f.seq} ELSE handled
    /\ before' = IF window = NewWindow /\ f.seq - 1 > before THEN f.seq - 1 ELSE before
    /\ UNCHANGED <<clock, registration, next, nextGroup, air>>

\* The client's report timer.
ClientReport ==
    /\ HasReport(window)
    /\ window' = SequenceReport(window)
    /\ UNCHANGED <<clock, registration, next, nextGroup, air, table, before, handled>>

\* A tick; what has been under way for MaxLag ticks does not arrive any more.
TimePasses ==
    /\ clock < MaxClock
    /\ clock' = clock + 1
    /\ air' = {f \in air : f.at + MaxLag > clock}
    /\ UNCHANGED <<registration, next, nextGroup, window, table, before, handled>>

RestartNext ==
    \/ (\E d \in 1..DataShards, asked \in Parities : SendGroup(d, asked)) \/ SendReport \/ Register
    \/ (\E f \in air : FrameArrives(f)) \/ ClientReport \/ TimePasses

RestartSpec == RestartInit /\ [][RestartNext]_restartVars

-----------------------------------------------------------------------------

\* The encoder's sequence stays ahead of what this registration sent, the
\* client's window is one, and no shard comes from the future.
RestartTypeOK ==
    /\ clock \in 0..MaxClock /\ registration \in 1..(MaxRestarts + 1)
    /\ next \in Nat /\ nextGroup \in Nat
    /\ \A f \in air : f.from < registration \/ (f.from = registration /\ f.seq < next)
    /\ window \in Window
    /\ \A g \in DOMAIN table : \A e \in Origins(table[g]) : e.from <= registration /\ e.at <= clock

\* What a new registration costs the client: it refuses a frame as late or
\* repeated only if it has already processed it, or it is further behind the
\* newest frame than REORDER_WINDOW, or its number is one the earlier
\* registrations had reached (or comes before the first frame it ever
\* received).  The return traffic is back, at the latest, once the new encoder
\* has sent as many frames as the old one.
OutageBounded ==
    \A f \in air :
        \/ f.from < registration
        \/ Fresh(window, f.seq)
        \/ f.seq \in handled
        \/ f.seq + ReorderWindow <= window.highest
        \/ f.seq <= before

\* A frame meets shards of another registration in its group, with which a
\* repair would combine it or for which it is a "group mismatch", only if the
\* two were sent less than GROUP_TTL and the delay of the network apart.  So a
\* pause that long between the last frame of one registration and the first of
\* the next is enough.  A shorter one is not: nothing but the age of a group
\* keeps registrations apart.
ClashIsQuick ==
    [][\A f \in air :
        FrameArrives(f) /\ Fresh(window, f.seq) /\ f.data > 0 =>
            \A e \in Origins(table'[f.group]) :
                /\ e.from < f.from => f.at - e.at < GroupTtl + MaxLag
                /\ f.from < e.from => e.at - f.at < GroupTtl + MaxLag]_restartVars

=============================================================================
