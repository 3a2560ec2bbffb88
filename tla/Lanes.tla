-------------------------------- MODULE Lanes --------------------------------
(***************************************************************************)
(* Lane mode of the QUIC relay: both ends copy datagrams between a local   *)
(* socket and reliable streams ("lanes").  Each end is a loop that selects *)
(* between its socket and a bounded queue, which one reader task per lane  *)
(* fills; while the loop writes to a lane that is out of flow-control      *)
(* credit it does nothing else.                                            *)
(*                                                                         *)
(* The datagrams an end takes from its socket are numbered in the order it *)
(* takes them.  A lane holds whole datagrams.  The state is that of one    *)
(* connection; what a lost connection loses is out of its scope.           *)
(***************************************************************************)
EXTENDS Integers, Sequences

CONSTANTS
    LaneCredit,     \* datagrams a stream takes before its reader must read
    QueueCapacity,  \* capacity of the mpsc channel (1024)
    MaxTaken        \* bound on the datagrams of each local socket

ASSUME LaneAssumption == LaneCredit \in Nat \ {0} /\ QueueCapacity \in Nat \ {0} /\ MaxTaken \in Nat

Ends == {"client", "server"}
Other(e) == IF e = "client" THEN "server" ELSE "client"

MutantLaneCount == 2

\* MAX_STREAM_LANES
LaneCount == 1

VARIABLES
    taken,      \* datagrams an end has taken from its socket
    writing,    \* its loop is in write_stream_datagram
    nextLane,
    stream,     \* what an end has written to a lane and the other not read
    hand,       \* the datagram an end's reader of a lane has read; 0: none
    queue,      \* an end's channel from its readers to its loop
    output      \* history: what an end has handed to its socket or, having
                \* no peer yet, dropped

laneVars == <<taken, writing, nextLane, stream, hand, queue, output>>

LanesInit ==
    /\ taken = [e \in Ends |-> 0]
    /\ writing = [e \in Ends |-> FALSE]
    /\ nextLane = [e \in Ends |-> 0]
    /\ stream = [e \in Ends |-> [l \in 0..(LaneCount - 1) |-> <<>>]]
    /\ hand = [e \in Ends |-> [l \in 0..(LaneCount - 1) |-> 0]]
    /\ queue = [e \in Ends |-> <<>>]
    /\ output = [e \in Ends |-> <<>>]

-----------------------------------------------------------------------------

\* The loop takes a datagram from its socket and begins to write it.
Take(e) ==
    /\ ~writing[e] /\ taken[e] < MaxTaken
    /\ taken' = [taken EXCEPT ![e] = @ + 1]
    /\ writing' = [writing EXCEPT ![e] = TRUE]
    /\ UNCHANGED <<nextLane, stream, hand, queue, output>>

\* write_stream_datagram returns.
Write(e) ==
    LET l == nextLane[e] IN
    /\ writing[e] /\ Len(stream[e][l]) < LaneCredit
    /\ stream' = [stream EXCEPT ![e][l] = Append(@, taken[e])]
    /\ writing' = [writing EXCEPT ![e] = FALSE]
    /\ nextLane' = [nextLane EXCEPT ![e] = (l + 1) % LaneCount]
    /\ UNCHANGED <<taken, hand, queue, output>>

\* A reader of spawn_lane_readers: read_stream_datagram ...
ReadLane(e, l) ==
    /\ hand[e][l] = 0 /\ stream[Other(e)][l] # <<>>
    /\ hand' = [hand EXCEPT ![e][l] = Head(stream[Other(e)][l])]
    /\ stream' = [stream EXCEPT ![Other(e)][l] = Tail(@)]
    /\ UNCHANGED <<taken, writing, nextLane, queue, output>>

\* ... and tx.send, which waits for room.
Enqueue(e, l) ==
    /\ hand[e][l] # 0 /\ Len(queue[e]) < QueueCapacity
    /\ queue' = [queue EXCEPT ![e] = Append(@, hand[e][l])]
    /\ hand' = [hand EXCEPT ![e][l] = 0]
    /\ UNCHANGED <<taken, writing, nextLane, stream, output>>

\* The loop takes a datagram from the queue and sends it to its socket; the
\* client drops it while it has taken nothing and so knows no peer.
PutOut(e) ==
    /\ ~writing[e] /\ queue[e] # <<>>
    /\ output' = [output EXCEPT ![e] = Append(@, Head(queue[e]))]
    /\ queue' = [queue EXCEPT ![e] = Tail(@)]
    /\ UNCHANGED <<taken, writing, nextLane, stream, hand>>

Move(e) ==
    \/ Write(e) \/ PutOut(e)
    \/ \E l \in 0..(LaneCount - 1) : ReadLane(e, l) \/ Enqueue(e, l)

LanesNext == \E e \in Ends : Take(e) \/ Move(e)

\* The runtime polls a task whose await is over.
LanesFairness == \A e \in Ends : WF_laneVars(Move(e))

LanesSpec == LanesInit /\ [][LanesNext]_laneVars /\ LanesFairness

-----------------------------------------------------------------------------

\* The loops, the streams and the queue keep their types and their bounds.
LanesTypeOK ==
    /\ taken \in [Ends -> 0..MaxTaken] /\ writing \in [Ends -> BOOLEAN]
    /\ \A e \in Ends :
        /\ nextLane[e] \in 0..(LaneCount - 1)
        /\ \A l \in 0..(LaneCount - 1) :
            Len(stream[e][l]) <= LaneCredit /\ hand[e][l] \in 0..taken[Other(e)]
        /\ Len(queue[e]) <= QueueCapacity

\* Both loops are writing, both streams are out of credit, and neither reader
\* can go on because its loop does not empty the queue.
Saturated ==
    \A e \in Ends :
        /\ writing[e]
        /\ Len(stream[e][nextLane[e]]) = LaneCredit
        /\ Len(queue[e]) = QueueCapacity
        /\ \A l \in 0..(LaneCount - 1) : hand[e][l] # 0

\* "Keep the product mode strictly ordered" (quic_relay.rs:48): what an end
\* takes from its socket is put out at the other, again and again all of it, in
\* the same order and without a gap, through loop, stream, reader and queue,
\* unless traffic saturates both directions at once: load in one direction
\* alone never stops the relay.
LanesDeliver ==
    \A e \in Ends : []<>(output[Other(e)] = [i \in 1..taken[e] |-> i] \/ Saturated)

=============================================================================
