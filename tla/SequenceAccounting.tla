------------------------- MODULE SequenceAccounting -------------------------
(***************************************************************************)
(* One Decoder's window under arbitrary arrivals.  `processed', `base' and *)
(* the two tallies are history variables: how often the body of frame()    *)
(* ran for a sequence, the baseline, and the sums over the reports sent.   *)
(***************************************************************************)
EXTENDS SequenceWindow

VARIABLES
    win,        \* the Decoder's window
    processed,  \* how often each sequence was processed
    base,       \* finalized_sequence set by the first frame
    expected,   \* sum of `expected' over the reports
    missing     \* sum of `missing' over the reports

vars == <<win, processed, base, expected, missing>>

Init ==
    /\ win = NewWindow
    /\ processed = [s \in SeqNums |-> 0]
    /\ base = 0 /\ expected = 0 /\ missing = 0

\* A frame of the peer reaches the decoder.
Arrive(seq) ==
    /\ win' = ObserveSeq(win, seq)
    /\ processed' = IF Fresh(win, seq)
                    THEN [processed EXCEPT ![seq] = @ + 1]
                    ELSE processed
    /\ base' = IF win = NewWindow THEN seq - 1 ELSE base
    /\ UNCHANGED <<expected, missing>>

\* The report timer fires.
ReportTick ==
    /\ win' = SequenceReport(win)
    /\ expected' = IF HasReport(win) THEN expected + Expected(win) ELSE expected
    /\ missing' = IF HasReport(win) THEN missing + Missing(win) ELSE missing
    /\ UNCHANGED <<processed, base>>

Next == ReportTick \/ \E seq \in SeqNums : Arrive(seq)

Spec == Init /\ [][Next]_vars

\* The report timer of the select loop keeps firing.
FairSpec == Spec /\ WF_vars(ReportTick)

-----------------------------------------------------------------------------

\* The Decoder's window and the tallies stay numbers: finalized_sequence never
\* wraps below zero at the first frame.
TypeOK ==
    /\ win \in Window
    /\ processed \in [SeqNums -> Nat]
    /\ base \in Nat
    /\ expected \in Nat
    /\ missing \in Nat

\* No frame is processed twice, however often the network repeats it and
\* whenever the report timer forgets old sequences.
ProcessedAtMostOnce == \A s \in SeqNums : processed[s] <= 1

\* After the first frame, a frame less than ReorderWindow behind the newest
\* one is never refused as late.
ReorderTolerated ==
    \A s \in SeqNums :
        s > base /\ s + ReorderWindow > win.highest => s > win.finalized

\* The reports account for every sequence exactly once: together they cover
\* base + 1 .. finalized, and count as missing precisely those that were never
\* processed (a late arrival cannot change what was reported).
ReportsAddUp ==
    /\ expected = win.finalized - base
    /\ missing = expected - Cardinality({s \in SeqNums :
                                s <= win.finalized /\ processed[s] > 0})

\* A gap is not kept back for ever: once MinSample sequences from s on have
\* left the reorder window, a report covers s, although ticks that find too
\* few of them report nothing.
GapsReported ==
    \A s \in SeqNums :
        (s > base /\ s + ReorderWindow + MinSample - 1 <= win.highest)
            ~> s <= win.finalized

=============================================================================
