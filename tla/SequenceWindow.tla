--------------------------- MODULE SequenceWindow ---------------------------
(***************************************************************************)
(* The sequence accounting of a Decoder: which frames of the peer are      *)
(* processed (observe_seq), and what the two-second report tells the peer  *)
(* about the ones that never came (sequence_report).  Frames arrive in any *)
(* order and any number of times.                                          *)
(*                                                                         *)
(* The window is a record of the Decoder's fields, so that a specification *)
(* with several decoders can use the operators.  The counters of late and  *)
(* duplicate frames are left out: they are only logged.                    *)
(***************************************************************************)
EXTENDS Integers, FiniteSets

CONSTANTS
    ReorderWindow,  \* REORDER_WINDOW                                   (64)
    MinSample,      \* sequences a report must cover                    (32)
    PPM,            \* a report's gap is in parts of PPM         (1_000_000)
    SeqNums         \* the sequence numbers frames carry

ASSUME WindowAssumption ==
    /\ ReorderWindow \in Nat
    /\ MinSample \in Nat \ {0}
    /\ PPM \in Nat \ {0}
    /\ SeqNums \subseteq Nat \ {0}

Window == [highest : Nat, finalized : Nat, seen : SUBSET SeqNums]

NewWindow == [highest |-> 0, finalized |-> 0, seen |-> {}]

-----------------------------------------------------------------------------
\* observe_seq

\* finalized_sequence as observe_seq compares with it: the first frame sets
\* the baseline, nothing before it is expected.
Baseline(w, seq) == IF w = NewWindow THEN seq - 1 ELSE w.finalized

\* observe_seq returns true: the frame is neither late nor a duplicate.
MutantFresh(w, seq) == seq > Baseline(w, seq)

Fresh(w, seq) == seq > Baseline(w, seq) /\ seq \notin w.seen

ObserveSeq(w, seq) ==
    IF seq <= Baseline(w, seq)
    THEN w
    ELSE [highest |-> IF seq > w.highest THEN seq ELSE w.highest,
          finalized |-> Baseline(w, seq),
          seen |-> w.seen \cup {seq}]

-----------------------------------------------------------------------------
\* sequence_report

MutantCutoff(w) == w.highest

Cutoff(w) == IF w.highest < ReorderWindow THEN 0 ELSE w.highest - ReorderWindow

Expected(w) == Cutoff(w) - w.finalized

\* sequence_report returns Some: enough sequences left the reorder window.
MutantHasReport(w) == Cutoff(w) > w.finalized /\ Expected(w) > MinSample

HasReport(w) == Cutoff(w) > w.finalized /\ Expected(w) >= MinSample

MutantReceived(w) == Cardinality({s \in w.seen : s > w.finalized /\ s < Cutoff(w)})

Received(w) == Cardinality({s \in w.seen : s > w.finalized /\ s <= Cutoff(w)})

Missing(w) == IF Expected(w) < Received(w) THEN 0 ELSE Expected(w) - Received(w)

GapPPM(w) ==
    LET gap == (Missing(w) * PPM) \div Expected(w) IN
    IF gap > PPM THEN PPM ELSE gap

SequenceReport(w) ==
    IF HasReport(w)
    THEN [w EXCEPT !.seen = {s \in @ : s > Cutoff(w)}, !.finalized = Cutoff(w)]
    ELSE w

=============================================================================
