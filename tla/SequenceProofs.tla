--------------------------- MODULE SequenceProofs ---------------------------
(***************************************************************************)
(* The accounting of SequenceAccounting for every window size, minimum     *)
(* sample and set of sequence numbers, and what a new registration of a    *)
(* session does to the client's window and groups (SessionRestart), for    *)
(* all delays, sizes of groups and any number of registrations.            *)
(***************************************************************************)
EXTENDS SequenceAccounting, SessionRestart, FiniteSetTheorems, TLAPS

\* What observe_seq does to the fields of a window: the baseline, and then
\* the three outcomes fresh, late and duplicate.
LEMMA ObserveFirst ==
    ASSUME NEW seq \in SeqNums
    PROVE  /\ Fresh(NewWindow, seq)
           /\ ObserveSeq(NewWindow, seq) =
                 [highest |-> seq, finalized |-> seq - 1, seen |-> {seq}]
<1>1. Baseline(NewWindow, seq) = seq - 1
  BY DEF Baseline
<1>2. seq \in Nat /\ seq > 0
  BY WindowAssumption
<1>3. NewWindow.highest = 0 /\ NewWindow.seen = {}
  BY DEF NewWindow
<1>. QED BY <1>1, <1>2, <1>3 DEF ObserveSeq, Fresh

\* What observe_seq does to a window that has seen a frame.
LEMMA ObserveNext ==
    ASSUME NEW w \in Window, w # NewWindow, NEW seq \in SeqNums
    PROVE  /\ Fresh(w, seq) <=> seq > w.finalized /\ seq \notin w.seen
           /\ seq <= w.finalized => ObserveSeq(w, seq) = w
           /\ seq > w.finalized =>
                 ObserveSeq(w, seq) =
                    [highest |-> IF seq > w.highest THEN seq ELSE w.highest,
                     finalized |-> w.finalized, seen |-> w.seen \cup {seq}]
<1>1. Baseline(w, seq) = w.finalized
  BY DEF Baseline
<1>2. seq \in Nat /\ w.finalized \in Nat
  BY WindowAssumption DEF Window
<1>. QED BY <1>1, <1>2 DEF ObserveSeq, Fresh

\* What sequence_report does to the fields of a window.
LEMMA ReportFields ==
    ASSUME NEW w \in Window
    PROVE  /\ SequenceReport(w) \in Window
           /\ SequenceReport(w).highest = w.highest
           /\ Cutoff(w) \in Nat
           /\ HasReport(w) =>
                 /\ SequenceReport(w).finalized = Cutoff(w)
                 /\ SequenceReport(w).seen = {s \in w.seen : s > Cutoff(w)}
                 /\ Cutoff(w) > w.finalized
                 /\ Cutoff(w) = w.highest - ReorderWindow
           /\ ~HasReport(w) => SequenceReport(w) = w
<1>1. Cutoff(w) \in Nat
  BY WindowAssumption DEF Window, Cutoff
<1>2. CASE HasReport(w)
  <2>1. SequenceReport(w) = [highest |-> w.highest, finalized |-> Cutoff(w),
                             seen |-> {s \in w.seen : s > Cutoff(w)}]
    BY <1>2 DEF SequenceReport, Window
  <2>2. Cutoff(w) > w.finalized /\ w.finalized \in Nat /\ w.highest \in Nat
    BY <1>2 DEF HasReport, Window
  <2>3. Cutoff(w) = w.highest - ReorderWindow
    BY <2>2, WindowAssumption DEF Cutoff
  <2>. QED BY <1>1, <1>2, <2>1, <2>2, <2>3 DEF Window
<1>3. CASE ~HasReport(w)
  BY <1>1, <1>3 DEF SequenceReport
<1>. QED BY <1>2, <1>3

\* The sequences a report counts as received lie in the interval it covers,
\* so there are at most `expected' of them.
LEMMA ReceivedBound ==
    ASSUME NEW w \in Window, Cutoff(w) \in Nat, Cutoff(w) > w.finalized
    PROVE  /\ IsFiniteSet({s \in w.seen : s > w.finalized /\ s <= Cutoff(w)})
           /\ Received(w) \in Nat
           /\ Received(w) <= Expected(w)
<1>. DEFINE cut == Cutoff(w)
            got == {s \in w.seen : s > w.finalized /\ s <= cut}
            span == (w.finalized + 1)..cut
<1>1. w.finalized + 1 \in Int /\ cut \in Int /\ w.finalized \in Nat
  BY DEF Window
<1>2. \A s \in w.seen : s \in Nat
  BY WindowAssumption DEF Window
<1>. HIDE DEF cut
<1>3. got \subseteq span
  BY <1>1, <1>2
<1>4. IsFiniteSet(span) /\ Cardinality(span) = cut - w.finalized
  <2>1. cut > w.finalized
    BY DEF cut
  <2>2. /\ IsFiniteSet(span)
        /\ Cardinality(span) = IF w.finalized + 1 > cut THEN 0
                               ELSE cut - (w.finalized + 1) + 1
    BY <1>1, FS_Interval
  <2>. QED BY <1>1, <2>1, <2>2
<1>5. IsFiniteSet(got) /\ Cardinality(got) <= Cardinality(span)
  <2>. HIDE DEF got, span
  <2>. QED BY <1>3, <1>4, FS_Subset
<1>6. Cardinality(got) \in Nat
  BY <1>5, FS_CardinalityType
<1>. QED BY <1>4, <1>5, <1>6 DEF Received, Expected, cut

-----------------------------------------------------------------------------

\* The window tracks sequences between the finalized one and the highest, and
\* knows the highest one it tracks.
WindowShape ==
    /\ win.seen \subseteq (win.finalized + 1)..win.highest
    /\ win # NewWindow => win.finalized <= win.highest /\ base <= win.finalized

\* Sequences above the finalized one are processed iff they are tracked, so
\* forgetting the finalized ones loses nothing; nothing before the baseline
\* was processed; and finalizing stays ReorderWindow behind the highest.
Remembered ==
    /\ \A s \in SeqNums :
          /\ processed[s] \in {0, 1}
          /\ s > win.finalized => (processed[s] = 1 <=> s \in win.seen)
          /\ s <= base => processed[s] = 0
    /\ win = NewWindow => base = 0
    /\ base <= win.finalized
    /\ win.finalized = base \/ win.finalized + ReorderWindow <= win.highest

IInv == TypeOK /\ WindowShape /\ Remembered

\* A new decoder satisfies the invariant.
LEMMA InitIInv == Init => IInv
BY WindowAssumption DEF Init, IInv, TypeOK, WindowShape, Remembered, NewWindow, Window

\* The first frame sets the baseline just below itself.
LEMMA FirstArrival ==
    ASSUME IInv, win = NewWindow, NEW seq \in SeqNums, Arrive(seq)
    PROVE  IInv'
<1>1. /\ win' = [highest |-> seq, finalized |-> seq - 1, seen |-> {seq}]
      /\ processed' = [processed EXCEPT ![seq] = @ + 1]
      /\ base' = seq - 1 /\ expected' = expected /\ missing' = missing
  BY ObserveFirst DEF Arrive
<1>2. seq \in Nat \ {0}
  BY WindowAssumption
<1>3. win.finalized = 0 /\ win.seen = {} /\ win.highest = 0
  BY DEF NewWindow
<1>4. \A s \in SeqNums : s \in Nat \ {0} /\ processed[s] = 0
  BY <1>3, WindowAssumption DEF IInv, Remembered
<1>5. TypeOK'
  BY <1>1, <1>2 DEF IInv, TypeOK, Window
<1>6. WindowShape'
  BY <1>1, <1>2 DEF WindowShape
<1>7. Remembered'
  <2>1. win' # NewWindow
    BY <1>1, <1>2 DEF NewWindow
  <2>2. ASSUME NEW s \in SeqNums
        PROVE  /\ processed'[s] = IF s = seq THEN 1 ELSE 0
               /\ s \in Nat
    BY <1>1, <1>4 DEF IInv, TypeOK
  <2>. QED BY <1>1, <1>2, <2>1, <2>2 DEF Remembered
<1>. QED BY <1>5, <1>6, <1>7 DEF IInv

\* A later frame is refused, known, or tracked from now on.
LEMMA LaterArrival ==
    ASSUME IInv, win # NewWindow, NEW seq \in SeqNums, Arrive(seq)
    PROVE  IInv'
<1>. DEFINE top == IF seq > win.highest THEN seq ELSE win.highest
<1>1. /\ win \in Window /\ win.finalized \in Nat /\ win.highest \in Nat
      /\ base \in Nat /\ processed \in [SeqNums -> Nat]
      /\ SeqNums \subseteq Nat \ {0}
  BY WindowAssumption DEF IInv, TypeOK, Window
<1>2. base' = base /\ expected' = expected /\ missing' = missing
  BY DEF Arrive
<1>3. CASE seq <= win.finalized
  <2>1. win' = win /\ processed' = processed
    BY <1>1, <1>3, ObserveNext DEF Arrive
  <2>. QED BY <2>1, <1>2 DEF IInv, TypeOK, WindowShape, Remembered
<1>4. CASE seq > win.finalized
  <2>1. win' = [highest |-> top, finalized |-> win.finalized,
                seen |-> win.seen \cup {seq}]
    BY <1>1, <1>4, ObserveNext DEF Arrive
  <2>2. processed' = IF seq \in win.seen THEN processed
                     ELSE [processed EXCEPT ![seq] = @ + 1]
    BY <1>1, <1>4, ObserveNext DEF Arrive
  <2>3. top \in Nat /\ top >= win.highest /\ top >= seq
    BY <1>1
  <2>. HIDE DEF top
  <2>4. TypeOK'
    BY <1>1, <1>2, <2>1, <2>2, <2>3 DEF IInv, TypeOK, Window
  <2>5. WindowShape'
    BY <1>1, <1>2, <1>4, <2>1, <2>3 DEF IInv, WindowShape
  <2>6. ASSUME NEW s \in SeqNums
        PROVE  processed'[s] = IF s = seq THEN 1 ELSE processed[s]
    BY <1>1, <1>4, <2>2 DEF IInv, Remembered
  <2>7. win' # NewWindow
    BY <2>1 DEF NewWindow
  <2>8. Remembered'
    <3>1. ASSUME NEW s \in SeqNums
          PROVE  /\ processed'[s] \in {0, 1}
                 /\ s > win'.finalized => (processed'[s] = 1 <=> s \in win'.seen)
                 /\ s <= base' => processed'[s] = 0
      BY <1>1, <1>2, <1>4, <2>1, <2>6 DEF IInv, Remembered
    <3>2. /\ base' <= win'.finalized
          /\ win'.finalized = base' \/ win'.finalized + ReorderWindow <= win'.highest
      BY <1>1, <1>2, <2>1, <2>3, WindowAssumption DEF IInv, Remembered
    <3>. QED BY <2>7, <3>1, <3>2 DEF Remembered
  <2>. QED BY <2>4, <2>5, <2>8 DEF IInv
<1>. QED BY <1>1, <1>3, <1>4

\* sequence_report forgets only sequences it finalizes.
LEMMA TickIInv == ASSUME IInv, ReportTick PROVE IInv'
<1>1. /\ win \in Window /\ win.finalized \in Nat /\ win.highest \in Nat
      /\ base \in Nat /\ SeqNums \subseteq Nat \ {0}
  BY WindowAssumption DEF IInv, TypeOK, Window
<1>2. base' = base /\ processed' = processed /\ win' = SequenceReport(win)
  BY DEF ReportTick
<1>3. CASE HasReport(win)
  <2>. DEFINE cut == Cutoff(win)
  <2>1. /\ win' \in Window /\ win'.highest = win.highest /\ win'.finalized = cut
        /\ win'.seen = {s \in win.seen : s > cut}
        /\ cut \in Nat /\ cut > win.finalized /\ cut = win.highest - ReorderWindow
    BY <1>1, <1>2, <1>3, ReportFields
  <2>2. Missing(win) \in Nat /\ Expected(win) \in Nat
    <3>1. Received(win) \in Nat
      BY <1>1, <2>1, ReceivedBound
    <3>. QED BY <1>1, <2>1, <3>1 DEF Missing, Expected
  <2>. HIDE DEF cut
  <2>3. expected' \in Nat /\ missing' \in Nat
    BY <2>2, <1>3 DEF ReportTick, IInv, TypeOK
  <2>4. TypeOK'
    BY <1>2, <2>1, <2>3 DEF IInv, TypeOK
  <2>5. win' # NewWindow
    BY <1>1, <2>1 DEF NewWindow
  <2>6. WindowShape'
    BY <1>1, <1>2, <2>1, WindowAssumption DEF IInv, WindowShape, Remembered, Window
  <2>7. ASSUME NEW s \in SeqNums
        PROVE  s > win'.finalized => (processed'[s] = 1 <=> s \in win'.seen)
    BY <1>1, <1>2, <2>1 DEF IInv, Remembered
  <2>8. Remembered'
    BY <1>1, <1>2, <2>1, <2>5, <2>7, WindowAssumption DEF IInv, Remembered
  <2>. QED BY <2>4, <2>6, <2>8 DEF IInv
<1>4. CASE ~HasReport(win)
  <2>1. win' = win /\ expected' = expected /\ missing' = missing
    BY <1>1, <1>2, <1>4, ReportFields DEF ReportTick
  <2>. QED BY <1>2, <2>1 DEF IInv, TypeOK, WindowShape, Remembered
<1>. QED BY <1>3, <1>4

\* The inductive invariant behind the properties of the window.
THEOREM Inductive == Spec => []IInv
<1>1. IInv /\ [Next]_vars => IInv'
  <2>. SUFFICES ASSUME IInv, [Next]_vars PROVE IInv'
    OBVIOUS
  <2>1. CASE ReportTick
    BY <2>1, TickIInv
  <2>2. ASSUME NEW seq \in SeqNums, Arrive(seq) PROVE IInv'
    BY <2>2, FirstArrival, LaterArrival
  <2>3. CASE UNCHANGED vars
    BY <2>3 DEF vars, IInv, TypeOK, WindowShape, Remembered
  <2>. QED BY <2>1, <2>2, <2>3 DEF Next
<1>. QED BY InitIInv, <1>1, PTL DEF Spec

\* No frame is processed twice, whatever the network repeats or delays.
THEOREM AtMostOnce == Spec => []ProcessedAtMostOnce
<1>1. IInv => ProcessedAtMostOnce
  BY DEF IInv, Remembered, ProcessedAtMostOnce
<1>. QED BY <1>1, Inductive, PTL

\* A frame less than ReorderWindow behind the newest is not refused as late.
THEOREM Tolerance == Spec => []ReorderTolerated
<1>1. IInv => ReorderTolerated
  BY WindowAssumption DEF IInv, TypeOK, Window, Remembered, ReorderTolerated
<1>. QED BY <1>1, Inductive, PTL

-----------------------------------------------------------------------------

\* The processed sequences up to f, whose number the reports must account for.
Counted(f) == {s \in SeqNums : s <= f /\ processed[s] > 0}

\* The sequences that ReportsAddUp counts are finitely many.
LEMMA CountedFinite ==
    ASSUME IInv, NEW f \in Nat
    PROVE  IsFiniteSet(Counted(f)) /\ Cardinality(Counted(f)) \in Nat
<1>1. Counted(f) \in SUBSET (1..f)
  <2>1. \A s \in SeqNums : s \in Nat /\ s > 0
    BY WindowAssumption
  <2>. QED BY <2>1 DEF Counted
<1>2. IsFiniteSet(1..f)
  BY FS_Interval
<1>. QED BY <1>1, <1>2, FS_Subset, FS_CardinalityType

\* An arrival changes neither the finalized sequence (beyond setting it) nor
\* which sequences up to it were processed; a report adds the ones it counts.
LEMMA AddUpStep == ASSUME IInv, ReportsAddUp, [Next]_vars PROVE ReportsAddUp'
<1>1. /\ win \in Window /\ win.finalized \in Nat /\ win.highest \in Nat
      /\ base \in Nat /\ SeqNums \subseteq Nat \ {0}
      /\ processed \in [SeqNums -> Nat] /\ expected \in Nat
  BY WindowAssumption DEF IInv, TypeOK, Window
<1>. DEFINE C == Counted(win.finalized)
<1>2. ReportsAddUp <=> /\ expected = win.finalized - base
                       /\ missing = expected - Cardinality(C)
  BY DEF ReportsAddUp, Counted
<1>3. ReportsAddUp' <=>
         /\ expected' = win'.finalized - base'
         /\ missing' = expected' - Cardinality({s \in SeqNums :
                                      s <= win'.finalized /\ processed'[s] > 0})
  BY DEF ReportsAddUp
<1>4. ASSUME NEW seq \in SeqNums, Arrive(seq) PROVE ReportsAddUp'
  <2>1. expected' = expected /\ missing' = missing
    BY <1>4 DEF Arrive
  <2>2. CASE win = NewWindow
    <3>1. /\ win'.finalized = seq - 1 /\ base' = seq - 1
          /\ processed' = [processed EXCEPT ![seq] = @ + 1]
      BY <1>4, <2>2, ObserveFirst DEF Arrive
    <3>2. win.finalized = 0 /\ win.seen = {} /\ base = 0
      BY <2>2 DEF NewWindow, IInv, Remembered
    <3>3. \A s \in SeqNums : processed[s] = 0
      BY <1>1, <3>2 DEF IInv, Remembered
    <3>4. C = {}
      <4>. SUFFICES ASSUME NEW s \in SeqNums PROVE ~(processed[s] > 0)
        BY DEF Counted
      <4>. QED BY <3>3
    <3>5. {s \in SeqNums : s <= win'.finalized /\ processed'[s] > 0} = {}
      <4>. SUFFICES ASSUME NEW s \in SeqNums, s <= win'.finalized
                    PROVE  ~(processed'[s] > 0)
        OBVIOUS
      <4>1. s # seq
        BY <1>1, <3>1
      <4>. QED BY <1>1, <3>1, <3>3, <4>1
    <3>. QED BY <1>1, <1>2, <1>3, <2>1, <3>1, <3>2, <3>4, <3>5, FS_EmptySet
  <2>3. CASE win # NewWindow
    <3>1. win'.finalized = win.finalized /\ base' = base
      BY <1>1, <1>4, <2>3, ObserveNext DEF Arrive
    <3>2. \A s \in SeqNums : s <= win.finalized => processed'[s] = processed[s]
      BY <1>1, <1>4, <2>3, ObserveNext DEF Arrive
    <3>3. {s \in SeqNums : s <= win'.finalized /\ processed'[s] > 0} = C
      BY <3>1, <3>2 DEF Counted
    <3>. QED BY <1>2, <1>3, <2>1, <3>1, <3>3
  <2>. QED BY <2>2, <2>3
<1>5. CASE ReportTick
  <2>1. base' = base /\ processed' = processed /\ win' = SequenceReport(win)
    BY <1>5 DEF ReportTick
  <2>2. CASE HasReport(win)
    <3>. DEFINE cut == Cutoff(win)
                got == {s \in win.seen : s > win.finalized /\ s <= cut}
                D == {s \in SeqNums : s <= win'.finalized /\ processed'[s] > 0}
    <3>1. /\ win'.finalized = cut /\ cut \in Nat /\ cut > win.finalized
      BY <1>1, <2>1, <2>2, ReportFields
    <3>2. IsFiniteSet(got) /\ Received(win) \in Nat /\ Received(win) <= Expected(win)
      BY <1>1, <3>1, ReceivedBound
    <3>3. Cardinality(got) = Received(win)
      BY DEF Received
    <3>4. D = C \cup got
      <4>0. \A s \in SeqNums :
                /\ processed[s] \in {0, 1}
                /\ s > win.finalized => (processed[s] = 1 <=> s \in win.seen)
        BY DEF IInv, Remembered
      <4>1. \A s \in SeqNums : s > win.finalized => (processed[s] > 0 <=> s \in win.seen)
        BY <4>0
      <4>2. win.seen \subseteq SeqNums
        BY <1>1 DEF Window
      <4>. HIDE DEF cut
      <4>3. ASSUME NEW s \in SeqNums
            PROVE  /\ s \in D <=> s <= cut /\ processed[s] > 0
                   /\ s \in C <=> s <= win.finalized /\ processed[s] > 0
                   /\ s \in got <=> s \in win.seen /\ s > win.finalized /\ s <= cut
        BY <2>1, <3>1 DEF Counted
      <4>4. ASSUME NEW s \in SeqNums PROVE s \in D <=> s \in C \/ s \in got
        <5>1. s \in Nat
          BY <1>1
        <5>. QED BY <1>1, <3>1, <4>1, <4>3, <5>1
      <4>5. D \subseteq SeqNums /\ C \subseteq SeqNums /\ got \subseteq SeqNums
        BY <4>2 DEF Counted
      <4>. HIDE DEF C, D, got
      <4>. QED BY <4>4, <4>5
    <3>5. C \cap got = {}
      <4>. SUFFICES ASSUME NEW s \in C, s \in got PROVE FALSE
        OBVIOUS
      <4>1. s \in Nat /\ s <= win.finalized /\ s > win.finalized
        BY <1>1 DEF Counted
      <4>. QED BY <1>1, <4>1
    <3>6. Cardinality(D) = Cardinality(C) + Received(win)
      <4>1. IsFiniteSet(C) /\ Cardinality(C) \in Nat
        BY <1>1, CountedFinite
      <4>. HIDE DEF C, got, D
      <4>2. Cardinality(C \cup got) =
               Cardinality(C) + Cardinality(got) - Cardinality(C \cap got)
        BY <3>2, <4>1, FS_Union
      <4>3. Cardinality(C \cap got) = 0
        BY <3>5, FS_EmptySet
      <4>. QED BY <3>2, <3>3, <3>4, <4>1, <4>2, <4>3
    <3>7. /\ expected' = expected + Expected(win)
          /\ missing' = missing + (Expected(win) - Received(win))
      BY <1>5, <2>2, <3>2, <1>1, <3>1 DEF ReportTick, Missing, Expected
    <3>8. Expected(win) = cut - win.finalized
      BY DEF Expected
    <3>9. Cardinality(C) \in Nat /\ missing \in Nat
      BY <1>1, CountedFinite DEF IInv, TypeOK
    <3>. HIDE DEF C, D, cut
    <3>10. expected' = win'.finalized - base' /\ missing' = expected' - Cardinality(D)
      BY <1>1, <1>2, <2>1, <3>1, <3>2, <3>6, <3>7, <3>8, <3>9
    <3>. QED BY <1>3, <3>10 DEF D
  <2>3. CASE ~HasReport(win)
    BY <1>1, <1>5, <2>1, <2>3, ReportFields DEF ReportTick, ReportsAddUp
  <2>. QED BY <2>2, <2>3
<1>6. CASE UNCHANGED vars
  BY <1>6 DEF vars, ReportsAddUp
<1>. QED BY <1>4, <1>5, <1>6 DEF Next

\* Over a decoder's life its reports count every sequence once, and as missing
\* exactly those that were never processed.
THEOREM Accounting == Spec => []ReportsAddUp
<1>1. Init => ReportsAddUp
  <2>1. Init => {s \in SeqNums : s <= win.finalized /\ processed[s] > 0} = {}
    BY DEF Init
  <2>. QED BY <2>1, FS_EmptySet DEF Init, ReportsAddUp, NewWindow
<1>2. IInv /\ ReportsAddUp /\ [Next]_vars => ReportsAddUp'
  BY AddUpStep
<1>. QED BY <1>1, <1>2, Inductive, PTL DEF Spec

-----------------------------------------------------------------------------
\* A new registration of a session

\* Frames of the server, with the registration and the time they come from.
Frames ==
    [from : Nat \ {0}, at : Nat, seq : SeqNums,
     group : Nat, index : Nat, data : Nat, parity : Nat]

\* Types, and what each registration has sent.
Sendings ==
    /\ clock \in Nat /\ registration \in Nat /\ before \in Nat
    /\ next \in Nat \ {0} /\ nextGroup \in Nat
    /\ air \subseteq Frames /\ window \in Window
    /\ \A f \in air :
        \/ f.from < registration /\ f.seq <= before
        \/ f.from = registration /\ f.seq < next
    /\ handled \subseteq 1..(next - 1)

\* Whatever the window refuses was processed in this registration, is out of
\* the reorder window, or has a number from before.
Refusals ==
    /\ \A s \in window.seen : s \in handled \/ s <= before
    /\ window.finalized <= before \/ window.finalized + ReorderWindow <= window.highest

\* What is under way was sent less than the network's delay ago.
Lags == \A f \in air : f.at <= clock /\ clock <= f.at + MaxLag

\* Where a shard of a group that was created at a time can come from.
Timely(e, created) ==
    /\ e.from \in 1..registration /\ e.at \in Nat /\ e.at <= clock
    /\ created <= e.at + MaxLag /\ e.at < created + GroupTtl

\* A group and all its shards.
Consistent(g) ==
    /\ DOMAIN g = {"created", "data", "parity", "shards"}
    /\ g.created \in Nat /\ g.created <= clock
    /\ \A e \in Origins(g) : Timely(e, g.created)

Tables == \A g \in DOMAIN table : Consistent(table[g])

\* The inductive invariant behind the properties of a new registration.
RestartInv == RestartTypeOK /\ Sendings /\ Refusals /\ Lags /\ Tables

\* What the window refuses, as far as observe_seq is concerned.
LEMMA ObserveFields ==
  ASSUME NEW w \in Window, NEW seq \in SeqNums
  PROVE  /\ ObserveSeq(w, seq) \in Window
         /\ ObserveSeq(w, seq).highest >= w.highest
         /\ ObserveSeq(w, seq).seen \subseteq w.seen \cup {seq}
         /\ ~Fresh(w, seq) => ObserveSeq(w, seq).seen = w.seen
         /\ w # NewWindow => ObserveSeq(w, seq).finalized = w.finalized
         /\ w = NewWindow => ObserveSeq(w, seq).finalized = seq - 1
<1>1. seq \in Nat \ {0} /\ w.highest \in Nat /\ w.finalized \in Nat /\ w.seen \in SUBSET SeqNums
  BY WindowAssumption DEF Window
<1>2. CASE w = NewWindow
  <2>1. ObserveSeq(w, seq) = [highest |-> seq, finalized |-> seq - 1, seen |-> {seq}] /\ Fresh(w, seq)
    BY <1>2, ObserveFirst
  <2>2. w.highest = 0
    BY <1>2 DEF NewWindow
  <2> QED BY <1>1, <1>2, <2>1, <2>2 DEF Window
<1>3. CASE w # NewWindow /\ seq <= w.finalized
  BY <1>1, <1>3, ObserveNext
<1>4. CASE w # NewWindow /\ seq > w.finalized
  <2>1. ObserveSeq(w, seq) = [highest |-> IF seq > w.highest THEN seq ELSE w.highest,
                              finalized |-> w.finalized, seen |-> w.seen \cup {seq}]
    BY <1>4, ObserveNext
  <2>2. ~Fresh(w, seq) => seq \in w.seen
    BY <1>4, ObserveNext
  <2> QED BY <1>1, <1>4, <2>1, <2>2 DEF Window
<1> QED BY <1>1, <1>2, <1>3, <1>4

\* The fields of a frame under way.
LEMMA FrameFields ==
  ASSUME Sendings, NEW f \in air
  PROVE  /\ f.from \in Nat \ {0} /\ f.at \in Nat
         /\ f.seq \in SeqNums /\ f.seq \in Nat \ {0}
<1>1. f \in Frames
  BY DEF Sendings
<1>2. f.from \in Nat \ {0} /\ f.seq \in SeqNums /\ f.at \in Nat
  BY <1>1 DEF Frames
<1>3. f.seq \in Nat \ {0}
  BY <1>2, WindowAssumption
<1> QED BY <1>2, <1>3

\* A first registration satisfies the invariant.
LEMMA RestartInitially == RestartInit => RestartInv
<1> SUFFICES ASSUME RestartInit PROVE RestartInv
  OBVIOUS
<1>1. NewWindow \in Window /\ NewWindow.seen = {} /\ NewWindow.finalized = 0
  BY DEF NewWindow, Window
<1>2. RestartTypeOK /\ Sendings
  BY <1>1, RestartAssumption DEF RestartInit, RestartTypeOK, Sendings
<1>3. Refusals /\ Lags /\ Tables
  BY <1>1 DEF RestartInit, Refusals, Lags, Tables
<1> QED BY <1>2, <1>3 DEF RestartInv

\* The groups are still consistent when neither they nor the time change and
\* no registration is forgotten.
LEMMA TablesKept ==
  ASSUME RestartInv, table' = table, clock' \in Nat, clock <= clock',
         registration' \in Nat, registration <= registration'
  PROVE  /\ Tables'
         /\ \A g \in DOMAIN table' : \A e \in Origins(table'[g]) : e.from <= registration' /\ e.at <= clock'
<1>1. clock \in Nat /\ registration \in Nat
  BY DEF RestartInv, Sendings
<1>2. ASSUME NEW g \in DOMAIN table, NEW e \in Origins(table[g])
      PROVE  /\ e.from \in 1..registration' /\ e.at \in Nat /\ e.at <= clock'
             /\ table[g].created <= e.at + MaxLag /\ e.at < table[g].created + GroupTtl
  <2>1. Timely(e, table[g].created)
    BY <1>2 DEF RestartInv, Tables, Consistent
  <2> QED BY <1>1, <2>1 DEF Timely
<1>3. ASSUME NEW g \in DOMAIN table
      PROVE  /\ DOMAIN table[g] = {"created", "data", "parity", "shards"}
             /\ table[g].created \in Nat /\ table[g].created <= clock'
  <2>1. /\ DOMAIN table[g] = {"created", "data", "parity", "shards"}
        /\ table[g].created \in Nat /\ table[g].created <= clock
    BY DEF RestartInv, Tables, Consistent
  <2> QED BY <1>1, <2>1
<1>4. \A g \in DOMAIN table : Origins(table[g])' = Origins(table[g])
  BY DEF Origins
<1>5. Tables'
  BY <1>2, <1>3, <1>4 DEF Tables, Consistent, Timely
<1>6. \A g \in DOMAIN table : \A e \in Origins(table[g]) : e.from <= registration' /\ e.at <= clock'
  BY <1>2
<1> QED BY <1>5, <1>6

\* What a sender adds has the next numbers and the current registration.
LEMMA SentStep ==
  ASSUME RestartInv, NEW sent \in SUBSET Frames, NEW count \in Nat, NEW groups \in Nat,
         \A f \in sent : /\ f.from = registration /\ f.at = clock
                         /\ f.seq >= next /\ f.seq < next + count,
         air' = air \cup sent, next' = next + count, nextGroup' = nextGroup + groups,
         UNCHANGED <<clock, registration, window, table, before, handled>>
  PROVE  RestartInv'
<1>1. /\ registration \in Nat /\ clock \in Nat /\ next \in Nat \ {0} /\ nextGroup \in Nat
      /\ registration \in 1..(MaxRestarts + 1)
  BY DEF RestartInv, Sendings, RestartTypeOK
<1>2. \A f \in air : f.seq \in Nat
  BY FrameFields DEF RestartInv
<1>3. next' \in Nat \ {0} /\ next <= next' /\ nextGroup' \in Nat
  BY <1>1
<1>4. \A f \in air' : \/ f.from < registration /\ f.seq <= before
                      \/ f.from = registration /\ f.seq < next'
  <2>1. \A f \in air : \/ f.from < registration /\ f.seq <= before
                       \/ f.from = registration /\ f.seq < next
    BY DEF RestartInv, Sendings
  <2> QED BY <1>1, <1>2, <1>3, <2>1
<1>5. handled' \subseteq 1..(next' - 1)
  BY <1>1, <1>3 DEF RestartInv, Sendings
<1>6. Tables' /\ \A g \in DOMAIN table' : \A e \in Origins(table'[g]) : e.from <= registration' /\ e.at <= clock'
  BY <1>1, TablesKept
<1>7. Sendings'
  BY <1>1, <1>3, <1>4, <1>5 DEF RestartInv, Sendings
<1>8. RestartTypeOK'
  BY <1>1, <1>3, <1>4, <1>6 DEF RestartInv, RestartTypeOK
<1>9. Refusals'
  BY DEF RestartInv, Refusals
<1>10. Lags'
  BY <1>1, RestartAssumption DEF RestartInv, Lags
<1> QED BY <1>6, <1>7, <1>8, <1>9, <1>10 DEF RestartInv

\* The frames of a group have consecutive numbers.
LEMMA SendGroupStep ==
  ASSUME RestartInv, NEW d \in 1..DataShards, NEW asked \in Parities, SendGroup(d, asked)
  PROVE  RestartInv'
<1> DEFINE p == IF asked < d THEN asked ELSE d
           sent == {Frame(i, d, p) : i \in 0..(d + p - 1)}
<1>1. d \in Nat \ {0} /\ asked \in Nat
  BY RestartAssumption
<1>2. p \in Nat
  BY <1>1
<1>3. /\ \A i \in 0..(d + p - 1) : next + i \in SeqNums
      /\ air' = air \cup sent /\ next' = next + d + p /\ nextGroup' = nextGroup + 1
      /\ UNCHANGED <<clock, registration, window, table, before, handled>>
  BY DEF SendGroup
<1>4. /\ registration \in Nat \ {0} /\ clock \in Nat /\ next \in Nat \ {0} /\ nextGroup \in Nat
  BY RestartAssumption DEF RestartInv, Sendings, RestartTypeOK
<1> HIDE DEF p
<1>5. ASSUME NEW f \in sent
      PROVE  /\ f \in Frames /\ f.from = registration /\ f.at = clock
             /\ f.seq >= next /\ f.seq < next + (d + p)
  <2>1. PICK i \in 0..(d + p - 1) : f = Frame(i, d, p)
    BY DEF sent
  <2>2. i \in Nat /\ next + i \in SeqNums /\ i < d + p
    BY <1>1, <1>2, <1>3
  <2>3. f \in Frames
    BY <1>1, <1>2, <1>4, <2>1, <2>2 DEF Frame, Frames
  <2>4. f.from = registration /\ f.at = clock /\ f.seq = next + i
    BY <2>1 DEF Frame
  <2> QED BY <1>1, <1>2, <1>4, <2>2, <2>3, <2>4
<1> HIDE DEF sent
<1>6. next' = next + (d + p) /\ d + p \in Nat
  BY <1>1, <1>2, <1>3, <1>4
<1>7. sent \in SUBSET Frames
  BY <1>5
<1> QED BY <1>3, <1>5, <1>6, <1>7, SentStep

\* A report takes one number.
LEMMA SendReportStep == ASSUME RestartInv, SendReport PROVE RestartInv'
<1> DEFINE new == [from |-> registration, at |-> clock, seq |-> next,
                   group |-> 0, index |-> 0, data |-> 0, parity |-> 0]
<1>1. /\ next \in SeqNums /\ air' = air \cup {new} /\ next' = next + 1
      /\ UNCHANGED <<clock, registration, nextGroup, window, table, before, handled>>
  BY DEF SendReport
<1>2. /\ registration \in Nat \ {0} /\ clock \in Nat /\ next \in Nat \ {0} /\ nextGroup \in Nat
  BY RestartAssumption DEF RestartInv, Sendings, RestartTypeOK
<1>3. new \in Frames /\ new.from = registration /\ new.at = clock /\ new.seq = next
  BY <1>1, <1>2 DEF Frames
<1> HIDE DEF new
<1>4. \A f \in {new} : /\ f.from = registration /\ f.at = clock
                       /\ f.seq >= next /\ f.seq < next + 1
  BY <1>2, <1>3
<1>5. nextGroup' = nextGroup + 0
  BY <1>1, <1>2
<1>6. {new} \in SUBSET Frames
  BY <1>3
<1> QED BY <1>1, <1>4, <1>5, <1>6, SentStep

\* A shard comes into a group with the frame, or is made from shards that are
\* there.
LEMMA PlacedOrigins ==
  ASSUME NEW g, DOMAIN g = {"created", "data", "parity", "shards"}, NEW f
  PROVE  LET w == Reconstructed([g EXCEPT !.shards = Placed(@, f)]) IN
         /\ DOMAIN w = {"created", "data", "parity", "shards"} /\ w.created = g.created
         /\ Origins(w) \subseteq Origins(g) \cup {Origin(f)}
<1> DEFINE q == [g EXCEPT !.shards = Placed(@, f)]
           more == [i \in 0..(q.data + q.parity - 1) |->
                        IF i \in DOMAIN q.shards THEN q.shards[i] ELSE Origins(q)]
           r == [q EXCEPT !.shards = more]
<1>1. /\ DOMAIN q = {"created", "data", "parity", "shards"} /\ q.created = g.created
      /\ q.shards = Placed(g.shards, f)
  OBVIOUS
<1>2. Origins(q) \subseteq Origins(g) \cup {Origin(f)}
  <2> SUFFICES ASSUME NEW e \in Origins(q) PROVE e \in Origins(g) \cup {Origin(f)}
    OBVIOUS
  <2> HIDE DEF q
  <2>1. PICK i \in DOMAIN q.shards : e \in q.shards[i]
    BY DEF Origins
  <2>2. i \in DOMAIN g.shards => q.shards[i] = g.shards[i]
    BY <1>1, <2>1 DEF Placed
  <2>3. i \notin DOMAIN g.shards => q.shards[i] = {Origin(f)}
    BY <1>1, <2>1 DEF Placed
  <2> QED BY <2>1, <2>2, <2>3 DEF Origins
<1> HIDE DEF q
<1>3. DOMAIN r = {"created", "data", "parity", "shards"} /\ r.created = q.created /\ r.shards = more
  BY <1>1
<1>4. Origins(r) \subseteq Origins(q)
  <2> SUFFICES ASSUME NEW e \in Origins(r) PROVE e \in Origins(q)
    OBVIOUS
  <2> HIDE DEF r
  <2>1. PICK i \in DOMAIN more : e \in more[i]
    BY <1>3 DEF Origins
  <2>2. e \in Origins(q) \/ (i \in DOMAIN q.shards /\ e \in q.shards[i])
    BY <2>1
  <2> QED BY <2>2 DEF Origins
<1>5. Reconstructed(q) = q \/ Reconstructed(q) = r
  BY DEF Reconstructed
<1> HIDE DEF r
<1>6. /\ DOMAIN Reconstructed(q) = {"created", "data", "parity", "shards"}
      /\ Reconstructed(q).created = g.created
      /\ Origins(Reconstructed(q)) \subseteq Origins(g) \cup {Origin(f)}
  BY <1>1, <1>2, <1>3, <1>4, <1>5
<1> QED BY <1>6 DEF q

\* The group a frame meets is alive, and consistent with the frame in it.
LEMMA GroupMet ==
  ASSUME RestartInv, NEW f \in air
  PROVE  /\ Consistent(GroupWith(f)) /\ GroupWith(f).created \in Nat
         /\ clock < GroupWith(f).created + GroupTtl /\ GroupWith(f).created <= clock
<1>1. /\ clock \in Nat /\ registration \in Nat /\ f.from \in Nat \ {0} /\ f.at \in Nat
      /\ f.from <= registration /\ f.at <= clock /\ clock <= f.at + MaxLag
      /\ GroupTtl \in Nat \ {0} /\ MaxLag \in Nat
  <2>1. f.from \in Nat \ {0} /\ f.at \in Nat
    BY FrameFields DEF RestartInv
  <2> QED BY <2>1, RestartAssumption DEF RestartInv, Sendings, Lags
<1> DEFINE new == [created |-> clock, data |-> f.data, parity |-> f.parity, shards |-> [i \in {} |-> {}]]
           e == Entry(f)
<1>2. /\ Consistent(e) /\ e.created \in Nat /\ e.created <= clock /\ clock < e.created + GroupTtl
  <2>1. CASE f.group \in Kept
    <3>1. e = table[f.group] /\ f.group \in DOMAIN table /\ clock - table[f.group].created < GroupTtl
      BY <2>1 DEF Entry, Kept, Young
    <3> HIDE DEF e
    <3>2. Consistent(e)
      BY <3>1 DEF RestartInv, Tables
    <3>3. e.created \in Nat /\ e.created <= clock
      BY <3>2 DEF Consistent
    <3> QED BY <1>1, <3>1, <3>2, <3>3
  <2>2. CASE f.group \notin Kept
    <3>1. e = new
      BY <2>2 DEF Entry
    <3>2. DOMAIN new = {"created", "data", "parity", "shards"} /\ new.created = clock /\ Origins(new) = {}
      BY DEF Origins
    <3> HIDE DEF e, new
    <3> QED BY <1>1, <3>1, <3>2 DEF Consistent
  <2> QED BY <2>1, <2>2
<1> DEFINE w == Reconstructed([e EXCEPT !.shards = Placed(@, f)])
<1>3. GroupWith(f) = w \/ GroupWith(f) = e
  BY DEF GroupWith
<1> HIDE DEF e
<1>4. DOMAIN e = {"created", "data", "parity", "shards"}
  BY <1>2 DEF Consistent
<1>5. /\ DOMAIN w = {"created", "data", "parity", "shards"} /\ w.created = e.created
      /\ Origins(w) \subseteq Origins(e) \cup {Origin(f)}
  BY <1>4, PlacedOrigins
<1>6. Timely(Origin(f), e.created)
  <2>1. Origin(f).from = f.from /\ Origin(f).at = f.at
    BY DEF Origin
  <2> QED BY <1>1, <1>2, <2>1 DEF Timely
<1> HIDE DEF w
<1>7. Consistent(w)
  <2>1. \A o \in Origins(w) : Timely(o, e.created)
    BY <1>2, <1>5, <1>6 DEF Consistent
  <2> QED BY <1>2, <1>5, <2>1 DEF Consistent
<1> QED BY <1>2, <1>3, <1>5, <1>7

\* A frame that arrives is refused for one of the reasons, or joins a group
\* that is alive.
LEMMA ArriveStep == ASSUME RestartInv, NEW f \in air, FrameArrives(f) PROVE RestartInv'
<1> DEFINE fresh == Fresh(window, f.seq)
<1>1. /\ window' = ObserveSeq(window, f.seq)
      /\ handled' = IF fresh /\ f.from = registration THEN handled \cup {f.seq} ELSE handled
      /\ before' = IF window = NewWindow /\ f.seq - 1 > before THEN f.seq - 1 ELSE before
      /\ UNCHANGED <<clock, registration, next, nextGroup, air>>
  BY DEF FrameArrives
<1>2. /\ registration \in 1..(MaxRestarts + 1) /\ registration \in Nat /\ next \in Nat \ {0}
      /\ before \in Nat /\ clock \in Nat /\ window \in Window
  BY DEF RestartInv, Sendings, RestartTypeOK
<1>3. f.from \in Nat \ {0} /\ f.seq \in SeqNums /\ f.seq \in Nat \ {0}
  BY FrameFields DEF RestartInv
<1>4. \/ f.from < registration /\ f.seq <= before
      \/ f.from = registration /\ f.seq < next
  BY DEF RestartInv, Sendings
<1>5. before' \in Nat /\ before <= before'
  BY <1>1, <1>2, <1>3
<1>6. /\ window' \in Window /\ window'.highest >= window.highest
      /\ window'.seen \subseteq window.seen \cup {f.seq}
      /\ ~fresh => window'.seen = window.seen
      /\ window # NewWindow => window'.finalized = window.finalized
      /\ window = NewWindow => window'.finalized = f.seq - 1
  BY <1>1, <1>2, <1>3, ObserveFields
<1>7. ASSUME NEW g \in DOMAIN table' PROVE Consistent(table'[g])
  <2>1. CASE table' = table
    BY <2>1 DEF RestartInv, Tables
  <2>2. CASE table' = [h \in Kept \cup {f.group} |-> IF h = f.group THEN GroupWith(f) ELSE table[h]]
    <3>1. CASE g = f.group
      BY <2>2, <3>1, GroupMet
    <3>2. CASE g # f.group
      <4>1. g \in Kept /\ table'[g] = table[g]
        BY <2>2, <3>2
      <4> QED BY <4>1 DEF Kept, RestartInv, Tables
    <3> QED BY <3>1, <3>2
  <2> QED BY <2>1, <2>2 DEF FrameArrives
<1> HIDE DEF fresh
<1>8. handled' \subseteq 1..(next - 1) /\ handled \subseteq handled'
  <2>1. handled \subseteq 1..(next - 1)
    BY DEF RestartInv, Sendings
  <2>2. f.from = registration => f.seq \in 1..(next - 1)
    BY <1>2, <1>3, <1>4
  <2> QED BY <1>1, <2>1, <2>2
<1>9. Tables'
  <2>1. \A g \in DOMAIN table' : Consistent(table'[g]) <=> Consistent(table[g])'
    BY <1>1 DEF Consistent, Timely, Origins
  <2> QED BY <1>7, <2>1 DEF Tables
<1>10. RestartTypeOK'
  <2>1. ASSUME NEW g \in DOMAIN table', NEW e \in Origins(table'[g])
        PROVE  e.from <= registration /\ e.at <= clock
    <3>1. Timely(e, table'[g].created)
      BY <1>7, <2>1 DEF Consistent
    <3> QED BY <1>2, <3>1 DEF Timely
  <2>2. \A g \in DOMAIN table' : \A e \in Origins(table'[g]) : e.from <= registration' /\ e.at <= clock'
    BY <1>1, <2>1
  <2> QED BY <1>1, <1>6, <2>2 DEF RestartInv, RestartTypeOK
<1>11. Sendings'
  <2>1. \A e \in air : e.seq <= before => e.seq <= before'
    <3>1. \A e \in air : e.seq \in Nat
      BY FrameFields DEF RestartInv
    <3> QED BY <1>2, <1>5, <3>1
  <2> QED BY <1>1, <1>5, <1>6, <1>8, <2>1 DEF RestartInv, Sendings
<1>12. Refusals'
  <2>1. ASSUME NEW s \in window'.seen PROVE s \in handled' \/ s <= before'
    <3>1. CASE s \in window.seen
      <4>1. s \in Nat
        BY <1>2, <3>1, WindowAssumption DEF Window
      <4> QED BY <1>2, <1>5, <1>8, <3>1, <4>1 DEF RestartInv, Refusals
    <3>2. CASE s = f.seq /\ fresh
      <4>1. CASE f.from = registration
        BY <1>1, <3>2, <4>1
      <4>2. CASE f.from < registration /\ f.seq <= before
        BY <1>2, <1>3, <1>5, <3>2, <4>2
      <4> QED BY <1>4, <4>1, <4>2
    <3> QED BY <1>6, <3>1, <3>2
  <2>2. window'.finalized <= before' \/ window'.finalized + ReorderWindow <= window'.highest
    <3>1. CASE window = NewWindow
      BY <1>1, <1>2, <1>3, <1>6, <3>1
    <3>2. CASE window # NewWindow
      <4>1. /\ window.finalized \in Nat /\ window.highest \in Nat /\ window'.highest \in Nat
            /\ window'.finalized = window.finalized
        BY <1>2, <1>6, <3>2 DEF Window
      <4>2. window.finalized <= before \/ window.finalized + ReorderWindow <= window.highest
        BY DEF RestartInv, Refusals
      <4> QED BY <1>2, <1>5, <1>6, <4>1, <4>2, WindowAssumption
    <3> QED BY <3>1, <3>2
  <2> QED BY <2>1, <2>2 DEF Refusals
<1>13. Lags'
  BY <1>1 DEF RestartInv, Lags
<1> QED BY <1>9, <1>10, <1>11, <1>12, <1>13 DEF RestartInv

\* A report finalizes only what is out of the reorder window.
LEMMA ReportStep == ASSUME RestartInv, ClientReport PROVE RestartInv'
<1>1. /\ HasReport(window) /\ window' = SequenceReport(window)
      /\ UNCHANGED <<clock, registration, next, nextGroup, air, table, before, handled>>
  BY DEF ClientReport
<1>2. window \in Window /\ clock \in Nat /\ registration \in Nat
  BY DEF RestartInv, Sendings
<1>3. /\ window' \in Window /\ window'.highest = window.highest /\ Cutoff(window) \in Nat
      /\ window'.finalized = Cutoff(window) /\ Cutoff(window) = window.highest - ReorderWindow
      /\ window'.seen \subseteq window.seen
  BY <1>1, <1>2, ReportFields
<1>4. window.highest \in Nat
  BY <1>2 DEF Window
<1>5. window'.finalized + ReorderWindow <= window'.highest
  BY <1>3, <1>4, WindowAssumption
<1>6. Tables' /\ \A g \in DOMAIN table' : \A e \in Origins(table'[g]) : e.from <= registration' /\ e.at <= clock'
  BY <1>1, <1>2, TablesKept
<1>7. RestartTypeOK' /\ Sendings' /\ Lags'
  BY <1>1, <1>3, <1>6 DEF RestartInv, RestartTypeOK, Sendings, Lags
<1>8. Refusals'
  BY <1>1, <1>3, <1>5 DEF RestartInv, Refusals
<1> QED BY <1>6, <1>7, <1>8 DEF RestartInv

\* A new registration turns every number sent so far into one from before.
LEMMA RegisterStep == ASSUME RestartInv, Register PROVE RestartInv'
<1>1. /\ registration <= MaxRestarts /\ registration' = registration + 1
      /\ before' = IF next - 1 > before THEN next - 1 ELSE before
      /\ next' = 1 /\ nextGroup' = 1 /\ handled' = {} /\ UNCHANGED <<clock, air, window, table>>
  BY DEF Register
<1>2. /\ registration \in 1..(MaxRestarts + 1) /\ registration \in Nat /\ next \in Nat \ {0}
      /\ before \in Nat /\ clock \in Nat /\ window \in Window /\ handled \subseteq 1..(next - 1)
  BY DEF RestartInv, Sendings, RestartTypeOK
<1>3. /\ before' \in Nat /\ before <= before' /\ next - 1 <= before'
      /\ registration' \in Nat /\ registration' \in 1..(MaxRestarts + 1)
  BY <1>1, <1>2, RestartAssumption
<1>4. ASSUME NEW f \in air PROVE f.from < registration' /\ f.seq <= before'
  <2>1. f.from \in Nat /\ f.seq \in Nat
    BY FrameFields DEF RestartInv
  <2>2. \/ f.from < registration /\ f.seq <= before
        \/ f.from = registration /\ f.seq < next
    BY DEF RestartInv, Sendings
  <2> QED BY <1>1, <1>2, <1>3, <2>1, <2>2
<1>5. Tables' /\ \A g \in DOMAIN table' : \A e \in Origins(table'[g]) : e.from <= registration' /\ e.at <= clock'
  BY <1>1, <1>2, <1>3, TablesKept
<1>6. RestartTypeOK'
  BY <1>1, <1>3, <1>4, <1>5 DEF RestartInv, RestartTypeOK
<1>7. Sendings'
  BY <1>1, <1>3, <1>4 DEF RestartInv, Sendings
<1>8. Refusals'
  <2>1. ASSUME NEW s \in window.seen PROVE s <= before'
    <3>1. s \in Nat
      BY <1>2, WindowAssumption DEF Window
    <3>2. s \in handled \/ s <= before
      BY DEF RestartInv, Refusals
    <3> QED BY <1>2, <1>3, <3>1, <3>2
  <2>2. window.finalized <= before' \/ window.finalized + ReorderWindow <= window.highest
    <3>1. window.finalized \in Nat
      BY <1>2 DEF Window
    <3> QED BY <1>2, <1>3, <3>1 DEF RestartInv, Refusals
  <2> QED BY <1>1, <2>1, <2>2 DEF Refusals
<1>9. Lags'
  BY <1>1 DEF RestartInv, Lags
<1> QED BY <1>5, <1>6, <1>7, <1>8, <1>9 DEF RestartInv

\* Time passes, and what is older than the network's delay is gone.
LEMMA TimeStep == ASSUME RestartInv, TimePasses PROVE RestartInv'
<1>1. /\ clock < MaxClock /\ clock' = clock + 1 /\ air' = {f \in air : f.at + MaxLag > clock}
      /\ UNCHANGED <<registration, next, nextGroup, window, table, before, handled>>
  BY DEF TimePasses
<1>2. clock \in Nat /\ registration \in Nat
  BY DEF RestartInv, Sendings
<1>3. clock' \in Nat /\ clock <= clock' /\ clock' \in 0..MaxClock
  BY <1>1, <1>2, RestartAssumption
<1>4. Tables' /\ \A g \in DOMAIN table' : \A e \in Origins(table'[g]) : e.from <= registration' /\ e.at <= clock'
  BY <1>1, <1>2, <1>3, TablesKept
<1>5. RestartTypeOK'
  BY <1>1, <1>3, <1>4 DEF RestartInv, RestartTypeOK
<1>6. Sendings' /\ Refusals'
  BY <1>1, <1>3 DEF RestartInv, Sendings, Refusals
<1>7. Lags'
  <2> SUFFICES ASSUME NEW f \in air, f.at + MaxLag > clock
               PROVE  f.at <= clock + 1 /\ clock + 1 <= f.at + MaxLag
    BY <1>1 DEF Lags
  <2>1. f.at \in Nat /\ f.at <= clock
    BY FrameFields DEF RestartInv, Lags
  <2> QED BY <1>2, <2>1, RestartAssumption
<1> QED BY <1>4, <1>5, <1>6, <1>7 DEF RestartInv

\* Every step keeps the invariant.
LEMMA RestartStep == RestartInv /\ [RestartNext]_restartVars => RestartInv'
<1> SUFFICES ASSUME RestartInv, [RestartNext]_restartVars PROVE RestartInv'
  OBVIOUS
<1>1. CASE UNCHANGED restartVars
  BY <1>1 DEF restartVars, RestartInv, RestartTypeOK, Sendings, Refusals, Lags, Tables,
     Consistent, Timely, Origins
<1> QED
  BY <1>1, SendGroupStep, SendReportStep, ArriveStep, ReportStep, RegisterStep, TimeStep DEF RestartNext

\* The invariant contains what is said of the sequence window.
LEMMA RestartImplies == RestartInv => RestartTypeOK /\ OutageBounded
<1> SUFFICES ASSUME RestartInv PROVE OutageBounded
  BY DEF RestartInv
<1> SUFFICES ASSUME NEW f \in air, f.from = registration, ~Fresh(window, f.seq)
             PROVE  \/ f.seq \in handled
                    \/ f.seq + ReorderWindow <= window.highest
                    \/ f.seq <= before
  BY DEF OutageBounded, RestartInv, RestartTypeOK
<1>1. /\ f.seq \in SeqNums /\ f.seq \in Nat /\ window \in Window /\ before \in Nat
      /\ window.finalized \in Nat /\ window.highest \in Nat
  BY FrameFields DEF RestartInv, Sendings, Window
<1>2. window # NewWindow
  BY <1>1, ObserveFirst
<1>3. f.seq <= window.finalized \/ f.seq \in window.seen
  BY <1>1, <1>2, ObserveNext
<1> QED BY <1>1, <1>3, WindowAssumption DEF RestartInv, Refusals

\* A frame and a shard that meet are both in time for the group.
LEMMA MeetInTime ==
  ASSUME RestartInv, NEW f \in air, FrameArrives(f), Fresh(window, f.seq), f.data > 0,
         NEW e \in Origins(table'[f.group])
  PROVE  f.at - e.at < GroupTtl + MaxLag /\ e.at - f.at < GroupTtl + MaxLag
<1> DEFINE w == GroupWith(f)
<1>1. table'[f.group] = w
  BY DEF FrameArrives
<1>2. Consistent(w) /\ w.created \in Nat /\ clock < w.created + GroupTtl /\ w.created <= clock
  BY GroupMet
<1> HIDE DEF w
<1>3. Timely(e, w.created)
  BY <1>1, <1>2 DEF Consistent
<1>4. f.at \in Nat /\ f.at <= clock /\ clock <= f.at + MaxLag /\ clock \in Nat
  BY FrameFields DEF RestartInv, Lags, Sendings
<1> QED BY <1>2, <1>3, <1>4, RestartAssumption DEF Timely

\* The new encoder stays ahead of what it sent, the client's window is one, and
\* no shard comes from the future.
THEOREM RestartTypeCorrect == RestartSpec => []RestartTypeOK
BY RestartInitially, RestartStep, RestartImplies, PTL DEF RestartSpec

\* After a new registration the client refuses a frame only if it processed it,
\* or it is out of the reorder window, or its number was reached before:
\* whatever the window, the delays and the number of registrations.
THEOREM OutageIsBounded == RestartSpec => []OutageBounded
BY RestartInitially, RestartStep, RestartImplies, PTL DEF RestartSpec

\* A frame meets a shard of another registration only if less than GROUP_TTL
\* and the delay of the network lie between them, whatever the sizes of the
\* groups, the delays and the number of registrations.
THEOREM ClashesAreQuick == RestartSpec => ClashIsQuick
<1>1. RestartInv /\ [RestartNext]_restartVars =>
        [\A f \in air :
            FrameArrives(f) /\ Fresh(window, f.seq) /\ f.data > 0 =>
                \A e \in Origins(table'[f.group]) :
                    /\ e.from < f.from => f.at - e.at < GroupTtl + MaxLag
                    /\ f.from < e.from => e.at - f.at < GroupTtl + MaxLag]_restartVars
  BY MeetInTime
<1> QED BY <1>1, RestartInitially, RestartStep, PTL DEF RestartSpec, ClashIsQuick

=============================================================================
