--------------------------- MODULE AdaptiveProofs ---------------------------
(***************************************************************************)
(* The safety properties of Adaptive for every choice of loss levels,      *)
(* samples and trigger counts.                                             *)
(***************************************************************************)
EXTENDS Adaptive, TLAPS

\* target() maps every loss to one of the MaxParity + 1 redundancy levels.
LEMMA TargetRange == ASSUME NEW loss \in Nat PROVE Target(loss) \in 0..MaxParity
BY LossAssumption DEF Target, MaxParity

\* The smoothed loss is an average, so it stays between 0 and MaxLoss.
LEMMA SmoothRange ==
    ASSUME smoothed \in 0..MaxLoss, NEW loss \in 0..MaxLoss
    PROVE  Smooth(loss) \in 0..MaxLoss
BY LossAssumption DEF Smooth

\* What the branches of report() do to a saturating counter.
LEMMA SaturatingIncRange ==
    ASSUME NEW n \in 0..CounterMax
    PROVE  SaturatingInc(n) \in 0..CounterMax /\ SaturatingInc(n) <= n + 1
BY CounterAssumption DEF SaturatingInc

-----------------------------------------------------------------------------

\* Type correctness of the controller: no counter passes its trigger.
THEOREM TypeCorrect == Spec => []TypeOK
<1>. USE LossAssumption, CounterAssumption
<1>1. Init => TypeOK
  <2>1. Init => bypassed \in BOOLEAN
    BY DEF Init
  <2>. QED BY <2>1 DEF Init, TypeOK, MaxParity
<1>2. TypeOK /\ [Next]_vars => TypeOK'
  <2>. SUFFICES ASSUME TypeOK, [Next]_vars PROVE TypeOK'
    OBVIOUS
  <2>1. CASE UNCHANGED vars
    BY <2>1 DEF vars, TypeOK
  <2>2. CASE NoSample
    <3>1. unavailable' \in 0..(IdleAfter - 1)
      <4>1. unavailable \in 0..CounterMax
        BY DEF TypeOK
      <4>2. SaturatingInc(unavailable) \in 0..CounterMax
        BY <4>1, SaturatingIncRange
      <4>. QED BY <2>2, <4>2 DEF NoSample, TypeOK
    <3>2. parity' \in 0..MaxParity
      BY <2>2 DEF NoSample, TypeOK, Decrement, MaxParity
    <3>3. smoothed' \in 0..MaxLoss
      BY <2>2 DEF NoSample, TypeOK
    <3>. QED BY <2>2, <3>1, <3>2, <3>3 DEF NoSample, TypeOK
  <2>3. ASSUME NEW loss \in Samples, Sample(loss) PROVE TypeOK'
    <3>1. smoothed' \in 0..MaxLoss /\ unavailable' \in 0..(IdleAfter - 1)
      BY <2>3, SmoothRange DEF Sample, TypeOK
    <3>2. CASE HeavyLoss
      <4>1. bypassed' \in BOOLEAN
        BY <3>2 DEF HeavyLoss, TypeOK
      <4>2. streak' \in 0..CounterMax
        BY <3>2, SaturatingIncRange DEF HeavyLoss, TypeOK
      <4>3. parity' \in 0..MaxParity /\ bad' \in 0..(RaiseAfter - 1)
        BY <3>2 DEF HeavyLoss, TypeOK, MaxParity
      <4>4. good' \in 0..(LowerAfter - 1)
        BY <3>2 DEF HeavyLoss
      <4>. QED BY <3>1, <4>1, <4>2, <4>3, <4>4 DEF TypeOK
    <3>3. CASE ModerateLoss(Target(Smooth(loss)))
      <4>. DEFINE target == Target(Smooth(loss))
      <4>1. target \in 0..MaxParity
        BY SmoothRange, TargetRange DEF TypeOK
      <4>2. streak' \in 0..CounterMax
        BY <3>3 DEF ModerateLoss
      <4>. HIDE DEF target
      <4>3. CASE Resume(target)
        <5>1. bypassed' \in BOOLEAN
          BY <4>3 DEF Resume
        <5>. QED BY <3>1, <4>1, <4>2, <4>3, <5>1 DEF Resume, TypeOK
      <4>4. CASE Raise
        BY <3>1, <4>2, <4>4 DEF Raise, TypeOK, MaxParity
      <4>5. CASE target < parity /\ Lower
        BY <3>1, <4>1, <4>2, <4>5 DEF Lower, Decrement, TypeOK, MaxParity
      <4>6. CASE Hold
        BY <3>1, <4>2, <4>6 DEF Hold, Decrement, TypeOK
      <4>. QED BY <3>3, <4>3, <4>4, <4>5, <4>6 DEF ModerateLoss, target
    <3>. QED BY <2>3, <3>2, <3>3 DEF Sample
  <2>. QED BY <2>1, <2>2, <2>3 DEF Next, Report
<1>. QED BY <1>1, <1>2, PTL DEF Spec

\* FEC is bypassed exactly during a run of BypassAfter or more heavy samples,
\* and a bypassed controller adds no parity.
THEOREM BypassQuiet == Spec => []BypassIsQuiet
<1>. USE LossAssumption, CounterAssumption
<1>1. Init => BypassIsQuiet
  BY DEF Init, BypassIsQuiet
<1>2. TypeOK /\ BypassIsQuiet /\ [Next]_vars => BypassIsQuiet'
  <2>. SUFFICES ASSUME TypeOK, BypassIsQuiet, [Next]_vars PROVE BypassIsQuiet'
    OBVIOUS
  <2>1. CASE UNCHANGED vars
    BY <2>1 DEF vars, BypassIsQuiet
  <2>2. CASE NoSample
    BY <2>2 DEF NoSample, Decrement, BypassIsQuiet, TypeOK
  <2>3. CASE HeavyLoss
    <3>1. CASE streak' >= BypassAfter
      BY <2>3, <3>1 DEF HeavyLoss, BypassIsQuiet
    <3>2. CASE ~(streak' >= BypassAfter)
      <4>1. ~(streak >= BypassAfter)
        BY <2>3, <3>2 DEF HeavyLoss, SaturatingInc, TypeOK
      <4>. QED BY <2>3, <3>2, <4>1 DEF HeavyLoss, BypassIsQuiet
    <3>. QED BY <3>1, <3>2
  <2>4. ASSUME NEW target, ModerateLoss(target) PROVE BypassIsQuiet'
    <3>1. ~(streak' >= BypassAfter)
      BY <2>4 DEF ModerateLoss
    <3>2. bypassed' = FALSE
      BY <2>4 DEF ModerateLoss, Resume, Raise, Lower, Hold, TypeOK
    <3>. QED BY <3>1, <3>2 DEF BypassIsQuiet
  <2>. QED BY <2>1, <2>2, <2>3, <2>4 DEF Next, Report, Sample
<1>. QED BY <1>1, <1>2, TypeCorrect, PTL DEF Spec

\* A report never raises the parity past what the smoothed loss asks for,
\* and by more than one shard only when it ends a bypass.
THEOREM NoOvershoot == Spec => NeverOvershoots
<1>. DEFINE Step == parity' > parity =>
                       /\ parity' <= Target(smoothed')
                       /\ bypassed \/ parity' = parity + 1
<1>1. TypeOK /\ [Next]_vars => [Step]_vars
  <2>. SUFFICES ASSUME TypeOK, Next, parity' > parity
                PROVE  /\ parity' <= Target(smoothed')
                       /\ bypassed \/ parity' = parity + 1
    OBVIOUS
  <2>1. CASE NoSample
    BY <2>1 DEF NoSample, Decrement, TypeOK
  <2>2. ASSUME NEW loss \in Samples, Sample(loss)
        PROVE  /\ parity' <= Target(smoothed')
               /\ bypassed \/ parity' = parity + 1
    <3>. DEFINE target == Target(Smooth(loss))
    <3>1. target \in 0..MaxParity /\ Target(smoothed') = target
      <4>1. Smooth(loss) \in 0..MaxLoss
        BY LossAssumption, SmoothRange DEF TypeOK
      <4>2. Smooth(loss) \in Nat
        BY <4>1, LossAssumption
      <4>3. target \in 0..MaxParity
        BY <4>2, TargetRange
      <4>4. smoothed' = Smooth(loss)
        BY <2>2 DEF Sample
      <4>. QED BY <4>3, <4>4
    <3>2. CASE HeavyLoss
      BY <3>2 DEF HeavyLoss, TypeOK
    <3>3. CASE ModerateLoss(target)
      <4>. HIDE DEF target
      <4>1. CASE bypassed /\ Resume(target)
        BY <4>1, <3>1 DEF Resume, TypeOK, MaxParity
      <4>2. CASE target > parity /\ Raise
        BY <4>2, <3>1 DEF Raise, TypeOK, MaxParity
      <4>3. CASE Lower \/ Hold
        BY <4>3 DEF Lower, Hold, TypeOK
      <4>. QED BY <3>3, <4>1, <4>2, <4>3 DEF ModerateLoss
    <3>. QED BY <2>2, <3>2, <3>3 DEF Sample
  <2>. QED BY <2>1, <2>2 DEF Next, Report
<1>. QED BY <1>1, TypeCorrect, PTL DEF Spec, NeverOvershoots

=============================================================================
