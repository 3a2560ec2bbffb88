------------------------------ MODULE Adaptive ------------------------------
(***************************************************************************)
(* The redundancy controller of one encoder (struct Adaptive of main.rs).  *)
(* Every two seconds the peer reports the share of frames it did not see,  *)
(* or that it has no sample; the controller answers with the number of     *)
(* parity shards the encoder adds to the next groups.                      *)
(*                                                                         *)
(* Losses are natural numbers in 0..MaxLoss (the code's parts per          *)
(* million).  last_loss_ppm is left out: nothing outside the unit tests    *)
(* reads it.                                                               *)
(***************************************************************************)
EXTENDS Naturals

CONSTANTS
    MaxLoss,        \* every frame of the sample is missing   (1_000_000)
    Level,          \* Level[p]: least loss that asks for p parity shards
    BypassLoss,     \* FEC_BYPASS_LOSS_PPM                       (300_000)
    Samples,        \* the losses a report can carry
    Unavailable,    \* LOSS_SAMPLE_UNAVAILABLE, no sample
    RaiseAfter,     \* worse samples that add one parity shard         (2)
    LowerAfter,     \* better samples that retire one                 (15)
    IdleAfter,      \* reports without a sample that retire one       (15)
    BypassAfter,    \* samples over BypassLoss that switch FEC off     (3)
    CounterMax      \* where a u8 counter saturates                  (255)

MaxParity == 4

ASSUME LossAssumption ==
    /\ MaxLoss \in Nat
    /\ BypassLoss \in Nat
    /\ Level \in [1..MaxParity -> Nat]
    /\ Samples \subseteq 0..MaxLoss
    /\ Unavailable \notin Nat

ASSUME CounterAssumption ==
    /\ RaiseAfter \in Nat \ {0}
    /\ LowerAfter \in Nat \ {0}
    /\ IdleAfter \in Nat \ {0}
    /\ BypassAfter \in Nat \ {0}
    /\ CounterMax \in Nat
    /\ IdleAfter <= CounterMax
    /\ BypassAfter <= CounterMax

VARIABLES
    parity,         \* parity shards per full group
    bad,            \* samples in favour of more parity
    good,           \* samples in favour of less
    smoothed,       \* smoothed_loss_ppm
    unavailable,    \* unavailable_reports
    streak,         \* bypass_streak
    bypassed        \* FEC is off because of sustained heavy loss

vars == <<parity, bad, good, smoothed, unavailable, streak, bypassed>>

-----------------------------------------------------------------------------

Decrement(n) == IF n = 0 THEN 0 ELSE n - 1

SaturatingInc(n) == IF n < CounterMax THEN n + 1 ELSE CounterMax

Smooth(loss) == (3 * smoothed + loss) \div 4

Target(loss) ==
    CASE loss < Level[1] -> 0
      [] loss >= Level[1] /\ loss < Level[2] -> 1
      [] loss >= Level[2] /\ loss < Level[3] -> 2
      [] loss >= Level[3] /\ loss < Level[4] -> 3
      [] OTHER -> 4

Init ==
    /\ parity = 0 /\ bad = 0 /\ good = 0 /\ smoothed = 0
    /\ unavailable = 0 /\ streak = 0 /\ bypassed = FALSE

-----------------------------------------------------------------------------
\* The branches of report(loss), in the order of their early returns.

\* No sample: after IdleAfter of them in a row one stale shard is retired.
MutantNoSample ==
    /\ IF SaturatingInc(unavailable) >= IdleAfter
       THEN /\ unavailable' = 0
            /\ parity' = Decrement(parity)
            /\ smoothed' = IF parity' = 0 THEN 0 ELSE smoothed
       ELSE /\ unavailable' = SaturatingInc(unavailable)
            /\ UNCHANGED <<parity, smoothed>>
    /\ bad' = 0
    /\ UNCHANGED <<good, streak, bypassed>>

NoSample ==
    /\ IF SaturatingInc(unavailable) >= IdleAfter
       THEN /\ unavailable' = 0
            /\ parity' = Decrement(parity)
            /\ smoothed' = IF parity' = 0 THEN 0 ELSE smoothed
       ELSE /\ unavailable' = SaturatingInc(unavailable)
            /\ UNCHANGED <<parity, smoothed>>
    /\ UNCHANGED <<bad, good, streak, bypassed>>

\* A sample at or over BypassLoss.
MutantHeavyLoss ==
    /\ streak' = SaturatingInc(streak)
    /\ good' = 0
    /\ IF streak' >= BypassAfter
       THEN parity' = 0 /\ bypassed' = TRUE /\ UNCHANGED bad
       ELSE UNCHANGED <<parity, bad, bypassed>>

HeavyLoss ==
    /\ streak' = SaturatingInc(streak)
    /\ good' = 0
    /\ IF streak' >= BypassAfter
       THEN parity' = 0 /\ bad' = 0 /\ bypassed' = TRUE
       ELSE UNCHANGED <<parity, bad, bypassed>>

\* The first moderate sample after a bypass goes straight to its target.
MutantResume(target) ==
    /\ parity' = MaxParity
    /\ bad' = 0
    /\ good' = 0
    /\ bypassed' = FALSE

Resume(target) ==
    /\ parity' = target
    /\ bad' = 0
    /\ good' = 0
    /\ bypassed' = FALSE

Raise ==
    /\ good' = 0
    /\ IF bad + 1 >= RaiseAfter
       THEN /\ parity' = IF parity + 1 > MaxParity THEN MaxParity ELSE parity + 1
            /\ bad' = 0
       ELSE bad' = bad + 1 /\ UNCHANGED parity
    /\ UNCHANGED bypassed

MutantLower ==
    /\ bad' = Decrement(bad)
    /\ IF good + 1 > LowerAfter
       THEN parity' = parity - 1 /\ good' = 0
       ELSE good' = good + 1 /\ UNCHANGED parity
    /\ UNCHANGED bypassed

Lower ==
    /\ bad' = Decrement(bad)
    /\ IF good + 1 >= LowerAfter
       THEN parity' = parity - 1 /\ good' = 0
       ELSE good' = good + 1 /\ UNCHANGED parity
    /\ UNCHANGED bypassed

Hold ==
    /\ bad' = Decrement(bad)
    /\ good' = 0
    /\ UNCHANGED <<parity, bypassed>>

ModerateLoss(target) ==
    /\ streak' = 0
    /\ \/ bypassed /\ Resume(target)
       \/ ~bypassed /\ target > parity /\ Raise
       \/ ~bypassed /\ target < parity /\ Lower
       \/ ~bypassed /\ target = parity /\ Hold

Sample(loss) ==
    /\ unavailable' = 0
    /\ smoothed' = Smooth(loss)
    /\ \/ loss >= BypassLoss /\ HeavyLoss
       \/ loss < BypassLoss /\ ModerateLoss(Target(Smooth(loss)))

Report(loss) ==
    \/ loss = Unavailable /\ NoSample
    \/ loss # Unavailable /\ Sample(loss)

Next == \E loss \in Samples \cup {Unavailable} : Report(loss)

Spec == Init /\ [][Next]_vars

-----------------------------------------------------------------------------

\* Ranges of the controller's state: the counters never pass their triggers,
\* so `bad += 1` cannot overflow and `parity -= 1` cannot wrap below zero.
TypeOK ==
    /\ parity \in 0..MaxParity
    /\ bad \in 0..(RaiseAfter - 1)
    /\ good \in 0..(LowerAfter - 1)
    /\ smoothed \in 0..MaxLoss
    /\ unavailable \in 0..(IdleAfter - 1)
    /\ streak \in 0..CounterMax
    /\ bypassed \in BOOLEAN

\* FEC is bypassed exactly while the run of heavy samples lasts (idle reports
\* in between do not end it), and a bypassed encoder adds no parity and holds
\* no evidence that would change the parity on its own.
BypassIsQuiet ==
    /\ bypassed <=> streak >= BypassAfter
    /\ bypassed => parity = 0 /\ bad = 0 /\ good = 0

\* report() never overshoots: parity grows by one shard, or to the target
\* when a bypass ends, and never beyond what the smoothed loss asks for.
NeverOvershoots ==
    [][parity' > parity =>
          /\ parity' <= Target(smoothed')
          /\ bypassed \/ parity' = parity + 1]_vars

\* A report without a sample that does not complete an idle period.
BriefIdle == unavailable + 1 < IdleAfter /\ Report(Unavailable)

\* From some time on every report carries the same loss, with idle reports
\* in between but no idle period long enough to retire a shard.
Steady(loss) ==
    /\ <>[][Report(loss) \/ BriefIdle]_vars
    /\ WF_vars(Report(loss))

\* Under a steady loss the controller settles: on the level of that loss (the
\* truncating average of Smooth may rest up to 3 units below it), or on the
\* bypass when the loss is heavy.  This is what the comment on intermittent
\* idle reports in report() asks for: they must not keep parity from rising.
SteadyLossSettles ==
    \A loss \in Samples :
        Steady(loss) =>
            <>[](IF loss >= BypassLoss
                 THEN bypassed /\ parity = 0
                 ELSE parity \in Target(IF loss < 3 THEN 0 ELSE loss - 3)..Target(loss))

=============================================================================
