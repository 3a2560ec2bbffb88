----------------------------- MODULE MCAdaptive -----------------------------
(* Adaptive in tenths of a percent, with shortened counters. *)
EXTENDS Adaptive

MCLevel == <<10, 50, 100, 200>>
MCSamples == {0, 11, 70, 150, 250, 300, 1000}

=============================================================================
