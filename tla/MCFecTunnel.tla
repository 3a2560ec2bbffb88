---------------------------- MODULE MCFecTunnel -----------------------------
EXTENDS FecTunnel

CONSTANT MaxSequence
MCSequences == 1..MaxSequence

=============================================================================
