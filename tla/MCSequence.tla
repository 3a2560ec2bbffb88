----------------------------- MODULE MCSequence -----------------------------
EXTENDS SequenceAccounting

CONSTANT MaxSequence
MCSequences == 1..MaxSequence

=============================================================================
