----------------------------- MODULE MCRevision -----------------------------
EXTENDS Revision

=============================================================================
