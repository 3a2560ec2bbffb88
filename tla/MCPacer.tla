------------------------------- MODULE MCPacer ------------------------------
EXTENDS Pacer

=============================================================================
