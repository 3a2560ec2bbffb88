----------------------------- MODULE MCSessions -----------------------------
EXTENDS ServerSessions

=============================================================================
