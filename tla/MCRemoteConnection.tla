-------------------------- MODULE MCRemoteConnection --------------------------
EXTENDS RemoteConnection
MCSockets == {"s1", "s2"}
MCHostSockets == {"h1", "h2"}
=============================================================================
