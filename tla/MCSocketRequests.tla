---------------------------- MODULE MCSocketRequests ----------------------------
\* A small instance of the socket's request registry for TLC: three requests on
\* one event, of which the second fetches another key, from a server that
\* echoes request_id there or from an older one that echoes none.
EXTENDS SocketRequests

CONSTANTS r1, r2, r3, getKmc, k1, k2

MCEventOf == [r \in Req |-> getKmc]
MCKeyOf == [r \in Req |-> IF r = r2 THEN k2 ELSE k1]
MCServers == {{}, {getKmc}}

=============================================================================
