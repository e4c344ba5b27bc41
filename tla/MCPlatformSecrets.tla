------------------------- MODULE MCPlatformSecrets -------------------------
EXTENDS PlatformSecrets
\* Three hosts, visited in this order.
MCHosts == <<"host1", "host2", "host3">>
=============================================================================
