------------------------ MODULE MC_ExternalIPUpdater ------------------------
EXTENDS ExternalIPUpdater

CONSTANTS ip1, ip2

MCAddrs == {ip1, ip2}
=============================================================================
