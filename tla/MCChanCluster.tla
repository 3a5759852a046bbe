--------------------------- MODULE MCChanCluster ---------------------------
EXTENDS ChanCluster
=============================================================================
