---------------------------- MODULE MCRemotePane ----------------------------
EXTENDS RemotePane
=============================================================================
