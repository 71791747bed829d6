---------------------------- MODULE MCConnection ----------------------------
EXTENDS DBClientConnection
=============================================================================
