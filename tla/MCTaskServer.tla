---------------------------- MODULE MCTaskServer ----------------------------
EXTENDS TaskServer

=============================================================================
