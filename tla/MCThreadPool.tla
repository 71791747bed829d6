---------------------------- MODULE MCThreadPool ----------------------------
EXTENDS ThreadPool

=============================================================================
