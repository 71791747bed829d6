------------------------------- MODULE MCPool -------------------------------
EXTENDS ConnPool

=============================================================================
