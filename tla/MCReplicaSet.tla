---------------------------- MODULE MCReplicaSet ----------------------------
EXTENDS ReplicaSet

CONSTANTS h1, h2

MCMembers == {h1, h2}
OneSeed == <<h1>>
TwoSeeds == <<h1, h2>>
=============================================================================
