------------------------------ MODULE MCMongoR ------------------------------
EXTENDS MongoR
=============================================================================
