-------------------------- MODULE MCFileAllocator --------------------------
EXTENDS FileAllocator

=============================================================================
