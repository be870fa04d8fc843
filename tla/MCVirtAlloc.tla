---------------------------- MODULE MCVirtAlloc ----------------------------
EXTENDS VirtAlloc
Dense == 0 .. 12
=============================================================================
