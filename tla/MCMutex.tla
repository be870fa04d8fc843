------------------------------- MODULE MCMutex -------------------------------
EXTENDS Mutex
=============================================================================
