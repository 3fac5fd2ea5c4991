------------------------------ MODULE MCDispatch ------------------------------
EXTENDS Dispatch

\* Main puts jobs of its own: the open client of Executor is not used.
MCRequests == {}
=============================================================================
