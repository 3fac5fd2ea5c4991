-------------------------------- MODULE MCBot --------------------------------
EXTENDS Bot

\* Main puts jobs of its own: the open client of Executor is not used.
MCRequests == {}
=============================================================================
