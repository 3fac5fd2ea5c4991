------------------------------- MODULE MCNwmon -------------------------------
EXTENDS Nwmon
=============================================================================
