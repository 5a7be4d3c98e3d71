------------------------------- MODULE MCPool -------------------------------
EXTENDS PoolProperties
=============================================================================
