----------------------------- MODULE MCWorkers -----------------------------
EXTENDS Workers
=============================================================================
