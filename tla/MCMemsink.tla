----------------------------- MODULE MCMemsink -----------------------------
EXTENDS Memsink
=============================================================================
