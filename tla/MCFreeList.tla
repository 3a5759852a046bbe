----------------------------- MODULE MCFreeList -----------------------------
EXTENDS FreeList
=============================================================================
