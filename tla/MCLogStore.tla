----------------------------- MODULE MCLogStore -----------------------------
EXTENDS LogStore
=============================================================================
