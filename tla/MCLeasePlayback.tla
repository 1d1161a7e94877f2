--------------------------- MODULE MCLeasePlayback ---------------------------
EXTENDS LeasePlayback
=============================================================================
