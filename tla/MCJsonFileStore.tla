--------------------------- MODULE MCJsonFileStore ---------------------------
EXTENDS JsonFileStore
=============================================================================
