--------------------------- MODULE MCVoiceSession ---------------------------
EXTENDS VoiceSession
=============================================================================
