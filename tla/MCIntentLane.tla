----------------------------- MODULE MCIntentLane -----------------------------
EXTENDS IntentLane
=============================================================================
