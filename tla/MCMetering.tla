----------------------------- MODULE MCMetering -----------------------------
EXTENDS Metering
=============================================================================
