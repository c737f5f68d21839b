----------------------------- MODULE MCAudioClock -----------------------------
EXTENDS AudioClock
CONSTANTS keys, pads
=============================================================================
