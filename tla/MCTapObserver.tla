---------------------------- MODULE MCTapObserver ----------------------------
EXTENDS TapObserver
CONSTANTS a, b, c

\* A tap that is renamed, moves to another slot, and one past the last slot.
MCManifests == {<<a>>, <<b, a>>, <<b, c, a>>}
=============================================================================
