----------------------------- MODULE MCMidiIngest -----------------------------
EXTENDS MidiIngest, TLC
CONSTANTS keys, pads

\* No property singles out a port.
Symmetry == Permutations(Port)
=============================================================================
