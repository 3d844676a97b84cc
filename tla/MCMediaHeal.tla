---------------------------- MODULE MCMediaHeal ----------------------------
\* Two heal coroutines are one more than OneHeal admits: a second one that a
\* step could start has a place to be in.  Liveness is checked, so no symmetry.
EXTENDS MediaHeal, TLC
=============================================================================
