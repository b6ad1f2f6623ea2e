--------------------------- MODULE MCSideStreams ---------------------------
\* Side streams of one connection for TLC.
EXTENDS SideStreams, TLC

CONSTANTS x, y, z

Symmetric == Permutations(Sides)
=============================================================================
