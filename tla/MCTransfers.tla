---------------------------- MODULE MCTransfers ----------------------------
\* Two uploads at once for TLC, of a file and of a directory that holds a file
\* of the same name, one of a directory with two files, a download of each kind
\* or a question.
EXTENDS Transfers

CONSTANTS p, r, s, g, h, q, a, b

MCDest == [t \in {p, r, s, g, h, q} |-> IF t \in {s, h} THEN <<a, b>> ELSE <<a>>]
=============================================================================
