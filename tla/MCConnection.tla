---------------------------- MODULE MCConnection ----------------------------
(* Side streams of one connection that carry uploads, for TLC. *)
EXTENDS Connection

MCFormat == [j \in Jobs |-> IF j = "file" THEN "raw" ELSE "hashseq"]
MCSizes == [j \in Jobs |-> IF j = "file" THEN <<3>> ELSE <<1, 1>>]
=============================================================================
