------------------------------ MODULE MCBlobs ------------------------------
(* Two streams of one connection, one of them of a stranger, for TLC. *)
EXTENDS Blobs

MCFormat == [j \in Jobs |-> IF j \in {"file", "big"} THEN "raw" ELSE "hashseq"]
MCSizes == [j \in Jobs |-> CASE j = "file" -> <<5>>
                             [] j = "big"  -> <<10>>
                             [] j = "tree" -> <<0, 3, 1>>
                             [] j = "over" -> <<4, 5, 1>>]
=============================================================================
