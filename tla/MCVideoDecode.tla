--------------------------- MODULE MCVideoDecode ---------------------------
(* Instances of VideoDecode for TLC. *)
EXTENDS VideoDecode

=============================================================================
