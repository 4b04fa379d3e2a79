----------------------------- MODULE MCStreamer -----------------------------
(* Model values for Streamer.                                              *)
EXTENDS Streamer

\* An IDR unit is longer than the buffer given to streamer_init.
Lengths == [kind \in Kinds |-> CASE kind = "IDR" -> 6 [] kind = "NonIDR" -> 1 [] OTHER -> 2]

PictureKinds == {"IDR", "NonIDR"}

=============================================================================
