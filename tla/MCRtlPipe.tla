----------------------------- MODULE MCRtlPipe ------------------------------
(* Model values for RtlPipe: beats of one address and one-bit bytes. *)
EXTENDS RtlPipe

MCByte == 0 .. 1
=============================================================================
