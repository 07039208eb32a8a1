----------------------------- MODULE MCDevPlayer -----------------------------
(* A player of a few records whose queue is shorter than the recording.    *)
EXTENDS DevPlayer
=============================================================================
