------------------------------- MODULE MCS3Fifo -------------------------------
(* Values for the constants of S3Fifo a .cfg cannot write. *)
EXTENDS S3Fifo

MCFreqFloor == -1
=============================================================================
