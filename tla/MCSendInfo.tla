----------------------------- MODULE MCSendInfo -----------------------------
(* Instance of SendInfo for TLC: three calls in a row, two contents.       *)
EXTENDS SendInfo
=============================================================================
