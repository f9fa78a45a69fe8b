--------------------------- MODULE MCCaptureSession ---------------------------
(* Instances of CaptureSession for TLC.                                     *)
EXTENDS CaptureSession, TLC

CONSTANTS a, b

\* a starts, stops and fetches the captures; b only stops them.
OneFetches == (a :> {"start", "stop", "fetch"}) @@ (b :> {"stop"})
=============================================================================
