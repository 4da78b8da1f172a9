---------------------------- MODULE MCCaptureSession ----------------------------
(* Two users of the capture script. *)
EXTENDS CaptureSession, TLC

CONSTANTS u1, u2

TwoUsers == {u1, u2}
Symmetric == Permutations(Users)
================================================================================
