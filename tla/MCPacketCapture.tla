---------------------------- MODULE MCPacketCapture ----------------------------
(* Small instances of PacketCapture. *)
EXTENDS PacketCapture

AllOptions == SUBSET {"background", "correlate", "keylog"}
Correlated == {{"correlate"}, {"correlate", "background"}}
WithKeylog == {{"keylog"}}
================================================================================
