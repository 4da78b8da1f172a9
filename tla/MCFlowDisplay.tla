----------------------------- MODULE MCFlowDisplay -----------------------------
(* Small instances of FlowDisplay. *)
EXTENDS FlowDisplay

AllCaptures == {"flow", "packet", "tls"}
SomeRecords ==
  [flow |-> [time : 1..2, type : {"other"}, match : BOOLEAN],
   packet |-> [time : 1..2, type : {"wire"}, match : {TRUE}],
   tls |-> [time : 1..2, type : {"wire", "plaintext"}, match : {TRUE}]
             \cup [time : {2}, type : {"other"}, match : {FALSE}]]
================================================================================
