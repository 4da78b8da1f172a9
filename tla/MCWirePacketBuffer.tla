--------------------------- MODULE MCWirePacketBuffer ---------------------------
(* Small instances of WirePacketBuffer: a client c and a server s. *)
EXTENDS WirePacketBuffer

NoFilters == [ports |-> {}, peerIPs |-> {}, peerNets |-> {}]

Wire(src, sport, dst, dport, tcpLen) ==
  [src |-> src, sport |-> sport, dst |-> dst, dport |-> dport, time |-> 3,
   tcpLen |-> tcpLen, srcPod |-> "none", dstPod |-> "none"]

Record(src, sport, dst, dport, dir, kernel) ==
  [src |-> src, sport |-> sport, dst |-> dst, dport |-> dport, time |-> 3,
   plainLen |-> 8, source |-> "openssl", dir |-> dir, kernel |-> kernel]

\* A request, its acknowledgement, and a response on another connection that
\* differs by the client's port only.
FullWire == {Wire("c", 7, "s", 2, 9), Wire("s", 2, "c", 7, 0), Wire("s", 2, "c", 8, 9)}

\* The server reads the request and writes the response; an older agent reports
\* the same read with a tuple it guessed.
FullRecords ==
  {Record("s", 2, "c", 7, "read", TRUE), Record("s", 2, "c", 7, "write", TRUE),
   Record("s", 2, "c", 7, "read", FALSE)}

\* Two connections to the same server port; the record does not say which.
TwoConnections == {Wire("s", 2, "c", 7, 9), Wire("s", 2, "c", 8, 9)}
PartialRecords == {Record("s", 2, "none", -1, "write", FALSE)}
AnyRecords == PartialRecords \cup {Record("s", 2, "c", 7, "write", TRUE)}
================================================================================
