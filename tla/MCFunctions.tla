------------------------------- MODULE MCFunctions ------------------------------
(* Small universes of inputs for PureFunctions. *)
EXTENDS PureFunctions

PeerFilter == [ports |-> {2}, peerIPs |-> {"s"}, peerNets |-> {{"s"}}]

SomeWires ==
  {w \in [src : {"c", "s"}, sport : {NoPort, 2, 7}, dst : {"c", "s", "d"}, dport : {NoPort, 2, 7},
          time : {3, 6, 9}, tcpLen : {-1, 0, 9}, srcPod : {"none"}, dstPod : {"none", "gotls"}] :
     /\ w.src # w.dst /\ (w.sport = NoPort <=> w.dport = NoPort)
     /\ (w.tcpLen = 0 => w.dstPod = "none")}

SomeRecords ==
  {r \in [src : {"c", "s", "none"}, sport : {NoPort, 0, 2, 7}, dst : {"c", "s", "none"},
          dport : {NoPort, 2}, time : {8}, plainLen : {8}, source : {"openssl"},
          dir : {"read", "write", "none"}, kernel : {FALSE}] :
     r.src = "none" \/ r.src # r.dst}

\* No payload adjustment sets the competitors apart.
SomeCompetitors == {w \in SomeWires : w.tcpLen = -1 /\ w.dstPod = "none"}

\* Drops and DNS present, absent, or there with a zero.
SomeFlows ==
  {f \in [{"PktDropPackets", "DnsId", "PktDropLatestDropCause"} ->
            {Nil, Float(0), Float(3), Text(0), Text(1)}] :
     /\ f["PktDropLatestDropCause"].type # "float64"
     /\ f["PktDropPackets"].type # "string" /\ f["DnsId"].type # "string"}

Times == 1..4
Series == {s \in UNION {[1..n -> Times] : n \in 1..4} : \A k \in 1..(Len(s) - 1) : s[k] < s[k + 1]}
SomeAnswers == UNION {[1..n -> Series] : n \in 1..3}
================================================================================
