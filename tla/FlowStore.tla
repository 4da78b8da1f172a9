------------------------------- MODULE FlowStore -------------------------------
(***************************************************************************)
(* The INSERT statement of a flow (insertFlowToDB, cmd/flow_db.go).  A flow *)
(* gives each key the Go value json.Unmarshal has put in the map: a dynamic *)
(* type and a value.  A key that is absent yields the nil interface.        *)
(***************************************************************************)
EXTENDS Integers, Sequences

Nil == [type |-> "nil", value |-> 0]
Float(n) == [type |-> "float64", value |-> n]
Text(n) == [type |-> "string", value |-> n]

\* What json.Unmarshal may put in the map, for the keys the statement depends on: a
\* number is a float64 and never an int.
Decoded == [type : {"nil", "bool", "float64", "string", "array", "object"}, value : Nat]
DecodedFlow == [{"PktDropPackets", "DnsId", "PktDropLatestDropCause"} -> Decoded]

\* The untyped constant 0 in flow[key] != 0.
Zero == [type |-> "int", value |-> 0]

\* Mutant: the values are compared, whatever their types.
DiffersInValue(a, b) == a.value # b.value

\* != of two interfaces: their dynamic types, then their values.
Differs(a, b) == a # b

Common ==
  <<"DnsErrno", "Dscp", "DstAddr", "DstPort", "Interface", "Proto", "SrcAddr", "SrcPort",
    "Bytes", "Packets">>
Drops == <<"PktDropLatestDropCause", "PktDropBytes", "PktDropPackets">>
Dns == <<"DnsId", "DnsName", "DnsFlagsResponseCode", "DnsLatencyMs">>
Rtt == <<"TimeFlowRttNs">>

\* createFlowsDBTable; the names of columns are not case sensitive.
TableColumns == {(Common \o Drops \o Dns \o Rtt)[i] : i \in 1..18}

Section(present, names) == IF present THEN names ELSE <<>>

\* The first switch: the columns of the statement.
Columns(flow) ==
  Common \o Section(Differs(flow["PktDropPackets"], Zero), Drops)
         \o Section(Differs(flow["DnsId"], Zero), Dns) \o Rtt

\* The second switch: the keys whose values are bound to them, in order.
Keys(flow) ==
  <<"DNSErrno">> \o Tail(Common)
    \o Section(Differs(flow["PktDropLatestDropCause"], Zero), Drops)
    \o Section(Differs(flow["DnsId"], Zero), Dns) \o Rtt

\* The two switches of insertFlowToDB test different keys.  Whatever a flow has of drops
\* and DNS, the statement has as many values as columns, each column of the table gets
\* the value of the key of its name, and no column twice.  Not so the first, whose key
\* is spelled DNSErrno.
StatementFits(flow) ==
  LET cols == Columns(flow) keys == Keys(flow) IN
  /\ Len(cols) = Len(keys)
  /\ \A i \in DOMAIN cols : cols[i] \in TableColumns /\ (i > 1 => cols[i] = keys[i])
  /\ \A i, j \in DOMAIN cols : i # j => cols[i] # cols[j]
================================================================================
