------------------------------ MODULE CaptureLedger ------------------------------
(***************************************************************************)
(* What a plaintext capture promises of its two output files, without the  *)
(* buffer between them: packets are written to the pcapng file in the order*)
(* they arrive, each plaintext record is exported to the JSONL file once,  *)
(* and a record is attached to a packet at most once, at the moment it is  *)
(* exported and before the packet is written.                              *)
(***************************************************************************)
EXTENDS Integers

VARIABLES
  arrivals,  \* number of packets that arrived
  written,   \* number of them in the pcapng file
  received,  \* number of plaintext records that arrived
  exported,  \* ids of those in the JSONL file
  link       \* the pairs <<packet, record>> the two files annotate

ledgerVars == <<arrivals, written, received, exported, link>>

LedgerInit ==
  arrivals = 0 /\ written = 0 /\ received = 0 /\ exported = {} /\ link = {}

Arrive ==
  arrivals' = arrivals + 1 /\ UNCHANGED <<written, received, exported, link>>

Write ==
  /\ written < arrivals
  /\ written' = written + 1 /\ UNCHANGED <<arrivals, received, exported, link>>

Receive ==
  received' = received + 1 /\ UNCHANGED <<arrivals, written, exported, link>>

\* Export record id, attached to nothing ...
ExportAlone(id) ==
  /\ id \in 1..received /\ id \notin exported
  /\ exported' = exported \cup {id} /\ UNCHANGED <<arrivals, written, received, link>>

\* ... or to a packet that is still to be written and carries no other record.
ExportWith(p, id) ==
  /\ id \in 1..received /\ id \notin exported
  /\ p \in (written + 1)..arrivals /\ \A l \in link : l[1] # p
  /\ exported' = exported \cup {id}
  /\ link' = link \cup {<<p, id>>}
  /\ UNCHANGED <<arrivals, written, received>>

LedgerNext ==
  \/ Arrive \/ Write \/ Receive
  \/ \E id \in 1..received : ExportAlone(id) \/ \E p \in 1..arrivals : ExportWith(p, id)

LedgerSpec == LedgerInit /\ [][LedgerNext]_ledgerVars
================================================================================
