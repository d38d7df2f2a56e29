-------------------------- MODULE MCEvidenceLedger --------------------------
(* Values for the runs of EvidenceLedger: two headers, two payloads.         *)
EXTENDS EvidenceLedger

CONSTANTS h1, h2, p1, p2
=============================================================================
