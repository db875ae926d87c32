----------------------------- MODULE AtomicRecord -----------------------------
(***************************************************************************)
(* What the durable file replacement promises: one record that is only     *)
(* ever replaced as a whole, by a successor the transition rule allows,    *)
(* and that no crash or loss of power takes back.                          *)
(***************************************************************************)
CONSTANTS
  Value,
  First,             \* the record before anything was written
  Lawful(_, _)       \* the transition rule

VARIABLE record

Init == record = First

Replace ==
  /\ record' \in Value
  /\ Lawful(record, record')

Spec == Init /\ [][Replace]_record
=============================================================================
