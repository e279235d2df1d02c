---------------------------- MODULE UsageLedger ----------------------------
(***************************************************************************)
(* What metering promises: a finished request is recorded once; from then  *)
(* on it waits in memory until it is charged to the rows, once and for     *)
(* ever, or is lost with the process.                                      *)
(***************************************************************************)
CONSTANT Reqs

VARIABLES buffered, charged, lost

ledger == <<buffered, charged, lost>>

Init == buffered = {} /\ charged = {} /\ lost = {}

Record(r) ==
  /\ r \notin buffered \cup charged \cup lost
  /\ buffered' = buffered \cup {r}
  /\ UNCHANGED <<charged, lost>>

Charge(S) ==
  /\ buffered' = buffered \ S
  /\ charged' = charged \cup S
  /\ UNCHANGED lost

Lose(S) ==
  /\ buffered' = buffered \ S
  /\ lost' = lost \cup S
  /\ UNCHANGED charged

Next ==
  \/ \E r \in Reqs : Record(r)
  \/ \E S \in SUBSET buffered : Charge(S) \/ Lose(S)

Spec == Init /\ [][Next]_ledger
=============================================================================
