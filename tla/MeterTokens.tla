---------------------------- MODULE MeterTokens ----------------------------
(***************************************************************************)
(* What Meter.flushOne charges for one batch of requests.  Apart from the  *)
(* state machine because its sums are folds over sets.                     *)
(***************************************************************************)
EXTENDS Naturals, FiniteSetsExt

CONSTANTS
  Bytes,   \* [request -> Nat]: bytes in and out of a request
  Exact    \* [request -> Nat]: tokens the provider reported, 0 if none

EstimatedTokens(bytes) == bytes \div 4

(* Once one request of the batch reported its usage, only reports count.    *)
FlushTokens(S) ==
  LET exact == MapThenSumSet(LAMBDA r : Exact[r], S)
  IN  IF exact > 0 THEN exact
                   ELSE EstimatedTokens(MapThenSumSet(LAMBDA r : Bytes[r], S))
=============================================================================
