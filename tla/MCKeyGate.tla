----------------------------- MODULE MCKeyGate -----------------------------
EXTENDS KeyGate, MeterTokens, TLC

CONSTANTS k1, k2, srv, llm, a1, a2, r1, r2, r3

OneKey   == [r \in Reqs |-> k1]
ToServer == [r \in Reqs |-> srv]
ToProvider == [r \in Reqs |-> llm]
ToBoth   == [r \in Reqs |-> IF r = r2 THEN llm ELSE srv]

(* 6 bytes are one estimated token alone and three in a batch of two.       *)
SixBytes  == [r \in Reqs |-> 6]
NoReports == [r \in Reqs |-> 0]


(* r1 opens the slot, r2 (no usage in the answer) waits for r3 (which has).  *)
FortyBytes == [r \in Reqs |-> 40]
R3Reports  == [r \in Reqs |-> IF r = r3 THEN 1 ELSE 0]

Interchangeable == Permutations(Admins) \cup Permutations(Reqs)
SameServer      == Permutations({r1, r3})

(* docs/LLM_ROUTING.md: "When `usage` is present -> exact tokens are stored. *)
(* When missing -> bytes/4 estimate."  So a month's row is at least the sum  *)
(* of what the requests it counts are documented to cost.                    *)
DocumentedTokens(r) == IF Exact[r] > 0 THEN Exact[r] ELSE EstimatedTokens(Bytes[r])

ChargedAsDocumented ==
  \A k \in Keys :
    usage[month][k] >= MapThenSumSet(DocumentedTokens, OfKey(stored, k))
=============================================================================
