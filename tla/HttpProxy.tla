----------------------------- MODULE HttpProxy -----------------------------
(***************************************************************************)
(* proxy.Handler for one HTTP server: what happens to a request between    *)
(* the breaker's Allow and the result recorded in the breaker, if one is.  *)
(* Clients send one request after another.  A request refused before Allow *)
(* (403 disabled or out of scope, 402 lane budget) or by it (503) changes  *)
(* nothing here and is not a step.                                         *)
(***************************************************************************)
EXTENDS Circuit, FiniteSets

CONSTANTS
  Clients,   \* concurrent callers of the server
  OAuth      \* whether the server's auth type is OAuth

ASSUME ProxyAssumption == OAuth \in BOOLEAN /\ IsFiniteSet(Clients)

VARIABLES
  circuit,   \* the server's circuit
  pc,        \* how far each client's request got past Allow
  probing    \* history: clients let in since the circuit last opened

vars == <<circuit, pc, probing>>

InFlight == {c \in Clients : pc[c] # "idle"}

(* The request is over without a result for the breaker. *)
Leave(c) == pc' = [pc EXCEPT ![c] = "idle"] /\ UNCHANGED <<circuit, probing>>

Admit(c) ==
  /\ pc[c] = "idle" /\ Allows(circuit)
  /\ circuit' = Allow(circuit)
  /\ probing' = IF circuit.state = "closed" THEN probing ELSE probing \cup {c}
  /\ pc' = [pc EXCEPT ![c] = IF OAuth THEN "token" ELSE "policy"]

(* 401: no token, refresh failed, or no guard. *)
TokenRefused(c) == pc[c] = "token" /\ Leave(c)

TokenFound(c) ==
  /\ pc[c] = "token"
  /\ pc' = [pc EXCEPT ![c] = "policy"]
  /\ UNCHANGED <<circuit, probing>>

(* A denied tools/call, or a batch with one, is answered here; what such a   *)
(* batch may forward goes past the breaker.  So does an invalid BaseURL.     *)
AnsweredLocally(c) == pc[c] = "policy" /\ Leave(c)

Send(c) ==
  /\ pc[c] = "policy"
  /\ pc' = [pc EXCEPT ![c] = "upstream"]
  /\ UNCHANGED <<circuit, probing>>

(* ModifyResponse on a status below 500. *)
Succeed(c) ==
  /\ pc[c] = "upstream"
  /\ circuit' = RecordSuccess(circuit)
  /\ probing' = {}
  /\ pc' = [pc EXCEPT ![c] = "idle"]

(* ModifyResponse on a 5xx, ErrorHandler on a dial failure or a timeout. *)
Fail(c) ==
  /\ pc[c] = "upstream"
  /\ circuit' = RecordFailure(circuit)
  /\ probing' = {}
  /\ pc' = [pc EXCEPT ![c] = "idle"]

(* ErrorHandler, the client having gone away. *)
Disconnect(c) == pc[c] = "upstream" /\ Leave(c)

Cool ==
  /\ circuit.state = "open" /\ ~circuit.cooled
  /\ circuit' = CoolDown(circuit)
  /\ UNCHANGED <<pc, probing>>

(* The breaker lives in memory. *)
Restart ==
  /\ circuit' = Closed
  /\ pc' = [c \in Clients |-> "idle"]
  /\ probing' = {}

Init ==
  /\ circuit = Closed
  /\ pc = [c \in Clients |-> "idle"]
  /\ probing = {}

Progress(c) ==
  \/ TokenRefused(c) \/ TokenFound(c) \/ AnsweredLocally(c) \/ Send(c)
  \/ Succeed(c) \/ Fail(c) \/ Disconnect(c)

Next == (\E c \in Clients : Admit(c) \/ Progress(c)) \/ Cool \/ Restart

(* A request that was let in ends one day: the upstream answers, the dial    *)
(* fails or the client gives up; and time passes.  Nobody has to come, and   *)
(* nobody has to restart the gateway.                                        *)
Spec ==
  /\ Init /\ [][Next]_vars
  /\ WF_vars(Cool)
  /\ \A c \in Clients : WF_vars(Progress(c))
----------------------------------------------------------------------------
TypeOK ==
  /\ circuit \in CircuitState
  /\ pc \in [Clients -> {"idle", "token", "policy", "upstream"}]
  /\ probing \subseteq Clients

(* The breaker's own invariant survives every interleaving of admissions,    *)
(* late results of requests let in before it opened, and early returns.      *)
Shape == CircuitShape(circuit)

(* Between an opening and the next recorded result at most one request is    *)
(* let through, and it is half-open exactly when there was one.              *)
SingleProbe ==
  /\ Cardinality(probing) <= 1
  /\ circuit.state = "half_open" <=> probing # {}

(* Late failures keep raising the counter of an open circuit, but never past *)
(* the requests that were in flight when it opened.                          *)
FailuresBounded ==
  circuit.failures + Cardinality(InFlight \ probing) < Threshold + Cardinality(Clients)

(* The probe that holds the circuit half open ended without a result.        *)
Abandoned == circuit.state = "half_open" /\ probing \cap InFlight = {}

(* Unless a probe was abandoned, the breaker lets somebody in again and      *)
(* again: an open circuit cools, a probe is answered, a failed probe reopens *)
(* a circuit that cools.                                                     *)
RecoversUnlessAbandoned == []<>(Allows(circuit) \/ Abandoned)

(* circuitOpenBody tells the refused client "Retry shortly" and Retry-After  *)
(* names 30 seconds: a client that retries is let in one day.                *)
RetryShortly == []<>Allows(circuit)
=============================================================================
