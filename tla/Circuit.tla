------------------------------ MODULE Circuit ------------------------------
(***************************************************************************)
(* One upstream server's circuit breaker (pkg/proxy/circuit.go) as a       *)
(* record and the effect of each Breaker method on it.  The methods hold   *)
(* the circuit's mutex, so each is one step of whoever calls it.  The      *)
(* clock is the flag cooled: openFor has passed since openedAt.            *)
(***************************************************************************)
EXTENDS Naturals

CONSTANT Threshold   \* consecutive failures that open the circuit

ASSUME ThresholdAssumption == Threshold \in Nat \ {0}

CircuitState == [state : {"closed", "open", "half_open"}, failures : Nat,
                 cooled : BOOLEAN, probe : BOOLEAN]

Closed == [state |-> "closed", failures |-> 0, cooled |-> FALSE, probe |-> FALSE]
Opened == [state |-> "open", failures |-> Threshold, cooled |-> FALSE, probe |-> FALSE]

Reset(c) == Closed
(* Mutant: only the state is set. *)
ForceOpenStateOnly(c) == [c EXCEPT !.state = "open", !.cooled = FALSE]

ForceOpen(c) == Opened

(* Mutants: everybody may probe a half-open circuit; nobody an open one. *)
AllowsAll(c) == c.state # "open" \/ c.cooled
AllowsNoProbe(c) == c.state = "closed" \/ (c.state = "half_open" /\ ~c.probe)

Allows(c) ==
  \/ c.state = "closed"
  \/ c.state = "open" /\ c.cooled
  \/ c.state = "half_open" /\ ~c.probe

(* What a granted Allow leaves behind. *)
Allow(c) ==
  IF c.state = "closed" THEN c
  ELSE [c EXCEPT !.state = "half_open", !.cooled = FALSE, !.probe = TRUE]

(* Mutant: a success takes one failure back. *)
RecordSuccessDecay(c) == [Closed EXCEPT !.failures = c.failures - 1]

RecordSuccess(c) == Closed

(* Mutants: the threshold must be passed, not reached; a late failure of an  *)
(* open circuit counts twice.                                              *)
RecordFailureLate(c) ==
  IF c.state = "half_open" \/ (c.state = "closed" /\ c.failures + 1 > Threshold)
  THEN Opened
  ELSE [c EXCEPT !.failures = @ + 1, !.probe = FALSE]

RecordFailureTwice(c) ==
  IF c.state = "half_open" \/ (c.state = "closed" /\ c.failures + 1 >= Threshold)
  THEN Opened
  ELSE [c EXCEPT !.failures = IF c.state = "open" THEN @ + 2 ELSE @ + 1, !.probe = FALSE]

(* A failure recorded while OPEN, by a request let in before, still counts  *)
(* but does not restart the cooldown.                                      *)
RecordFailure(c) ==
  IF c.state = "half_open" \/ (c.state = "closed" /\ c.failures + 1 >= Threshold)
  THEN Opened
  ELSE [c EXCEPT !.failures = @ + 1, !.probe = FALSE]

CoolDown(c) == [c EXCEPT !.cooled = TRUE]

(* A circuit is half open exactly while its probe flag is up, a closed one   *)
(* has fewer failures than would open it, and one that is not closed has as  *)
(* many: no sequence of calls leaves a closed circuit that should be open.   *)
CircuitShape(c) ==
  /\ c \in CircuitState
  /\ c.state = "half_open" <=> c.probe
  /\ c.state = "closed" => c.failures < Threshold
  /\ c.state # "closed" => c.failures >= Threshold
  /\ c.cooled => c.state = "open"
=============================================================================
