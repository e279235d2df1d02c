-------------------------- MODULE HttpProxyProofs --------------------------
(***************************************************************************)
(* The breaker under any number of clients and any threshold: its record   *)
(* keeps its shape, and between an opening and the next recorded result    *)
(* one probe at most is let through.                                       *)
(***************************************************************************)
EXTENDS HttpProxy, FiniteSetTheorems, TLAPS

(* Every Breaker method keeps the circuit's shape; Allow is stated for a    *)
(* circuit that grants it, CoolDown for one that is cooling.                *)
LEMMA AllowShape ==
  ASSUME NEW c, CircuitShape(c), Allows(c)
  PROVE  CircuitShape(Allow(c))
BY ThresholdAssumption DEF CircuitShape, CircuitState, Allows, Allow

(* The else branch of RecordFailure, field by field.                        *)
LEMMA CountedFailure ==
  ASSUME NEW c \in CircuitState,
         NEW d, d = [c EXCEPT !.failures = @ + 1, !.probe = FALSE]
  PROVE  /\ d \in CircuitState
         /\ d.state = c.state /\ d.failures = c.failures + 1
         /\ d.probe = FALSE /\ d.cooled = c.cooled
<1> DEFINE n == c.failures + 1
<1>1. n \in Nat
  BY DEF CircuitState
<1>2. d = [c EXCEPT !.failures = n, !.probe = FALSE]
  OBVIOUS
<1> HIDE DEF n
<1>3. /\ d \in CircuitState
      /\ d.state = c.state /\ d.failures = n
      /\ d.probe = FALSE /\ d.cooled = c.cooled
  BY <1>1, <1>2 DEF CircuitState
<1>4. QED BY <1>3 DEF n

LEMMA ResultShape ==
  ASSUME NEW c, CircuitShape(c)
  PROVE  /\ CircuitShape(RecordSuccess(c))
         /\ CircuitShape(RecordFailure(c))
         /\ CircuitShape(ForceOpen(c))
         /\ CircuitShape(Reset(c))
<1>1. CircuitShape(Closed) /\ CircuitShape(Opened)
  BY ThresholdAssumption DEF CircuitShape, CircuitState, Closed, Opened
<1>2. ASSUME c.state # "half_open", c.state = "closed" => c.failures + 1 < Threshold
      PROVE  CircuitShape([c EXCEPT !.failures = @ + 1, !.probe = FALSE])
  <2> DEFINE d == [c EXCEPT !.failures = @ + 1, !.probe = FALSE]
  <2>1. c \in CircuitState
    BY DEF CircuitShape
  <2>2. /\ d \in CircuitState
        /\ d.state = c.state /\ d.failures = c.failures + 1
        /\ d.probe = FALSE /\ d.cooled = c.cooled
    BY <2>1, CountedFailure DEF CircuitState
  <2>3. d.state = "closed" => d.failures < Threshold
    BY <1>2, <2>2
  <2>4. d.state # "closed" => d.failures >= Threshold
    BY <2>1, <2>2, ThresholdAssumption DEF CircuitShape, CircuitState
  <2>5. d.cooled => d.state = "open"
    BY <2>2, Zenon DEF CircuitShape
  <2>6. d.state = "half_open" <=> d.probe
    BY <1>2, <2>2, Zenon
  <2> HIDE DEF d
  <2>7. CircuitShape(d)
    BY <2>2, <2>3, <2>4, <2>5, <2>6, Zenon DEF CircuitShape
  <2>8. QED BY <2>7 DEF d
<1>3. CircuitShape(RecordFailure(c))
  <2>1. CASE c.state = "half_open" \/ (c.state = "closed" /\ c.failures + 1 >= Threshold)
    BY <2>1, <1>1 DEF RecordFailure
  <2>2. CASE ~(c.state = "half_open" \/ (c.state = "closed" /\ c.failures + 1 >= Threshold))
    <3>1. c.state = "closed" => c.failures + 1 < Threshold
      BY <2>2, ThresholdAssumption DEF CircuitShape, CircuitState
    <3>2. QED BY <3>1, <2>2, <1>2 DEF RecordFailure
  <2>3. QED BY <2>1, <2>2
<1>4. QED BY <1>1, <1>3 DEF RecordSuccess, ForceOpen, Reset

LEMMA CoolShape ==
  ASSUME NEW c, CircuitShape(c), c.state = "open"
  PROVE  CircuitShape(CoolDown(c))
BY DEF CircuitShape, CircuitState, CoolDown

(* SingleProbe without cardinalities: nobody probes a circuit that is not   *)
(* half open, and one client alone holds one that is.                       *)
OneProber ==
  \/ circuit.state # "half_open" /\ probing = {}
  \/ circuit.state = "half_open" /\ \E c \in Clients : probing = {c}

Inv == TypeOK /\ Shape /\ OneProber

LEMMA InitInv == Init => Inv
<1> SUFFICES ASSUME Init PROVE Inv
  OBVIOUS
<1>1. Shape
  BY ThresholdAssumption DEF Init, Shape, CircuitShape, CircuitState, Closed
<1>2. TypeOK
  BY <1>1 DEF Init, TypeOK, Shape, CircuitShape
<1>3. OneProber
  BY DEF Init, OneProber, Closed
<1>4. QED BY <1>1, <1>2, <1>3 DEF Inv

(* The circuit after a recorded result is never half open. *)
LEMMA ResultNotHalfOpen ==
  ASSUME NEW c, CircuitShape(c)
  PROVE  RecordSuccess(c).state # "half_open" /\ RecordFailure(c).state # "half_open"
BY DEF RecordSuccess, RecordFailure, Closed, Opened, CircuitShape, CircuitState

LEMMA NextInv == Inv /\ [Next]_vars => Inv'
<1> SUFFICES ASSUME Inv, [Next]_vars PROVE Inv'
  OBVIOUS
<1> USE DEF Inv
<1>1. ASSUME NEW c \in Clients, Admit(c) PROVE Inv'
  <2>1. Shape'
    BY <1>1, AllowShape DEF Admit, Shape
  <2>2. TypeOK'
    BY <1>1, <2>1 DEF Admit, TypeOK, Shape, CircuitShape
  <2>3. OneProber'
    BY <1>1 DEF Admit, OneProber, Allows, Allow, TypeOK, CircuitState, Shape, CircuitShape
  <2>4. QED BY <2>1, <2>2, <2>3
<1>2. ASSUME NEW c \in Clients, TokenRefused(c) \/ AnsweredLocally(c) \/ Disconnect(c)
      PROVE  Inv'
  BY <1>2 DEF TokenRefused, AnsweredLocally, Disconnect, Leave, TypeOK, Shape, OneProber
<1>3. ASSUME NEW c \in Clients, TokenFound(c) \/ Send(c) PROVE Inv'
  BY <1>3 DEF TokenFound, Send, TypeOK, Shape, OneProber
<1>4. ASSUME NEW c \in Clients, Succeed(c) \/ Fail(c) PROVE Inv'
  <2>1. Shape'
    BY <1>4, ResultShape DEF Succeed, Fail, Shape
  <2>2. TypeOK'
    BY <1>4, <2>1 DEF Succeed, Fail, TypeOK, Shape, CircuitShape
  <2>3. OneProber'
    BY <1>4, ResultNotHalfOpen DEF Succeed, Fail, Shape, OneProber
  <2>4. QED BY <2>1, <2>2, <2>3
<1>5. CASE Cool
  <2>1. Shape'
    BY <1>5, CoolShape DEF Cool, Shape
  <2>2. TypeOK' /\ OneProber'
    BY <1>5, <2>1 DEF Cool, CoolDown, TypeOK, Shape, CircuitShape, CircuitState, OneProber
  <2>3. QED BY <2>1, <2>2
<1>6. CASE Restart
  <2>1. Shape'
    BY <1>6, ThresholdAssumption DEF Restart, Shape, CircuitShape, CircuitState, Closed
  <2>2. TypeOK' /\ OneProber'
    BY <1>6, <2>1 DEF Restart, Closed, TypeOK, Shape, CircuitShape, OneProber
  <2>3. QED BY <2>1, <2>2
<1>7. CASE UNCHANGED vars
  BY <1>7 DEF vars, TypeOK, Shape, OneProber
<1>8. QED BY <1>1, <1>2, <1>3, <1>4, <1>5, <1>6, <1>7 DEF Next, Progress

LEMMA Invariance == Spec => []Inv
BY InitInv, NextInv, PTL DEF Spec

(* The handler's state keeps its types. *)
THEOREM TypeCorrect == Spec => []TypeOK
BY Invariance, PTL DEF Inv

(* No interleaving of admissions, results of requests let in before the     *)
(* circuit opened, and early returns takes the breaker out of its shape.    *)
THEOREM BreakerKeepsShape == Spec => []Shape
BY Invariance, PTL DEF Inv

(* However many clients wait for the circuit to cool, one gets in.          *)
THEOREM OneProbe == Spec => []SingleProbe
<1>1. Inv => SingleProbe
  <2> SUFFICES ASSUME Inv PROVE SingleProbe
    OBVIOUS
  <2>1. CASE circuit.state # "half_open" /\ probing = {}
    BY <2>1, FS_EmptySet DEF SingleProbe
  <2>2. CASE circuit.state = "half_open" /\ \E c \in Clients : probing = {c}
    BY <2>2, FS_Singleton DEF SingleProbe
  <2>3. QED BY <2>1, <2>2 DEF Inv, OneProber
<1>2. QED BY <1>1, Invariance, PTL
(***************************************************************************)
(* The requests let in before the circuit opened can only raise its        *)
(* counter once each.                                                      *)
(***************************************************************************)
LEMMA SetsOfClients ==
  ASSUME NEW S \in SUBSET Clients, NEW T \in SUBSET S
  PROVE  /\ Cardinality(S) \in Nat /\ Cardinality(T) \in Nat
         /\ Cardinality(Clients) \in Nat
         /\ Cardinality(T) <= Cardinality(S)
         /\ S # T => Cardinality(T) < Cardinality(S)
<1>1. IsFiniteSet(Clients)
  BY ProxyAssumption
<1>2. IsFiniteSet(S)
  BY <1>1, FS_Subset
<1>3. IsFiniteSet(T)
  BY <1>2, FS_Subset
<1>4. Cardinality(S) \in Nat /\ Cardinality(T) \in Nat /\ Cardinality(Clients) \in Nat
  BY <1>1, <1>2, <1>3, FS_CardinalityType
<1>5. Cardinality(T) <= Cardinality(S) /\ (Cardinality(S) = Cardinality(T) => S = T)
  BY <1>2, FS_Subset
<1>6. QED BY <1>4, <1>5

Late == InFlight \ probing

(* A step that leaves the failures alone and lets nobody in adds no late    *)
(* request.                                                                 *)
LEMMA NoMoreLate ==
  ASSUME Inv, Inv', FailuresBounded,
         circuit'.failures = circuit.failures, Late' \subseteq Late
  PROVE  FailuresBounded'
<1>1. Late \in SUBSET Clients /\ Late' \in SUBSET Late
  BY DEF Late, InFlight
<1>2. /\ Cardinality(Late) \in Nat /\ Cardinality(Late') \in Nat
      /\ Cardinality(Clients) \in Nat
      /\ Cardinality(Late') <= Cardinality(Late)
  BY <1>1, SetsOfClients
<1>3. circuit.failures \in Nat /\ Threshold \in Nat
  BY ThresholdAssumption DEF Inv, TypeOK, CircuitState
<1>4. circuit.failures + Cardinality(Late) < Threshold + Cardinality(Clients)
  BY DEF FailuresBounded, Late
<1>5. circuit'.failures + Cardinality(Late') < Threshold + Cardinality(Clients)
  BY <1>2, <1>3, <1>4
<1>6. QED BY <1>5 DEF FailuresBounded, Late

(* While the circuit is closed the threshold leaves room for every client.  *)
LEMMA ClosedIsBounded ==
  ASSUME Inv, circuit.state = "closed"
  PROVE  FailuresBounded
<1>1. Late \in SUBSET Clients
  BY DEF Late, InFlight
<1>2. /\ Cardinality(Late) \in Nat /\ Cardinality(Clients) \in Nat
      /\ Cardinality(Late) <= Cardinality(Clients)
  BY <1>1, SetsOfClients
<1>3. circuit.failures \in Nat /\ circuit.failures < Threshold /\ Threshold \in Nat
  BY ThresholdAssumption DEF Inv, TypeOK, CircuitState, Shape, CircuitShape
<1>4. circuit.failures + Cardinality(Late) < Threshold + Cardinality(Clients)
  BY <1>2, <1>3
<1>5. QED BY <1>4 DEF FailuresBounded, Late

LEMMA NextClosedIsBounded ==
  ASSUME Inv', circuit'.state = "closed"
  PROVE  FailuresBounded'
<1>1. Late' \in SUBSET Clients
  BY DEF Late, InFlight
<1>2. /\ Cardinality(Late') \in Nat /\ Cardinality(Clients) \in Nat
      /\ Cardinality(Late') <= Cardinality(Clients)
  BY <1>1, SetsOfClients
<1>3. circuit'.failures \in Nat /\ circuit'.failures < Threshold /\ Threshold \in Nat
  BY ThresholdAssumption DEF Inv, TypeOK, CircuitState, Shape, CircuitShape
<1>4. circuit'.failures + Cardinality(Late') < Threshold + Cardinality(Clients)
  BY <1>2, <1>3
<1>5. QED BY <1>4 DEF FailuresBounded, Late

(* A failure recorded: the one that opens or reopens the circuit is in      *)
(* flight no more, and one recorded while open was a late one.              *)
LEMMA FailBounded ==
  ASSUME Inv, Inv', FailuresBounded, NEW c \in Clients, Fail(c)
  PROVE  FailuresBounded'
<1>1. /\ c \in InFlight /\ InFlight' = InFlight \ {c}
      /\ probing' = {} /\ circuit' = RecordFailure(circuit)
  BY DEF Fail, InFlight, Inv, TypeOK
<1>2. Late' = InFlight \ {c} /\ InFlight \in SUBSET Clients
  BY <1>1 DEF Late, InFlight
<1>3. circuit \in CircuitState /\ Threshold \in Nat
  BY ThresholdAssumption DEF Inv, TypeOK
<1>4. CASE circuit' = Opened
  <2>1. circuit'.failures = Threshold
    BY <1>4 DEF Opened
  <2>2. Late' \in SUBSET Clients /\ Late' # Clients
    BY <1>2
  <2>3. /\ Cardinality(Late') \in Nat /\ Cardinality(Clients) \in Nat
        /\ Cardinality(Late') < Cardinality(Clients)
    BY <2>2, SetsOfClients
  <2>4. circuit'.failures + Cardinality(Late') < Threshold + Cardinality(Clients)
    BY <2>1, <2>3, <1>3
  <2>5. QED BY <2>4 DEF FailuresBounded, Late
<1>5. CASE circuit' # Opened
  <2>1. /\ circuit.state # "half_open"
        /\ circuit' = [circuit EXCEPT !.failures = @ + 1, !.probe = FALSE]
    BY <1>1, <1>5, Zenon DEF RecordFailure
  <2>2. circuit'.state = circuit.state /\ circuit'.failures = circuit.failures + 1
    BY <2>1, <1>3, CountedFailure
  <2>3. CASE circuit.state = "closed"
    BY <2>2, <2>3, NextClosedIsBounded
  <2>4. CASE circuit.state # "closed"
    <3>1. probing = {}
      BY <2>1 DEF Inv, OneProber
    <3>2. Late = InFlight
      BY <3>1 DEF Late
    <3>3. Late' \in SUBSET Late /\ Late # Late' /\ Late \in SUBSET Clients
      BY <1>1, <1>2, <3>2
    <3>4. /\ Cardinality(Late) \in Nat /\ Cardinality(Late') \in Nat
          /\ Cardinality(Clients) \in Nat
          /\ Cardinality(Late') < Cardinality(Late)
      BY <3>3, SetsOfClients
    <3>5. circuit.failures + Cardinality(Late) < Threshold + Cardinality(Clients)
      BY DEF FailuresBounded, Late
    <3>6. circuit.failures \in Nat
      BY <1>3 DEF CircuitState
    <3>7. circuit'.failures + Cardinality(Late') < Threshold + Cardinality(Clients)
      BY <2>2, <3>4, <3>5, <3>6, <1>3
    <3>8. QED BY <3>7 DEF FailuresBounded, Late
  <2>5. QED BY <2>3, <2>4
<1>6. QED BY <1>4, <1>5

LEMMA NextBounded == Inv /\ Inv' /\ FailuresBounded /\ [Next]_vars => FailuresBounded'
<1> SUFFICES ASSUME Inv, Inv', FailuresBounded, [Next]_vars
             PROVE  FailuresBounded'
  OBVIOUS
<1>1. ASSUME NEW c \in Clients, Admit(c) PROVE FailuresBounded'
  <2>1. CASE circuit.state = "closed"
    <3>1. circuit' = circuit
      BY <1>1, <2>1 DEF Admit, Allow
    <3>2. QED BY <2>1, <3>1, NextClosedIsBounded
  <2>2. CASE circuit.state # "closed"
    <3>1. circuit' = [circuit EXCEPT !.state = "half_open", !.cooled = FALSE, !.probe = TRUE]
      BY <1>1, <2>2, Zenon DEF Admit, Allow
    <3>2. circuit'.failures = circuit.failures
      BY <3>1 DEF Inv, TypeOK, CircuitState
    <3>3. InFlight' = InFlight \cup {c} /\ probing' = probing \cup {c}
      BY <1>1, <2>2 DEF Admit, InFlight, Inv, TypeOK
    <3>4. Late' \subseteq Late
      BY <3>3 DEF Late
    <3>5. QED BY <3>2, <3>4, NoMoreLate
  <2>3. QED BY <2>1, <2>2
<1>2. ASSUME NEW c \in Clients, TokenRefused(c) \/ AnsweredLocally(c) \/ Disconnect(c)
      PROVE  FailuresBounded'
  <2>1. InFlight' \subseteq InFlight /\ probing' = probing /\ circuit' = circuit
    BY <1>2 DEF TokenRefused, AnsweredLocally, Disconnect, Leave, InFlight, Inv, TypeOK
  <2>2. Late' \subseteq Late
    BY <2>1 DEF Late
  <2>3. QED BY <2>1, <2>2, NoMoreLate
<1>3. ASSUME NEW c \in Clients, TokenFound(c) \/ Send(c) PROVE FailuresBounded'
  <2>1. InFlight' \subseteq InFlight /\ probing' = probing /\ circuit' = circuit
    BY <1>3 DEF TokenFound, Send, InFlight, Inv, TypeOK
  <2>2. Late' \subseteq Late
    BY <2>1 DEF Late
  <2>3. QED BY <2>1, <2>2, NoMoreLate
<1>4. ASSUME NEW c \in Clients, Succeed(c) PROVE FailuresBounded'
  BY <1>4, NextClosedIsBounded DEF Succeed, RecordSuccess, Closed
<1>5. ASSUME NEW c \in Clients, Fail(c) PROVE FailuresBounded'
  BY <1>5, FailBounded
<1>6. CASE Cool
  <2>1. circuit'.failures = circuit.failures
    BY <1>6 DEF Cool, CoolDown, Inv, TypeOK, CircuitState
  <2>2. Late' = Late
    BY <1>6 DEF Cool, Late, InFlight
  <2>3. QED BY <2>1, <2>2, NoMoreLate
<1>7. CASE Restart
  BY <1>7, NextClosedIsBounded DEF Restart, Closed
<1>8. CASE UNCHANGED vars
  BY <1>8 DEF vars, FailuresBounded, InFlight
<1>9. QED BY <1>1, <1>2, <1>3, <1>4, <1>5, <1>6, <1>7, <1>8 DEF Next, Progress

(* However late the failures of requests let in before the circuit opened   *)
(* arrive, they raise its counter by less than there are clients.           *)
THEOREM LateFailuresBounded == Spec => []FailuresBounded
<1>1. Init => FailuresBounded
  BY InitInv, ClosedIsBounded DEF Init, Closed
<1>2. QED BY <1>1, NextBounded, Invariance, PTL DEF Spec
=============================================================================
