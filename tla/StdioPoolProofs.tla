-------------------------- MODULE StdioPoolProofs --------------------------
(***************************************************************************)
(* Theorems about StdioPool, for any callers, slots, children and limits.  *)
(***************************************************************************)
EXTENDS StdioPool, FiniteSetTheorems, TLAPS

PcSet == {"idle", "ensure", "row", "find", "lock", "start", "init", "ready", "permit",
          "call", "note", "strike", "halt", "reset", "replace", "drop"}
Local == [pc : PcSet, op : {"none", "request", "list", "restart", "delete"},
          slot : Slots \cup {None}, child : Children \cup {None},
          permit : Slots \cup {None}, tries : 0..MaxStrikes]
SlotState == [client : Children \cup {None}, strikes : 0..MaxStrikes, closed : BOOLEAN]

(* Where a caller's pointers point, by its place in the code. *)
PointsRight(r) ==
  /\ r.pc \in {"lock", "permit", "halt", "strike"} \cup Starting => r.slot \in Slots
  /\ r.pc \in {"init", "ready", "permit", "call"} => r.child \in Children
Fine(r) == r \in Local /\ PointsRight(r)
AllFine == at \in [Callers -> Local] /\ \A c \in Callers : PointsRight(at[c])

(* The breaker's methods stay within the type of a circuit. *)
LEMMA CircuitTypes ==
  ASSUME NEW x \in CircuitState
  PROVE  /\ Allow(x) \in CircuitState /\ Reset(x) \in CircuitState
         /\ ForceOpen(x) \in CircuitState /\ CoolDown(x) \in CircuitState
BY ThresholdAssumption DEF CircuitState, Allow, Reset, ForceOpen, CoolDown, Closed, Opened

LEMMA StruckType ==
  ASSUME NEW p \in SlotState
  PROVE  /\ Struck(p) \in SlotState
         /\ Struck(p).client = p.client /\ Struck(p).closed = p.closed
         /\ [p EXCEPT !.client = None] \in SlotState
BY PoolAssumption DEF SlotState, Struck

LEMMA LocalTypes ==
  /\ NewSlot \in SlotState /\ NewSlot.client = None /\ ~NewSlot.closed
  /\ Home \in Local
  /\ \A o \in {"request", "list", "restart"} : ToEnsure(o) \in Local
<1>1. NewSlot \in SlotState /\ NewSlot.client = None /\ ~NewSlot.closed
  BY PoolAssumption DEF NewSlot, SlotState
<1>2. Home \in Local
  BY PoolAssumption DEF Home, Local, PcSet
<1>3. ASSUME NEW o \in {"request", "list", "restart"}
      PROVE  ToEnsure(o) \in Local
  BY <1>2 DEF ToEnsure, Local, PcSet
<1> QED
  BY <1>1, <1>2, <1>3

LEMMA FineHome ==
  Fine(Home) /\ \A o \in {"request", "list", "restart"} : Fine(ToEnsure(o))
<1>1. Home.pc = "idle" /\ \A o \in {"request", "list", "restart"} : ToEnsure(o).pc = "ensure"
  BY DEF Home, ToEnsure
<1> QED
  BY <1>1, LocalTypes DEF Fine, PointsRight, Starting

(* A step of one caller that leaves its locals fine leaves everybody's fine. *)
LEMMA OneCaller ==
  ASSUME AllFine, NEW c \in Callers, NEW r, Fine(r), at' = [at EXCEPT ![c] = r]
  PROVE  AllFine'
BY DEF AllFine, Fine

(* Over leaves the caller with no pointer and outside of startLocked. *)
LEMMA OverFine ==
  ASSUME AllFine, NEW c \in Callers, Over(c)
  PROVE  /\ AllFine'
         /\ at' = [at EXCEPT ![c] = at'[c]]
         /\ at'[c] \in {Home, ToEnsure("request")}
<1> DEFINE r == IF at[c].op = "request" THEN ToEnsure("request") ELSE Home
<1>1. at' = [at EXCEPT ![c] = r]
  BY DEF Over
<1>2. Fine(r) /\ r \in {Home, ToEnsure("request")}
  BY FineHome
<1>3. AllFine'
  BY <1>1, <1>2, OneCaller
<1>4. at'[c] = r
  BY <1>1 DEF AllFine
<1> QED
  BY <1>1, <1>2, <1>3, <1>4

(* So does moving to a place that needs no more than the caller has. *)
LEMMA MoveFine ==
  ASSUME AllFine, NEW c \in Callers, NEW p \in PcSet, NEW s \in Slots \cup {None},
         at' = [at EXCEPT ![c] = [at[c] EXCEPT !.pc = p, !.slot = s]],
         p \in {"lock", "permit", "halt", "strike"} \cup Starting => s \in Slots,
         p \in {"init", "ready", "permit", "call"} => at[c].child \in Children
  PROVE  AllFine'
<1> DEFINE r == [at[c] EXCEPT !.pc = p, !.slot = s]
<1>1. r \in Local /\ r.pc = p /\ r.slot = s /\ r.child = at[c].child
  BY DEF AllFine, Local
<1>2. Fine(r)
  BY <1>1 DEF Fine, PointsRight
<1> QED
  BY <1>2, OneCaller

LEMMA GotoFine ==
  ASSUME AllFine, NEW c \in Callers, NEW p \in PcSet, Goto(c, p),
         p \in {"lock", "permit", "halt", "strike"} \cup Starting => at[c].slot \in Slots,
         p \in {"init", "ready", "permit", "call"} => at[c].child \in Children
  PROVE  AllFine' /\ at' = [at EXCEPT ![c] = [at[c] EXCEPT !.pc = p]]
<1> DEFINE r == [at[c] EXCEPT !.pc = p]
<1>1. r \in Local /\ r.pc = p /\ r.slot = at[c].slot /\ r.child = at[c].child
  BY DEF AllFine, Local
<1>2. Fine(r)
  BY <1>1 DEF Fine, PointsRight
<1>3. at' = [at EXCEPT ![c] = r]
  BY DEF Goto, AllFine
<1> QED
  BY <1>2, <1>3, OneCaller

LEMMA ReturnFine ==
  ASSUME AllFine, NEW c \in Callers, NEW k \in Children, Return(c, k)
  PROVE  /\ AllFine'
         /\ at'[c] \in {ToEnsure("list")} \cup
              {[Home EXCEPT !.pc = "ready", !.op = at[c].op, !.child = k]}
         /\ at' = [at EXCEPT ![c] = at'[c]]
<1> DEFINE q == [Home EXCEPT !.pc = "ready", !.op = at[c].op, !.child = k]
<1> DEFINE r == IF at[c].op = "restart" THEN ToEnsure("list") ELSE q
<1>1. at' = [at EXCEPT ![c] = r]
  BY DEF Return, AllFine
<1>2. Fine(q)
  <2>0. at[c].op \in {"none", "request", "list", "restart", "delete"}
    BY DEF AllFine, Local
  <2>1. q \in Local
    BY <2>0, LocalTypes DEF Local, PcSet
  <2>2. q.pc = "ready" /\ q.child = k
    BY LocalTypes DEF Home
  <2> QED
    BY <2>1, <2>2 DEF Fine, PointsRight, Starting
<1>3. Fine(r)
  BY <1>2, FineHome
<1>4. at'[c] = r
  BY <1>1 DEF AllFine
<1> QED
  BY <1>1, <1>3, <1>4, OneCaller

LEMMA FailedFine ==
  ASSUME AllFine, NEW c \in Callers, at[c].pc \in Starting, AttemptFailed(c)
  PROVE  /\ AllFine'
         /\ at' = [at EXCEPT ![c] = at'[c]]
         /\ \/ at'[c] \in {Home, ToEnsure("request")}
            \/ at'[c].pc = "start" /\ at'[c].slot = at[c].slot
<1> DEFINE r == [at[c] EXCEPT !.pc = "start", !.child = None,
                           !.tries = at[c].tries + 1]
<1>1. CASE at[c].tries < MaxStrikes
  <2>1. at' = [at EXCEPT ![c] = r]
    BY <1>1 DEF AttemptFailed, AllFine
  <2>2. at[c] \in Local /\ at[c].slot \in Slots
    BY DEF AllFine, PointsRight
  <2>3. at[c].tries + 1 \in 0..MaxStrikes
    BY <1>1, <2>2, PoolAssumption DEF Local
  <2>4. r \in Local /\ r.pc = "start" /\ r.slot = at[c].slot
    BY <2>2, <2>3 DEF Local, PcSet
  <2>5. Fine(r)
    BY <2>2, <2>4 DEF Fine, PointsRight
  <2>6. at'[c] = r
    BY <2>1 DEF AllFine
  <2> QED
    BY <2>1, <2>4, <2>5, <2>6, OneCaller
<1>2. CASE ~(at[c].tries < MaxStrikes)
  BY <1>2, OverFine DEF AttemptFailed
<1> QED
  BY <1>1, <1>2

(* Every action leaves the locals of its caller fine. *)
LEMMA EnsureFine ==
  ASSUME TypeOK, AllFine, NEW c \in Callers, Ensure(c)
  PROVE  AllFine'
<1>1. CASE EnsureAllow(c)
  BY <1>1, GotoFine DEF EnsureAllow, PcSet, Starting
<1>2. CASE EnsureRefused(c)
  BY <1>2, OverFine DEF EnsureRefused
<1>3. CASE RowFound(c)
  BY <1>3, GotoFine DEF RowFound, PcSet, Starting
<1>4. CASE RowRefused(c)
  BY <1>4, OverFine DEF RowRefused
<1>5. CASE FindSlot(c)
  <2>1. current' \in Slots
    BY <1>5 DEF FindSlot, FreshSlots, TypeOK
  <2>2. at' = [at EXCEPT ![c] = [at[c] EXCEPT !.pc = "lock", !.slot = current']]
    BY <1>5 DEF FindSlot, AllFine
  <2> QED
    BY <2>1, <2>2, MoveFine DEF PcSet
<1>6. CASE Reuse(c)
  <2>1. at[c].slot \in Slots
    BY <1>6 DEF Reuse, AllFine, PointsRight
  <2>2. slots[at[c].slot].client \in Children
    BY <1>6, <2>1 DEF Reuse, TypeOK
  <2> QED
    BY <1>6, <2>2, ReturnFine DEF Reuse
<1>7. CASE Start(c)
  <2>1. at[c].slot \in Slots
    BY <1>7 DEF Start, AllFine, PointsRight
  <2> QED
    BY <1>7, <2>1, OverFine, GotoFine DEF Start, PcSet
<1>8. CASE Spawn(c)
  <2>1. PICK k \in Children : at' = [at EXCEPT ![c].pc = "init", ![c].child = k]
    BY <1>8 DEF Spawn, FreshChildren
  <2> DEFINE r == [at[c] EXCEPT !.pc = "init", !.child = k]
  <2>2. at' = [at EXCEPT ![c] = r]
    BY <2>1 DEF AllFine
  <2>3. at[c].slot \in Slots
    BY <1>8 DEF Spawn, AllFine, PointsRight, Starting
  <2>4. r \in Local /\ r.pc = "init" /\ r.slot = at[c].slot /\ r.child = k
    BY DEF AllFine, Local, PcSet
  <2>5. Fine(r)
    BY <2>3, <2>4 DEF Fine, PointsRight
  <2> QED
    BY <2>2, <2>5, OneCaller
<1>9. CASE SpawnFails(c)
  BY <1>9, FailedFine DEF SpawnFails, Starting
<1>10. CASE Initialize(c)
  <2>1. at[c].child \in Children
    BY <1>10 DEF Initialize, AllFine, PointsRight
  <2> QED
    BY <1>10, <2>1, ReturnFine DEF Initialize
<1>11. CASE InitializeFails(c)
  BY <1>11, FailedFine DEF InitializeFails, Starting
<1> QED
  BY <1>1, <1>2, <1>3, <1>4, <1>5, <1>6, <1>7, <1>8, <1>9, <1>10, <1>11 DEF Ensure

LEMMA UseFine ==
  ASSUME TypeOK, AllFine, NEW c \in Callers, Use(c)
  PROVE  AllFine'
<1>1. CASE Arrive(c)
  BY <1>1, FineHome, OneCaller DEF Arrive
<1>2. CASE Leave(c)
  BY <1>2, FineHome, OneCaller DEF Leave
<1>3. CASE Answered(c) \/ Busy(c)
  BY <1>3, OverFine DEF Answered, Busy
<1>4. CASE LookAgain(c)
  <2>1. CASE current = None
    BY <1>4, <2>1, OverFine DEF LookAgain
  <2>2. CASE current # None
    <3>1. at' = [at EXCEPT ![c] = [at[c] EXCEPT !.pc = "permit", !.slot = current]]
      BY <1>4, <2>2 DEF LookAgain, AllFine
    <3>2. current \in Slots /\ at[c].child \in Children
      BY <1>4, <2>2 DEF LookAgain, TypeOK, AllFine, PointsRight
    <3> QED
      BY <3>1, <3>2, MoveFine DEF PcSet
  <2> QED
    BY <2>1, <2>2
<1>5. CASE TakePermit(c)
  <2> DEFINE r == [at[c] EXCEPT !.pc = "call", !.permit = at[c].slot, !.slot = None]
  <2>1. at' = [at EXCEPT ![c] = r]
    BY <1>5 DEF TakePermit, AllFine
  <2>2. at[c] \in Local /\ at[c].child \in Children
    BY <1>5 DEF TakePermit, AllFine, PointsRight
  <2>3. r \in Local /\ r.pc = "call" /\ r.child = at[c].child
    BY <2>2 DEF Local, PcSet
  <2>4. Fine(r)
    BY <2>2, <2>3 DEF Fine, PointsRight, Starting
  <2> QED
    BY <2>1, <2>4, OneCaller
<1>6. CASE CallFails(c)
  BY <1>6, GotoFine DEF CallFails, PcSet, Starting
<1>7. CASE NoteLook(c)
  <2>1. CASE current = None
    BY <1>7, <2>1, OverFine DEF NoteLook
  <2>2. CASE current # None
    <3>1. at' = [at EXCEPT ![c] = [at[c] EXCEPT !.pc = "strike", !.slot = current]]
      BY <1>7, <2>2 DEF NoteLook, AllFine
    <3>2. current \in Slots
      BY <2>2 DEF TypeOK
    <3> QED
      BY <3>1, <3>2, MoveFine DEF PcSet
  <2> QED
    BY <2>1, <2>2
<1>8. CASE NoteStrike(c)
  BY <1>8, OverFine DEF NoteStrike
<1> QED
  BY <1>1, <1>2, <1>3, <1>4, <1>5, <1>6, <1>7, <1>8 DEF Use

LEMMA ManageFine ==
  ASSUME TypeOK, AllFine, NEW c \in Callers, Manage(c)
  PROVE  AllFine'
<1>1. ASSUME NEW o \in {"restart", "delete"}, BeginStop(c, o)
      PROVE  AllFine'
  <2> DEFINE r == [Home EXCEPT !.pc = IF current = None THEN AfterStop(o) ELSE "halt",
                               !.op = o, !.slot = current]
  <2>1. AfterStop(o) \in {"reset", "drop"}
    BY DEF AfterStop
  <2>2. r \in Local
    <3>1. current \in Slots \cup {None}
      BY DEF TypeOK
    <3>2. (IF current = None THEN AfterStop(o) ELSE "halt") \in PcSet
      BY <2>1 DEF PcSet
    <3> QED
      BY <3>1, <3>2, LocalTypes DEF Local
  <2>3. r.slot = current /\ r.pc = IF current = None THEN AfterStop(o) ELSE "halt"
    BY LocalTypes DEF Home
  <2>4. Fine(r)
    BY <2>1, <2>2, <2>3 DEF Fine, PointsRight, Starting, TypeOK
  <2> QED
    BY <1>1, <2>4, OneCaller DEF BeginStop
<1>2. CASE Halt(c)
  <2>1. AfterStop(at[c].op) \in {"reset", "drop"}
    BY DEF AfterStop
  <2>2. at' = [at EXCEPT ![c] = [at[c] EXCEPT !.pc = AfterStop(at[c].op), !.slot = None]]
    BY <1>2 DEF Halt, AllFine
  <2> QED
    BY <2>1, <2>2, MoveFine DEF PcSet, Starting
<1>3. CASE ResetCircuit(c)
  BY <1>3, GotoFine DEF ResetCircuit, PcSet, Starting
<1>4. CASE Replace(c)
  BY <1>4, FineHome, OneCaller DEF Replace
<1>5. CASE DropRow(c)
  BY <1>5, FineHome, OneCaller DEF DropRow
<1> QED
  BY <1>1, <1>2, <1>3, <1>4, <1>5 DEF Manage

(* The variables beside the locals keep their types. *)
LEMMA SlotsTyped ==
  ASSUME TypeOK, AllFine, Next
  PROVE  slots' \in [Slots -> SlotState]
<1> slots \in [Slots -> SlotState]
  BY DEF TypeOK, SlotState
<1>1. ASSUME NEW c \in Callers, AttemptFailed(c), at[c].pc \in Starting
      PROVE  slots' \in [Slots -> SlotState]
  BY <1>1, StruckType DEF AttemptFailed, AllFine, PointsRight
<1>2. ASSUME NEW c \in Callers, Initialize(c)
      PROVE  slots' \in [Slots -> SlotState]
  <2>1. at[c].slot \in Slots /\ at[c].child \in Children
    BY <1>2 DEF Initialize, AllFine, PointsRight, Starting
  <2>2. [slots[at[c].slot] EXCEPT !.client = at[c].child] \in SlotState
    BY <2>1 DEF SlotState
  <2>3. slots' = [slots EXCEPT ![at[c].slot] =
                    [slots[at[c].slot] EXCEPT !.client = at[c].child]]
    BY <1>2, <2>1 DEF Initialize
  <2> QED
    BY <2>2, <2>3
<1>3. ASSUME NEW c \in Callers, NoteStrike(c)
      PROVE  slots' \in [Slots -> SlotState]
  BY <1>3, StruckType DEF NoteStrike, AllFine, PointsRight
<1>4. ASSUME NEW c \in Callers, Halt(c)
      PROVE  slots' \in [Slots -> SlotState]
  <2>1. [slots[at[c].slot] EXCEPT !.client = None, !.closed = TRUE] \in SlotState
    BY <1>4 DEF Halt, AllFine, PointsRight, SlotState
  <2> QED
    BY <1>4, <2>1 DEF Halt
<1>5. ASSUME NEW c \in Callers, FindSlot(c) \/ Replace(c)
      PROVE  slots' \in [Slots -> SlotState]
  BY <1>5, LocalTypes DEF FindSlot, Replace
<1>6. ASSUME NEW c \in Callers, Ensure(c)
      PROVE  slots' \in [Slots -> SlotState]
  BY <1>1, <1>2, <1>5, <1>6 DEF Ensure, EnsureAllow, EnsureRefused, RowFound, RowRefused,
     Reuse, Start, Spawn, SpawnFails, InitializeFails, Starting
<1>7. ASSUME NEW c \in Callers, Use(c)
      PROVE  slots' \in [Slots -> SlotState]
  BY <1>3, <1>7 DEF Use, Arrive, Leave, Answered, LookAgain, TakePermit, Busy, CallFails,
     NoteLook
<1>8. ASSUME NEW c \in Callers, Manage(c)
      PROVE  slots' \in [Slots -> SlotState]
  BY <1>4, <1>5, <1>8 DEF Manage, BeginStop, ResetCircuit, DropRow
<1> QED
  BY <1>6, <1>7, <1>8 DEF Next, Crash, Cool

(* What a step does to the circuit is one of the breaker's methods. *)
LEMMA CircuitMoves ==
  ASSUME Next
  PROVE  \/ circuit' \in {circuit, Reset(circuit), ForceOpen(circuit)}
         \/ Allows(circuit) /\ circuit' = Allow(circuit)
         \/ circuit.state = "open" /\ circuit' = CoolDown(circuit)
<1>1. ASSUME NEW c \in Callers, Ensure(c)
      PROVE  \/ circuit' \in {circuit, Reset(circuit), ForceOpen(circuit)}
             \/ Allows(circuit) /\ circuit' = Allow(circuit)
  BY <1>1 DEF Ensure, EnsureAllow, EnsureRefused, RowFound, RowRefused, FindSlot, Reuse,
     Start, Spawn, SpawnFails, Initialize, InitializeFails, AttemptFailed
<1>2. ASSUME NEW c \in Callers, Use(c)
      PROVE  \/ circuit' \in {circuit, Reset(circuit), ForceOpen(circuit)}
             \/ Allows(circuit) /\ circuit' = Allow(circuit)
  BY <1>2 DEF Use, Arrive, Leave, Answered, LookAgain, TakePermit, Busy, CallFails,
     NoteLook, NoteStrike
<1>3. ASSUME NEW c \in Callers, Manage(c)
      PROVE  circuit' \in {circuit, Reset(circuit)}
  BY <1>3 DEF Manage, BeginStop, Halt, ResetCircuit, Replace, DropRow
<1> QED
  BY <1>1, <1>2, <1>3 DEF Next, Crash, Cool

LEMMA OthersTyped ==
  ASSUME TypeOK, AllFine, Next
  PROVE  /\ current' \in Slots \cup {None}
         /\ alive' \subseteq Children
         /\ exists' \in BOOLEAN
<1>1. ASSUME NEW c \in Callers, Ensure(c)
      PROVE  current' \in Slots \cup {None} /\ alive' \subseteq Children /\ exists' = exists
  BY <1>1 DEF Ensure, EnsureAllow, EnsureRefused, RowFound, RowRefused, FindSlot, Reuse,
     Start, Spawn, SpawnFails, Initialize, InitializeFails, FreshSlots, FreshChildren, TypeOK
<1>2. ASSUME NEW c \in Callers, Use(c)
      PROVE  current' = current /\ alive' \subseteq Children /\ exists' = exists
  BY <1>2 DEF Use, Arrive, Leave, Answered, LookAgain, TakePermit, Busy, CallFails,
     NoteLook, NoteStrike, TypeOK
<1>3. ASSUME NEW c \in Callers, Manage(c)
      PROVE  /\ current' \in Slots \cup {None} /\ alive' \subseteq Children
             /\ exists' \in {exists, FALSE}
  BY <1>3 DEF Manage, BeginStop, Halt, ResetCircuit, Replace, DropRow, FreshSlots, TypeOK
<1>4. exists \in BOOLEAN
  BY DEF TypeOK
<1> QED
  BY <1>1, <1>2, <1>3, <1>4 DEF Next, Crash, Cool, TypeOK

LEMMA TypeStep ==
  ASSUME TypeOK, AllFine, [Next]_vars
  PROVE  TypeOK' /\ AllFine'
<1>1. CASE Next
  <2>1. AllFine'
    BY <1>1, EnsureFine, UseFine, ManageFine DEF Next, Crash, Cool, AllFine, PointsRight
  <2>2. circuit' \in CircuitState
    BY <1>1, CircuitMoves, CircuitTypes DEF TypeOK
  <2> QED
    BY <1>1, <2>1, <2>2, SlotsTyped, OthersTyped DEF TypeOK, AllFine, Local, PcSet, SlotState
<1>2. CASE UNCHANGED vars
  BY <1>2 DEF vars, TypeOK, AllFine, PointsRight
<1> QED
  BY <1>1, <1>2

LEMMA TypeInit ==
  ASSUME Init
  PROVE  TypeOK /\ AllFine
<1>1. Closed \in CircuitState
  BY DEF Closed, CircuitState
<1>2. AllFine
  BY FineHome DEF Init, AllFine, Fine
<1>3. slots \in [Slots -> SlotState]
  BY LocalTypes DEF Init
<1> QED
  BY <1>1, <1>2, <1>3 DEF Init, TypeOK, AllFine, Local, PcSet, SlotState

(* Every variable keeps its type, and every pointer a caller uses is set. *)
THEOREM TypeCorrect == Spec => [](TypeOK /\ AllFine)
<1>1. Init => TypeOK /\ AllFine
  BY TypeInit
<1>2. TypeOK /\ AllFine /\ [Next]_vars => TypeOK' /\ AllFine'
  BY TypeStep
<1> QED
  BY <1>1, <1>2, PTL DEF Spec
----------------------------------------------------------------------------
(* The circuit. *)

LEMMA ShapeKept ==
  ASSUME NEW x, CircuitShape(x)
  PROVE  /\ CircuitShape(Reset(x)) /\ CircuitShape(ForceOpen(x))
         /\ Allows(x) => CircuitShape(Allow(x))
         /\ x.state = "open" => CircuitShape(CoolDown(x))
<1> x \in CircuitState
  BY DEF CircuitShape
<1>1. CircuitShape(Reset(x))
  BY ThresholdAssumption DEF CircuitShape, CircuitState, Reset, Closed
<1>2. CircuitShape(ForceOpen(x))
  BY ThresholdAssumption DEF CircuitShape, CircuitState, ForceOpen, Opened
<1>3. ASSUME Allows(x)
      PROVE  CircuitShape(Allow(x))
  <2>1. CASE x.state = "closed"
    BY <2>1 DEF Allow
  <2>2. CASE x.state # "closed"
    BY <2>2 DEF Allow, CircuitShape, CircuitState
  <2> QED
    BY <2>1, <2>2
<1>4. ASSUME x.state = "open"
      PROVE  CircuitShape(CoolDown(x))
  BY <1>4 DEF CoolDown, CircuitShape, CircuitState
<1> QED
  BY <1>1, <1>2, <1>3, <1>4

(* Nothing the manager or the proxy does at an unforeseen moment breaks the  *)
(* breaker's own invariant.                                                *)
THEOREM SharedBreakerKeepsShape == Spec => []Shape
<1>1. Init => Shape
  BY ThresholdAssumption DEF Init, Shape, CircuitShape, CircuitState, Closed
<1>2. ASSUME Shape, [Next]_vars
      PROVE  Shape'
  <2>1. CASE Next
    BY <1>2, <2>1, CircuitMoves, ShapeKept DEF Shape
  <2>2. CASE UNCHANGED vars
    BY <1>2, <2>2 DEF vars, Shape
  <2> QED
    BY <1>2, <2>1, <2>2
<1> QED
  BY <1>1, <1>2, PTL DEF Spec
----------------------------------------------------------------------------
(* Who owns a child.  A slot that is being started in has no client, was not *)
(* stopped, and has one starter: that is what the slot's mutex is for.     *)

Locking ==
  /\ \A c \in Callers : at[c].pc \in Starting =>
       slots[at[c].slot].client = None /\ ~slots[at[c].slot].closed
  /\ \A c, d \in Callers : c # d /\ at[c].pc \in Starting /\ at[d].pc \in Starting
       => at[c].slot # at[d].slot

Owned == TypeOK /\ AllFine /\ NoStray /\ Locking

(* c moves, and neither comes from nor goes to startLocked. *)
Elsewhere(c) ==
  /\ at' = [at EXCEPT ![c] = at'[c]]
  /\ at[c].pc \notin Starting /\ at'[c].pc \notin Starting

LEMMA OverElsewhere ==
  ASSUME AllFine, NEW c \in Callers, Over(c), at[c].pc \notin Starting
  PROVE  Elsewhere(c)
<1>1. Home.pc = "idle" /\ ToEnsure("request").pc = "ensure"
  BY DEF Home, ToEnsure
<1> QED
  BY <1>1, OverFine DEF Elsewhere, Starting

LEMMA GotoElsewhere ==
  ASSUME AllFine, NEW c \in Callers, NEW p, Goto(c, p), {p, at[c].pc} \cap Starting = {}
  PROVE  Elsewhere(c)
BY DEF Goto, Elsewhere, AllFine, Local

LEMMA ReturnElsewhere ==
  ASSUME AllFine, NEW c \in Callers, NEW k \in Children, Return(c, k)
  PROVE  at' = [at EXCEPT ![c] = at'[c]] /\ at'[c].pc \notin Starting
<1>1. /\ ToEnsure("list").pc = "ensure"
      /\ [Home EXCEPT !.pc = "ready", !.op = at[c].op, !.child = k].pc = "ready"
  BY LocalTypes DEF Home, ToEnsure
<1> QED
  BY <1>1, ReturnFine DEF Starting

LEMMA Quiet ==
  ASSUME AllFine, NoStray, Locking, NEW c \in Callers, Elsewhere(c),
         UNCHANGED <<slots, alive>>
  PROVE  NoStray' /\ Locking'
<1>1. \A d \in Callers : at'[d].pc \in Starting => d # c /\ at'[d] = at[d]
  BY DEF Elsewhere, AllFine
<1>2. \A d \in Callers : at[d].pc \in Starting => at'[d] = at[d]
  BY DEF Elsewhere, AllFine
<1>3. NoStray'
  BY <1>2 DEF NoStray, Starting
<1>4. Locking'
  BY <1>1 DEF Locking
<1> QED
  BY <1>3, <1>4

(* A slot that nobody is starting in loses its client, which is closed. *)
LEMMA ClientGone ==
  ASSUME Owned, NEW c \in Callers, Elsewhere(c),
         NEW s \in Slots, Unlocked(s), NEW p \in SlotState, p.client = None,
         slots' = [slots EXCEPT ![s] = p], alive' = alive \ {slots[s].client}
  PROVE  NoStray' /\ Locking'
<1>1. \A d \in Callers : at'[d].pc \in Starting => d # c /\ at'[d] = at[d]
  BY DEF Elsewhere, Owned, AllFine
<1>2. \A d \in Callers : at[d].pc \in Starting => at'[d] = at[d] /\ at[d].slot # s
  BY DEF Elsewhere, Owned, AllFine, Unlocked
<1>3. \A u \in Slots : slots'[u] = IF u = s THEN p ELSE slots[u]
  BY DEF Owned, TypeOK
<1>4. NoStray'
  BY <1>2, <1>3 DEF Owned, NoStray, Starting
<1>5. \A d \in Callers : at'[d].pc \in Starting => slots'[at'[d].slot] = slots[at[d].slot]
  BY <1>1, <1>2, <1>3 DEF Owned, AllFine, PointsRight
<1>6. Locking'
  BY <1>1, <1>5 DEF Owned, Locking
<1> QED
  BY <1>4, <1>6

LEMMA FreshUnlocked ==
  ASSUME NEW s \in FreshSlots
  PROVE  s \in Slots /\ Unlocked(s) /\ slots[s].client = None
BY DEF FreshSlots, Unlocked

LEMMA AttemptOwned ==
  ASSUME Owned, NEW c \in Callers, at[c].pc \in Starting, AttemptFailed(c),
         alive' = IF at[c].pc = "init" THEN alive \ {at[c].child} ELSE alive
  PROVE  NoStray' /\ Locking'
<1> DEFINE s == at[c].slot
<1>1. s \in Slots /\ slots[s].client = None /\ ~slots[s].closed
  BY DEF Owned, AllFine, PointsRight, Locking
<1>2. /\ \A u \in Slots : slots'[u].client = slots[u].client
      /\ \A u \in Slots : slots'[u].closed = slots[u].closed
  <2>1. \A u \in Slots : slots'[u] = IF u = s THEN Struck(slots[u]) ELSE slots[u]
    BY <1>1 DEF AttemptFailed, Owned, TypeOK
  <2>2. \A u \in Slots : slots[u] \in SlotState
    BY DEF Owned, TypeOK, SlotState
  <2> QED
    BY <2>1, <2>2, StruckType
<1>3. /\ at' = [at EXCEPT ![c] = at'[c]]
      /\ \/ at'[c].pc \notin Starting
         \/ at'[c].pc = "start" /\ at'[c].slot = s
  <2>1. Home.pc = "idle" /\ ToEnsure("request").pc = "ensure"
    BY DEF Home, ToEnsure
  <2> QED
    BY <2>1, FailedFine DEF Owned, Starting
<1>4. \A d \in Callers : d # c => at'[d] = at[d]
  BY <1>3 DEF Owned, AllFine
<1>5. NoStray'
  BY <1>2, <1>4 DEF Owned, NoStray, Starting
<1>6. \A d \in Callers : at'[d].pc \in Starting =>
        at[d].pc \in Starting /\ at'[d].slot = at[d].slot /\ at[d].slot \in Slots
  BY <1>3, <1>4 DEF Owned, AllFine, PointsRight
<1>7. Locking'
  BY <1>2, <1>6 DEF Owned, Locking
<1> QED
  BY <1>5, <1>7

LEMMA Places ==
  /\ Home.pc = "idle"
  /\ \A o : ToEnsure(o).pc = "ensure"
BY DEF Home, ToEnsure

LEMMA EnsureOwned ==
  ASSUME Owned, NEW c \in Callers, Ensure(c)
  PROVE  NoStray' /\ Locking'
<1> AllFine /\ NoStray /\ Locking /\ TypeOK
  BY DEF Owned
<1>1. CASE EnsureAllow(c) \/ RowFound(c)
  <2>1. Elsewhere(c)
    BY <1>1, GotoElsewhere DEF EnsureAllow, RowFound, Starting
  <2> QED
    BY <1>1, <2>1, Quiet DEF EnsureAllow, RowFound
<1>2. CASE EnsureRefused(c) \/ RowRefused(c)
  <2>1. Elsewhere(c)
    BY <1>2, OverElsewhere DEF EnsureRefused, RowRefused, Starting
  <2> QED
    BY <1>2, <2>1, Quiet DEF EnsureRefused, RowRefused
<1>3. CASE FindSlot(c)
  <2>1. Elsewhere(c)
    <3>1. at' = [at EXCEPT ![c] = [at[c] EXCEPT !.pc = "lock", !.slot = current']]
      BY <1>3 DEF FindSlot, AllFine
    <3>2. [at[c] EXCEPT !.pc = "lock", !.slot = current'].pc = "lock"
      BY DEF AllFine, Local
    <3> QED
      BY <1>3, <3>1, <3>2 DEF FindSlot, Elsewhere, AllFine, Starting
  <2>2. CASE current # None
    BY <1>3, <2>1, <2>2, Quiet DEF FindSlot
  <2>3. CASE current = None
    <3>1. current' \in FreshSlots /\ slots' = [slots EXCEPT ![current'] = NewSlot]
      BY <1>3, <2>3 DEF FindSlot
    <3>2. alive' = alive \ {slots[current'].client}
      BY <1>3, <3>1, FreshUnlocked, PoolAssumption DEF FindSlot, TypeOK
    <3> QED
      BY <2>1, <3>1, <3>2, FreshUnlocked, LocalTypes, ClientGone
  <2> QED
    BY <2>2, <2>3
<1>4. CASE Reuse(c)
  <2>1. slots[at[c].slot].client \in Children
    BY <1>4 DEF Reuse, AllFine, PointsRight, TypeOK
  <2>2. Elsewhere(c)
    BY <1>4, <2>1, ReturnElsewhere DEF Reuse, Elsewhere, Starting
  <2> QED
    BY <1>4, <2>2, Quiet DEF Reuse
<1>5. CASE Start(c)
  <2> DEFINE s == at[c].slot
  <2>1. CASE slots[s].closed
    BY <1>5, <2>1, OverElsewhere, Quiet DEF Start, Starting
  <2>2. CASE ~slots[s].closed
    <3>1. at' = [at EXCEPT ![c] = [at[c] EXCEPT !.pc = "start"]]
      BY <1>5, <2>2, GotoFine DEF Start, PcSet, AllFine, PointsRight, Goto
    <3>2. at'[c].pc = "start" /\ at'[c].slot = s
      BY <3>1 DEF AllFine, Local
    <3>3. \A d \in Callers : d # c => at'[d] = at[d]
      BY <3>1 DEF AllFine
    <3>4. NoStray'
      BY <1>5, <3>3 DEF Start, NoStray
    <3>5. Unlocked(s) /\ slots[s].client = None /\ slots' = slots
      BY <1>5 DEF Start
    <3>6. Locking'
      BY <2>2, <3>2, <3>3, <3>5 DEF Locking, Unlocked
    <3> QED
      BY <3>4, <3>6
  <2> QED
    BY <2>1, <2>2
<1>6. CASE Spawn(c)
  <2>1. PICK k \in FreshChildren :
           alive' = alive \cup {k} /\ at' = [at EXCEPT ![c].pc = "init", ![c].child = k]
    BY <1>6 DEF Spawn
  <2>2. at'[c].pc = "init" /\ at'[c].slot = at[c].slot /\ at'[c].child = k
    BY <2>1 DEF AllFine, Local
  <2>3. \A d \in Callers : d # c => at'[d] = at[d]
    BY <2>1 DEF AllFine
  <2>4. NoStray'
    <3>1. \A d \in Callers : at[d].pc = "init" => at'[d] = at[d]
      BY <1>6, <2>3 DEF Spawn
    <3>2. slots' = slots
      BY <1>6 DEF Spawn
    <3>3. ASSUME NEW x \in alive
          PROVE  \/ \E s \in Slots : slots'[s].client = x
                 \/ \E d \in Callers : at'[d].pc = "init" /\ at'[d].child = x
      BY <3>1, <3>2 DEF NoStray
    <3> QED
      BY <2>1, <2>2, <3>2, <3>3 DEF NoStray
  <2>5. Locking'
    <3>1. \A d \in Callers : at'[d].pc \in Starting =>
             at[d].pc \in Starting /\ at'[d].slot = at[d].slot
      BY <1>6, <2>2, <2>3 DEF Spawn, Starting
    <3>2. slots' = slots
      BY <1>6 DEF Spawn
    <3> QED
      BY <3>1, <3>2 DEF Locking
  <2> QED
    BY <2>4, <2>5
<1>7. CASE SpawnFails(c)
  BY <1>7, AttemptOwned DEF SpawnFails, Starting
<1>8. CASE InitializeFails(c)
  BY <1>8, AttemptOwned DEF InitializeFails, Starting
<1>9. CASE Initialize(c)
  <2> DEFINE s == at[c].slot
  <2>1. s \in Slots /\ at[c].child \in Children /\ slots[s].client = None /\ ~slots[s].closed
    BY <1>9 DEF Initialize, AllFine, PointsRight, Locking, Starting
  <2>2. /\ \A u \in Slots : slots'[u].client = IF u = s THEN at[c].child ELSE slots[u].client
        /\ \A u \in Slots : slots'[u].closed = slots[u].closed
    BY <1>9, <2>1 DEF Initialize, TypeOK
  <2>3. at' = [at EXCEPT ![c] = at'[c]] /\ at'[c].pc \notin Starting
    BY <1>9, <2>1, ReturnElsewhere DEF Initialize
  <2>4. \A d \in Callers : d # c => at'[d] = at[d]
    BY <2>3 DEF AllFine
  <2>5. NoStray'
    <3>1. ASSUME NEW x \in alive
          PROVE  \/ \E u \in Slots : slots'[u].client = x
                 \/ \E d \in Callers : at'[d].pc = "init" /\ at'[d].child = x
      <4>1. x # None
        BY PoolAssumption DEF TypeOK
      <4>2. CASE \E u \in Slots : slots[u].client = x
        BY <2>1, <2>2, <4>1, <4>2
      <4>3. CASE \E d \in Callers : at[d].pc = "init" /\ at[d].child = x
        <5>1. PICK d \in Callers : at[d].pc = "init" /\ at[d].child = x
          BY <4>3
        <5> QED
          BY <2>1, <2>2, <2>4, <5>1
      <4> QED
        BY <4>2, <4>3 DEF NoStray
    <3>2. alive' = alive
      BY <1>9 DEF Initialize
    <3>3. \A u \in Slots : slots'[u].closed => slots'[u].client = None
      BY <2>1, <2>2 DEF NoStray
    <3> QED
      BY <3>1, <3>2, <3>3 DEF NoStray
  <2>6. \A d \in Callers : at'[d].pc \in Starting =>
          /\ d # c /\ at'[d] = at[d] /\ at[d].slot \in Slots /\ at[d].slot # s
    BY <1>9, <2>3, <2>4 DEF Initialize, AllFine, PointsRight, Locking, Starting
  <2>7. Locking'
    BY <2>2, <2>6 DEF Locking
  <2> QED
    BY <2>5, <2>7
<1> QED
  BY <1>1, <1>2, <1>3, <1>4, <1>5, <1>6, <1>7, <1>8, <1>9 DEF Ensure

LEMMA UseOwned ==
  ASSUME Owned, NEW c \in Callers, Use(c)
  PROVE  NoStray' /\ Locking'
<1> AllFine /\ NoStray /\ Locking /\ TypeOK
  BY DEF Owned
<1>1. CASE Arrive(c) \/ Leave(c)
  <2>1. Elsewhere(c)
    BY <1>1, Places DEF Arrive, Leave, Elsewhere, AllFine, Starting
  <2> QED
    BY <1>1, <2>1, Quiet DEF Arrive, Leave
<1>2. CASE Answered(c) \/ Busy(c)
  <2>1. Elsewhere(c)
    BY <1>2, OverElsewhere DEF Answered, Busy, Starting
  <2> QED
    BY <1>2, <2>1, Quiet DEF Answered, Busy
<1>3. CASE LookAgain(c) \/ NoteLook(c)
  <2>1. CASE Over(c)
    BY <1>3, <2>1, OverElsewhere, Quiet DEF LookAgain, NoteLook, Starting
  <2>2. CASE ~Over(c)
    <3>1. PICK p \in {"permit", "strike"} :
             at' = [at EXCEPT ![c].pc = p, ![c].slot = current]
      BY <1>3, <2>2 DEF LookAgain, NoteLook
    <3>2. at'[c].pc = p /\ at' = [at EXCEPT ![c] = at'[c]]
      BY <3>1 DEF AllFine, Local
    <3>3. Elsewhere(c)
      BY <1>3, <3>2 DEF LookAgain, NoteLook, Elsewhere, Starting
    <3> QED
      BY <1>3, <3>3, Quiet DEF LookAgain, NoteLook
  <2> QED
    BY <2>1, <2>2
<1>4. CASE TakePermit(c)
  <2> DEFINE r == [at[c] EXCEPT !.pc = "call", !.permit = at[c].slot, !.slot = None]
  <2>1. at' = [at EXCEPT ![c] = r]
    BY <1>4 DEF TakePermit, AllFine
  <2>2. r.pc = "call"
    BY DEF AllFine, Local
  <2>3. Elsewhere(c)
    BY <1>4, <2>1, <2>2 DEF TakePermit, Elsewhere, AllFine, Starting
  <2> QED
    BY <1>4, <2>3, Quiet DEF TakePermit
<1>5. CASE CallFails(c)
  BY <1>5, GotoElsewhere, Quiet DEF CallFails, Starting
<1>6. CASE NoteStrike(c)
  <2> DEFINE s == at[c].slot
  <2> DEFINE p == [Struck(slots[s]) EXCEPT !.client = None]
  <2>1. s \in Slots /\ slots[s] \in SlotState
    BY <1>6 DEF NoteStrike, AllFine, PointsRight, TypeOK, SlotState
  <2>2. p \in SlotState /\ p.client = None /\ Struck(slots[s]).client = slots[s].client
    BY <2>1, StruckType DEF SlotState
  <2>3. Elsewhere(c)
    BY <1>6, OverElsewhere DEF NoteStrike, Starting
  <2>4. /\ slots' = [slots EXCEPT ![s] = p] /\ Unlocked(s)
        /\ alive' = alive \ {slots[s].client}
    BY <1>6, <2>2 DEF NoteStrike
  <2> QED
    BY <2>1, <2>2, <2>3, <2>4, ClientGone
<1> QED
  BY <1>1, <1>2, <1>3, <1>4, <1>5, <1>6 DEF Use

LEMMA ManageOwned ==
  ASSUME Owned, NEW c \in Callers, Manage(c)
  PROVE  NoStray' /\ Locking'
<1> AllFine /\ NoStray /\ Locking /\ TypeOK
  BY DEF Owned
<1>1. ASSUME NEW o \in {"restart", "delete"}, BeginStop(c, o)
      PROVE  NoStray' /\ Locking'
  <2> DEFINE r == [Home EXCEPT !.pc = IF current = None THEN AfterStop(o) ELSE "halt",
                               !.op = o, !.slot = current]
  <2>1. r.pc \in {"reset", "drop", "halt"}
    BY DEF AfterStop, Home
  <2>2. Elsewhere(c)
    BY <1>1, <2>1 DEF BeginStop, Elsewhere, AllFine, Starting
  <2> QED
    BY <1>1, <2>2, Quiet DEF BeginStop
<1>2. CASE Halt(c)
  <2> DEFINE s == at[c].slot
  <2> DEFINE p == [slots[s] EXCEPT !.client = None, !.closed = TRUE]
  <2> DEFINE r == [at[c] EXCEPT !.pc = AfterStop(at[c].op), !.slot = None]
  <2>0. s \in Slots /\ slots[s] \in SlotState
    BY <1>2 DEF Halt, AllFine, PointsRight, TypeOK, SlotState
  <2>1. s \in Slots /\ p \in SlotState /\ p.client = None
    BY <2>0 DEF SlotState
  <2>2. at' = [at EXCEPT ![c] = r]
    BY <1>2 DEF Halt, AllFine
  <2>3. r.pc \in {"reset", "drop"}
    BY DEF AfterStop, AllFine, Local
  <2>4. Elsewhere(c)
    BY <1>2, <2>2, <2>3 DEF Halt, Elsewhere, AllFine, Starting
  <2>5. /\ slots' = [slots EXCEPT ![s] = p] /\ Unlocked(s)
        /\ alive' = alive \ {slots[s].client}
    BY <1>2 DEF Halt
  <2> QED
    BY <2>1, <2>4, <2>5, ClientGone
<1>3. CASE ResetCircuit(c)
  BY <1>3, GotoElsewhere, Quiet DEF ResetCircuit, Starting
<1>4. CASE Replace(c)
  <2>1. current' \in FreshSlots /\ slots' = [slots EXCEPT ![current'] = NewSlot]
    BY <1>4 DEF Replace
  <2>2. alive' = alive \ {slots[current'].client}
    BY <1>4, <2>1, FreshUnlocked, PoolAssumption DEF Replace, TypeOK
  <2>3. Elsewhere(c)
    BY <1>4, Places DEF Replace, Elsewhere, AllFine, Starting
  <2> QED
    BY <2>1, <2>2, <2>3, FreshUnlocked, LocalTypes, ClientGone
<1>5. CASE DropRow(c)
  <2>1. Elsewhere(c)
    BY <1>5, Places DEF DropRow, Elsewhere, AllFine, Starting
  <2> QED
    BY <1>5, <2>1, Quiet DEF DropRow
<1> QED
  BY <1>1, <1>2, <1>3, <1>4, <1>5 DEF Manage

LEMMA OwnedStep ==
  ASSUME Owned, [Next]_vars
  PROVE  Owned'
<1>1. TypeOK' /\ AllFine'
  BY TypeStep DEF Owned
<1>2. CASE Next
  <2>1. ASSUME NEW k \in Children, Crash(k)
        PROVE  NoStray' /\ Locking'
    BY <2>1 DEF Crash, Owned, NoStray, Locking
  <2>2. ASSUME Cool
        PROVE  NoStray' /\ Locking'
    <3>1. UNCHANGED <<slots, alive, at>>
      BY <2>2 DEF Cool
    <3> QED
      BY <3>1 DEF Owned, NoStray, Locking
  <2> QED
    BY <1>1, <1>2, <2>1, <2>2, EnsureOwned, UseOwned, ManageOwned DEF Next, Owned
<1>3. CASE UNCHANGED vars
  BY <1>1, <1>3 DEF vars, Owned, NoStray, Locking
<1> QED
  BY <1>2, <1>3

(* Every running child has an owner that will stop it, and a stopped slot    *)
(* never gets a child again.                                               *)
THEOREM ChildrenOwned == Spec => []NoStray
<1>1. Init => Owned
  BY TypeInit DEF Init, Owned, NoStray, Locking, NewSlot, Home, Starting
<1>2. Owned /\ [Next]_vars => Owned'
  BY OwnedStep
<1>3. Owned => NoStray
  BY DEF Owned
<1> QED
  BY <1>1, <1>2, <1>3, PTL DEF Spec
----------------------------------------------------------------------------
(* The cap on calls in flight.  A caller that looked the slot up after its   *)
(* client may hold the permit of another slot than its client's; but then    *)
(* its client is not the current one, because a slot that was replaced never *)
(* comes back with a client.                                               *)

PermitOf(r) == IF r.pc = "permit" THEN r.slot ELSE r.permit

Caps ==
  /\ \A c, d \in Callers : c # d /\ at[d].pc = "init" => at[c].child # at[d].child
  /\ \A d \in Callers : \A s \in Slots : at[d].pc = "init" => slots[s].client # at[d].child
  /\ \A c \in Callers :
       at[c].pc \in {"permit", "call"} /\ current \in Slots
         /\ slots[current].client = at[c].child
       => current = PermitOf(at[c])
  /\ \A s \in Slots : Cardinality(Holders(s)) <= MaxInFlight

Capped == TypeOK /\ AllFine /\ Locking /\ Caps

(* c gives up what it has, or keeps it; a slot's client does not change      *)
(* except that it may be lost, and a slot that becomes current has none.   *)
Steady(c) ==
  /\ at' = [at EXCEPT ![c] = at'[c]]
  /\ at'[c].child \in {None, at[c].child} /\ at'[c].permit \in {None, at[c].permit}
  /\ at'[c].pc \notin {"init", "permit", "call"}
  /\ \A s \in Slots : slots'[s].client \in {None, slots[s].client}
  /\ current' \in Slots => current' = current \/ slots'[current'].client = None

LEMMA FiniteHolders ==
  ASSUME NEW s
  PROVE  IsFiniteSet(Holders(s)) /\ Cardinality(Holders(s)) \in Nat
BY PoolAssumption, FS_Subset, FS_CardinalityType DEF Holders

LEMMA FewerHolders ==
  ASSUME NEW s, Holders(s)' \subseteq Holders(s)
  PROVE  Cardinality(Holders(s)') <= Cardinality(Holders(s))
BY FiniteHolders, FS_Subset

LEMMA SteadyCaps ==
  ASSUME Capped, NEW c \in Callers, Steady(c)
  PROVE  Caps'
<1>1. \A d \in Callers : d # c => at'[d] = at[d]
  BY DEF Steady, Capped, AllFine
<1>2. \A d \in Callers : at'[d].pc \in {"init", "permit", "call"} =>
        d # c /\ at'[d] = at[d]
  BY <1>1 DEF Steady
<1>3. \A d \in Callers : at'[d].child \in {None, at[d].child}
  BY <1>1 DEF Steady
<1>4. None \notin Children
  BY PoolAssumption
<1>5. \A d \in Callers : at'[d].pc \in {"init", "permit", "call"} => at[d].child \in Children
  BY <1>2 DEF Capped, AllFine, PointsRight
<1>6. ASSUME NEW b \in Callers, NEW d \in Callers, b # d, at'[d].pc = "init"
      PROVE  at'[b].child # at'[d].child
  BY <1>2, <1>3, <1>4, <1>5, <1>6 DEF Capped, Caps
<1>7. ASSUME NEW d \in Callers, NEW s \in Slots, at'[d].pc = "init"
      PROVE  slots'[s].client # at'[d].child
  BY <1>2, <1>4, <1>5, <1>7 DEF Capped, Caps, Steady
<1>8. ASSUME NEW d \in Callers, at'[d].pc \in {"permit", "call"}, current' \in Slots,
             slots'[current'].client = at'[d].child
      PROVE  current' = PermitOf(at'[d])
  <2>1. at'[d] = at[d] /\ at[d].child \in Children
    BY <1>2, <1>5, <1>8
  <2>2. current' = current /\ slots[current].client = at[d].child
    BY <1>4, <1>8, <2>1 DEF Steady
  <2> QED
    BY <1>8, <2>1, <2>2 DEF Capped, Caps
<1>9. ASSUME NEW s \in Slots
      PROVE  Cardinality(Holders(s)') <= MaxInFlight
  <2>1. Holders(s)' \subseteq Holders(s)
    BY <1>1, PoolAssumption DEF Holders, Steady
  <2>2. Cardinality(Holders(s)) <= MaxInFlight
    BY DEF Capped, Caps
  <2>3. Cardinality(Holders(s)') \in Nat
    BY <2>1, FiniteHolders, FS_Subset, FS_CardinalityType
  <2> QED
    BY <2>1, <2>2, <2>3, FewerHolders, FiniteHolders, PoolAssumption
<1> QED
  BY <1>6, <1>7, <1>8, <1>9 DEF Caps

LEMMA OverSteady ==
  ASSUME AllFine, NEW c \in Callers, Over(c)
  PROVE  /\ at' = [at EXCEPT ![c] = at'[c]]
         /\ at'[c].child = None /\ at'[c].permit = None
         /\ at'[c].pc \in {"idle", "ensure"}
<1>1. /\ Home.child = None /\ Home.permit = None
      /\ ToEnsure("request").child = None /\ ToEnsure("request").permit = None
  BY DEF Home, ToEnsure
<1> QED
  BY <1>1, Places, OverFine

LEMMA GotoSteady ==
  ASSUME AllFine, NEW c \in Callers, NEW p, Goto(c, p)
  PROVE  /\ at' = [at EXCEPT ![c] = at'[c]]
         /\ at'[c].child = at[c].child /\ at'[c].permit = at[c].permit
         /\ at'[c].slot = at[c].slot /\ at'[c].pc = p
BY DEF Goto, AllFine, Local

LEMMA FailedSteady ==
  ASSUME TypeOK, AllFine, NEW c \in Callers, at[c].pc \in Starting, AttemptFailed(c),
         current' = current
  PROVE  Steady(c)
<1>1. \A s \in Slots : slots'[s].client = slots[s].client
  <2>1. \A s \in Slots : slots'[s] = IF s = at[c].slot THEN Struck(slots[s]) ELSE slots[s]
    BY DEF AttemptFailed, TypeOK
  <2>2. \A s \in Slots : slots[s] \in SlotState
    BY DEF TypeOK, SlotState
  <2> QED
    BY <2>1, <2>2, StruckType
<1>2. CASE at[c].tries < MaxStrikes
  <2> DEFINE r == [at[c] EXCEPT !.pc = "start", !.child = None, !.tries = at[c].tries + 1]
  <2>1. at' = [at EXCEPT ![c] = r]
    BY <1>2 DEF AttemptFailed
  <2>2. r.pc = "start" /\ r.child = None /\ r.permit = at[c].permit
    BY DEF AllFine, Local
  <2>3. at'[c] = r
    BY <2>1 DEF AllFine
  <2> QED
    BY <1>1, <2>1, <2>2, <2>3 DEF Steady
<1>3. CASE ~(at[c].tries < MaxStrikes)
  <2>1. Over(c)
    BY <1>3 DEF AttemptFailed
  <2> QED
    BY <1>1, <2>1, OverSteady DEF Steady
<1> QED
  BY <1>2, <1>3

(* A slot taken from the allocator starts without a client. *)
LEMMA FreshClients ==
  ASSUME TypeOK, current' \in FreshSlots, slots' = [slots EXCEPT ![current'] = NewSlot]
  PROVE  /\ \A s \in Slots : slots'[s].client \in {None, slots[s].client}
         /\ slots'[current'].client = None
BY LocalTypes DEF TypeOK, FreshSlots

LEMMA ReturnParts ==
  ASSUME AllFine, NEW c \in Callers, NEW k \in Children, Return(c, k)
  PROVE  /\ at' = [at EXCEPT ![c] = at'[c]] /\ at'[c].pc \in {"ensure", "ready"}
         /\ at'[c].child \in {None, k} /\ at'[c].permit = None
<1> DEFINE q == [Home EXCEPT !.pc = "ready", !.op = at[c].op, !.child = k]
<1>1. q.pc = "ready" /\ q.child = k /\ q.permit = None
  BY DEF Home
<1>2. ToEnsure("list").child = None /\ ToEnsure("list").permit = None
  BY DEF Home, ToEnsure
<1>3. at'[c] \in {ToEnsure("list"), q} /\ at' = [at EXCEPT ![c] = at'[c]]
  BY ReturnFine
<1> HIDE DEF q
<1> QED
  BY <1>1, <1>2, <1>3, Places

LEMMA HoldersKept ==
  ASSUME Caps, NEW s \in Slots, Holders(s)' \subseteq Holders(s)
  PROVE  Cardinality(Holders(s)') <= MaxInFlight
<1>1. Cardinality(Holders(s)') \in Nat
  BY FiniteHolders, FS_Subset, FS_CardinalityType
<1> QED
  BY <1>1, FewerHolders, FiniteHolders, PoolAssumption DEF Caps

(* Ensure returns the client of a slot: no client is being initialized. *)
LEMMA ReturnedCaps ==
  ASSUME Capped, NEW c \in Callers, NEW u \in Slots,
         at' = [at EXCEPT ![c] = at'[c]], at'[c].pc \in {"ensure", "ready"},
         at'[c].child \in {None, slots[u].client}, at'[c].permit = None,
         UNCHANGED <<slots, current>>
  PROVE  Caps'
<1>1. \A d \in Callers : d # c => at'[d] = at[d]
  BY DEF Capped, AllFine
<1>2. \A d \in Callers : at'[d].pc \in {"init", "permit", "call"} =>
         d # c /\ at'[d] = at[d] /\ at[d].child \in Children
  BY <1>1 DEF Capped, AllFine, PointsRight
<1>3. ASSUME NEW b \in Callers, NEW d \in Callers, b # d, at'[d].pc = "init"
      PROVE  at'[b].child # at'[d].child
  BY <1>1, <1>2, <1>3, PoolAssumption DEF Capped, Caps
<1>4. ASSUME NEW d \in Callers, NEW s \in Slots, at'[d].pc = "init"
      PROVE  slots'[s].client # at'[d].child
  BY <1>2, <1>4 DEF Capped, Caps
<1>5. ASSUME NEW d \in Callers, at'[d].pc \in {"permit", "call"}, current' \in Slots,
             slots'[current'].client = at'[d].child
      PROVE  current' = PermitOf(at'[d])
  BY <1>2, <1>5 DEF Capped, Caps
<1>6. \A s \in Slots : Holders(s)' \subseteq Holders(s)
  BY <1>1, PoolAssumption DEF Holders
<1> QED
  BY <1>3, <1>4, <1>5, <1>6, HoldersKept DEF Caps, Capped

LEMMA EnsureCaps ==
  ASSUME Capped, NEW c \in Callers, Ensure(c)
  PROVE  Caps'
<1> TypeOK /\ AllFine /\ Locking /\ Caps
  BY DEF Capped
<1>1. CASE EnsureAllow(c) \/ RowFound(c)
  BY <1>1, GotoSteady, SteadyCaps DEF EnsureAllow, RowFound, Steady
<1>2. CASE EnsureRefused(c) \/ RowRefused(c)
  BY <1>2, OverSteady, SteadyCaps DEF EnsureRefused, RowRefused, Steady
<1>3. CASE FindSlot(c)
  <2> DEFINE r == [at[c] EXCEPT !.pc = "lock", !.slot = current']
  <2>1. at' = [at EXCEPT ![c] = r]
    BY <1>3 DEF FindSlot, AllFine
  <2>2. r.pc = "lock" /\ r.child = at[c].child /\ r.permit = at[c].permit
    BY DEF AllFine, Local
  <2>3. at'[c] = r
    BY <2>1 DEF AllFine
  <2>4. /\ \A s \in Slots : slots'[s].client \in {None, slots[s].client}
        /\ current' \in Slots => current' = current \/ slots'[current'].client = None
    BY <1>3, FreshClients DEF FindSlot
  <2> QED
    BY <2>1, <2>2, <2>3, <2>4, SteadyCaps DEF Steady
<1>4. CASE Reuse(c)
  <2> DEFINE k == slots[at[c].slot].client
  <2>1. at[c].slot \in Slots /\ k \in Children
    BY <1>4 DEF Reuse, AllFine, PointsRight, TypeOK
  <2>2. at' = [at EXCEPT ![c] = at'[c]] /\ at'[c].pc \in {"ensure", "ready"}
        /\ at'[c].child \in {None, k} /\ at'[c].permit = None
    BY <1>4, <2>1, ReturnParts DEF Reuse
  <2>3. \A d \in Callers : d # c => at'[d] = at[d]
    BY <2>2 DEF AllFine
  <2>4. UNCHANGED <<slots, current>>
    BY <1>4 DEF Reuse
  <2> QED
    BY <2>1, <2>2, <2>3, <2>4, ReturnedCaps
<1>5. CASE Start(c)
  BY <1>5, OverSteady, GotoSteady, SteadyCaps DEF Start, Steady
<1>6. CASE Spawn(c)
  <2>1. PICK k \in FreshChildren : at' = [at EXCEPT ![c].pc = "init", ![c].child = k]
    BY <1>6 DEF Spawn
  <2>2. at'[c].pc = "init" /\ at'[c].child = k /\ at'[c].permit = at[c].permit
    BY <2>1 DEF AllFine, Local
  <2>3. \A d \in Callers : d # c => at'[d] = at[d]
    BY <2>1 DEF AllFine
  <2>4. UNCHANGED <<slots, current>>
    BY <1>6 DEF Spawn
  <2>5. /\ \A d \in Callers : at[d].child # k
        /\ \A s \in Slots : slots[s].client # k
    BY DEF FreshChildren
  <2>6. \A s : Holders(s)' = Holders(s)
    BY <2>2, <2>3 DEF Holders
  <2>7. ASSUME NEW b \in Callers, NEW d \in Callers, b # d, at'[d].pc = "init"
        PROVE  at'[b].child # at'[d].child
    BY <2>2, <2>3, <2>5, <2>7 DEF Caps
  <2>8. ASSUME NEW d \in Callers, NEW s \in Slots, at'[d].pc = "init"
        PROVE  slots'[s].client # at'[d].child
    BY <2>2, <2>3, <2>4, <2>5, <2>8 DEF Caps
  <2>9. ASSUME NEW d \in Callers, at'[d].pc \in {"permit", "call"}, current' \in Slots,
               slots'[current'].client = at'[d].child
        PROVE  current' = PermitOf(at'[d])
    BY <2>2, <2>3, <2>4, <2>9 DEF Caps
  <2> QED
    BY <2>6, <2>7, <2>8, <2>9 DEF Caps
<1>7. CASE SpawnFails(c)
  BY <1>7, FailedSteady, SteadyCaps DEF SpawnFails, Starting
<1>8. CASE InitializeFails(c)
  BY <1>8, FailedSteady, SteadyCaps DEF InitializeFails, Starting
<1>9. CASE Initialize(c)
  <2> DEFINE u == at[c].slot
  <2> DEFINE k == at[c].child
  <2>1. u \in Slots /\ k \in Children
    BY <1>9 DEF Initialize, AllFine, PointsRight, Starting
  <2>2. at' = [at EXCEPT ![c] = at'[c]] /\ at'[c].pc \in {"ensure", "ready"}
        /\ at'[c].child \in {None, k} /\ at'[c].permit = None
    BY <1>9, <2>1, ReturnParts DEF Initialize
  <2>3. \A d \in Callers : d # c => at'[d] = at[d]
    BY <2>2 DEF AllFine
  <2>4. \A s \in Slots : slots'[s].client = IF s = u THEN k ELSE slots[s].client
    BY <1>9, <2>1 DEF Initialize, TypeOK
  <2>5. \A d \in Callers : at'[d].pc \in {"init", "permit", "call"} =>
           /\ d # c /\ at'[d] = at[d]
           /\ at[d].child # k /\ at[d].child \in Children
    BY <1>9, <2>2, <2>3 DEF Initialize, Caps, AllFine, PointsRight
  <2>6. ASSUME NEW b \in Callers, NEW d \in Callers, b # d, at'[d].pc = "init"
        PROVE  at'[b].child # at'[d].child
    BY <2>2, <2>3, <2>5, <2>6, PoolAssumption DEF Caps
  <2>7. ASSUME NEW d \in Callers, NEW s \in Slots, at'[d].pc = "init"
        PROVE  slots'[s].client # at'[d].child
    BY <2>4, <2>5, <2>7 DEF Caps
  <2>8. ASSUME NEW d \in Callers, at'[d].pc \in {"permit", "call"}, current' \in Slots,
               slots'[current'].client = at'[d].child
        PROVE  current' = PermitOf(at'[d])
    <3>1. current' = current
      BY <1>9 DEF Initialize
    <3>2. slots[current].client = at[d].child
      BY <2>4, <2>5, <2>8, <3>1
    <3> QED
      BY <2>5, <2>8, <3>1, <3>2 DEF Caps
  <2>9. \A s \in Slots : Holders(s)' \subseteq Holders(s)
    BY <2>2, <2>3, PoolAssumption DEF Holders
  <2> QED
    BY <2>6, <2>7, <2>8, <2>9, HoldersKept DEF Caps
<1> QED
  BY <1>1, <1>2, <1>3, <1>4, <1>5, <1>6, <1>7, <1>8, <1>9 DEF Ensure

LEMMA UseCaps ==
  ASSUME Capped, NEW c \in Callers, Use(c)
  PROVE  Caps'
<1> TypeOK /\ AllFine /\ Locking /\ Caps
  BY DEF Capped
<1>1. CASE Arrive(c) \/ Leave(c)
  <2>1. Home.child = None /\ Home.permit = None
        /\ ToEnsure("request").child = None /\ ToEnsure("request").permit = None
    BY DEF Home, ToEnsure
  <2>2. Steady(c)
    BY <1>1, <2>1, Places DEF Arrive, Leave, Steady, AllFine
  <2> QED
    BY <2>2, SteadyCaps
<1>2. CASE Answered(c) \/ Busy(c)
  BY <1>2, OverSteady, SteadyCaps DEF Answered, Busy, Steady
<1>3. CASE LookAgain(c)
  <2>1. CASE current = None
    BY <1>3, <2>1, OverSteady, SteadyCaps DEF LookAgain, Steady
  <2>2. CASE current # None
    <3> DEFINE r == [at[c] EXCEPT !.pc = "permit", !.slot = current]
    <3>1. at' = [at EXCEPT ![c] = r] /\ UNCHANGED <<slots, current>>
      BY <1>3, <2>2 DEF LookAgain, AllFine
    <3>2. /\ r.pc = "permit" /\ r.slot = current
          /\ r.child = at[c].child /\ r.permit = at[c].permit
      BY DEF AllFine, Local
    <3>3. at'[c] = r /\ \A d \in Callers : d # c => at'[d] = at[d]
      BY <3>1 DEF AllFine
    <3>4. \A s : Holders(s)' = Holders(s)
      BY <3>2, <3>3 DEF Holders
    <3>5. \A d \in Callers : /\ at'[d].child = at[d].child
                             /\ at'[d].pc = "init" => at[d].pc = "init"
      BY <3>2, <3>3
    <3>6. PermitOf(at'[c]) = current
      BY <3>2, <3>3 DEF PermitOf
    <3> QED
      BY <3>1, <3>3, <3>4, <3>5, <3>6 DEF Caps
  <2> QED
    BY <2>1, <2>2
<1>4. CASE TakePermit(c)
  <2> DEFINE r == [at[c] EXCEPT !.pc = "call", !.permit = at[c].slot, !.slot = None]
  <2>1. at' = [at EXCEPT ![c] = r] /\ UNCHANGED <<slots, current>> /\ at[c].pc = "permit"
    BY <1>4 DEF TakePermit, AllFine
  <2>2. r.pc = "call" /\ r.child = at[c].child /\ r.permit = at[c].slot
    BY DEF AllFine, Local
  <2>3. at'[c] = r /\ \A d \in Callers : d # c => at'[d] = at[d]
    BY <2>1 DEF AllFine
  <2>4. \A d \in Callers : /\ at'[d].child = at[d].child
                           /\ at'[d].pc = "init" => at[d].pc = "init"
    BY <2>2, <2>3
  <2>5. PermitOf(at'[c]) = PermitOf(at[c])
    BY <2>1, <2>2, <2>3 DEF PermitOf
  <2>6. ASSUME NEW s \in Slots
        PROVE  Cardinality(Holders(s)') <= MaxInFlight
    <3>1. CASE s = at[c].slot
      <4>1. Cardinality(Holders(s)) < MaxInFlight
        BY <1>4, <3>1 DEF TakePermit
      <4>2. Holders(s)' = Holders(s) \cup {c}
        BY <2>2, <2>3, <3>1 DEF Holders
      <4>3. Cardinality(Holders(s) \cup {c}) <= Cardinality(Holders(s)) + 1
        BY FiniteHolders, FS_AddElement
      <4>4. Cardinality(Holders(s) \cup {c}) \in Nat
        BY FiniteHolders, FS_AddElement, FS_CardinalityType
      <4> QED
        BY <4>1, <4>2, <4>3, <4>4, FiniteHolders, PoolAssumption
    <3>2. CASE s # at[c].slot
      <4>1. Holders(s)' \subseteq Holders(s)
        BY <2>2, <2>3, <3>2 DEF Holders
      <4> QED
        BY <4>1, HoldersKept
    <3> QED
      BY <3>1, <3>2
  <2> QED
    BY <2>1, <2>2, <2>3, <2>4, <2>5, <2>6 DEF Caps
<1>5. CASE CallFails(c)
  BY <1>5, GotoSteady, SteadyCaps DEF CallFails, Steady
<1>6. CASE NoteLook(c)
  <2>1. CASE current = None
    BY <1>6, <2>1, OverSteady, SteadyCaps DEF NoteLook, Steady
  <2>2. CASE current # None
    <3> DEFINE r == [at[c] EXCEPT !.pc = "strike", !.slot = current]
    <3>1. at' = [at EXCEPT ![c] = r] /\ UNCHANGED <<slots, current>>
      BY <1>6, <2>2 DEF NoteLook, AllFine
    <3>2. r.pc = "strike" /\ r.child = at[c].child /\ r.permit = at[c].permit
      BY DEF AllFine, Local
    <3>3. at'[c] = r
      BY <3>1 DEF AllFine
    <3> QED
      BY <3>1, <3>2, <3>3, SteadyCaps DEF Steady
  <2> QED
    BY <2>1, <2>2
<1>7. CASE NoteStrike(c)
  <2> DEFINE u == at[c].slot
  <2>1. u \in Slots /\ slots[u] \in SlotState
    BY <1>7 DEF NoteStrike, AllFine, PointsRight, TypeOK, SlotState
  <2>2. [Struck(slots[u]) EXCEPT !.client = None].client = None
    BY <2>1, StruckType DEF SlotState
  <2>3. \A s \in Slots : slots'[s].client \in {None, slots[s].client}
    BY <1>7, <2>1, <2>2 DEF NoteStrike, TypeOK
  <2> QED
    BY <1>7, <2>3, OverSteady, SteadyCaps DEF NoteStrike, Steady
<1> QED
  BY <1>1, <1>2, <1>3, <1>4, <1>5, <1>6, <1>7 DEF Use

LEMMA ManageCaps ==
  ASSUME Capped, NEW c \in Callers, Manage(c)
  PROVE  Caps'
<1> TypeOK /\ AllFine /\ Locking /\ Caps
  BY DEF Capped
<1>1. ASSUME NEW o \in {"restart", "delete"}, BeginStop(c, o)
      PROVE  Caps'
  <2> DEFINE r == [Home EXCEPT !.pc = IF current = None THEN AfterStop(o) ELSE "halt",
                               !.op = o, !.slot = current]
  <2>1. r.pc \in {"reset", "drop", "halt"} /\ r.child = None /\ r.permit = None
    BY DEF AfterStop, Home
  <2>2. at' = [at EXCEPT ![c] = r] /\ current' = None /\ slots' = slots
    BY <1>1 DEF BeginStop
  <2>3. at'[c] = r
    BY <2>2 DEF AllFine
  <2> QED
    BY <2>1, <2>2, <2>3, PoolAssumption, SteadyCaps DEF Steady
<1>2. CASE Halt(c)
  <2> DEFINE u == at[c].slot
  <2> DEFINE r == [at[c] EXCEPT !.pc = AfterStop(at[c].op), !.slot = None]
  <2>1. u \in Slots /\ slots[u] \in SlotState
    BY <1>2 DEF Halt, AllFine, PointsRight, TypeOK, SlotState
  <2>2. [slots[u] EXCEPT !.client = None, !.closed = TRUE].client = None
    BY <2>1 DEF SlotState
  <2>3. \A s \in Slots : slots'[s].client \in {None, slots[s].client}
    BY <1>2, <2>1, <2>2 DEF Halt, TypeOK
  <2>4. at' = [at EXCEPT ![c] = r] /\ current' = current
    BY <1>2 DEF Halt, AllFine
  <2>5. r.pc \in {"reset", "drop"} /\ r.child = at[c].child /\ r.permit = at[c].permit
    BY DEF AfterStop, AllFine, Local
  <2>6. at'[c] = r
    BY <2>4 DEF AllFine
  <2> QED
    BY <2>3, <2>4, <2>5, <2>6, SteadyCaps DEF Steady
<1>3. CASE ResetCircuit(c)
  BY <1>3, GotoSteady, SteadyCaps DEF ResetCircuit, Steady
<1>4. CASE Replace(c)
  <2>1. ToEnsure("restart").child = None /\ ToEnsure("restart").permit = None
    BY DEF Home, ToEnsure
  <2>2. at' = [at EXCEPT ![c] = ToEnsure("restart")] /\ at'[c] = ToEnsure("restart")
    BY <1>4 DEF Replace, AllFine
  <2> QED
    BY <1>4, <2>1, <2>2, Places, FreshClients, SteadyCaps DEF Replace, Steady
<1>5. CASE DropRow(c)
  <2>1. Home.child = None /\ Home.permit = None
    BY DEF Home
  <2>2. at' = [at EXCEPT ![c] = Home] /\ at'[c] = Home
    BY <1>5 DEF DropRow, AllFine
  <2> QED
    BY <1>5, <2>1, <2>2, Places, SteadyCaps DEF DropRow, Steady
<1> QED
  BY <1>1, <1>2, <1>3, <1>4, <1>5 DEF Manage

LEMMA CappedStep ==
  ASSUME Owned, Caps, [Next]_vars
  PROVE  Caps'
<1>1. Capped
  BY DEF Owned, Capped
<1>2. ASSUME UNCHANGED <<current, at>>, UNCHANGED slots
      PROVE  Caps'
  BY <1>2 DEF Caps, Holders, PermitOf
<1> QED
  BY <1>1, <1>2, EnsureCaps, UseCaps, ManageCaps DEF Next, Crash, Cool, vars

(* The calls in flight on the current child never pass the cap. *)
THEOREM CallsCapped == Spec => []CurrentCapped
<1>1. Init => Owned /\ Caps
  <2>1. ASSUME Init
        PROVE  Owned
    BY <2>1, TypeInit DEF Init, Owned, NoStray, Locking, NewSlot, Home, Starting
  <2>2. ASSUME Init
        PROVE  Caps
    <3>0. \A c \in Callers : at[c].permit = None
      BY <2>2 DEF Init, Home
    <3>1. \A s \in Slots : Holders(s) = {}
      BY <3>0, PoolAssumption DEF Holders
    <3>2. \A c \in Callers : at[c].pc = "idle"
      BY <2>2, Places DEF Init
    <3> QED
      BY <3>1, <3>2, FS_EmptySet, PoolAssumption DEF Caps
  <2> QED
    BY <2>1, <2>2
<1>2. Owned /\ Caps /\ [Next]_vars => Owned' /\ Caps'
  BY OwnedStep, CappedStep
<1>3. Owned /\ Caps => CurrentCapped
  <2> SUFFICES ASSUME Owned, Caps
               PROVE  CurrentCapped
    OBVIOUS
  <2> DEFINE calls == {c \in Callers : at[c].pc = "call"
                         /\ current # None /\ at[c].child = slots[current].client}
  <2>1. CASE current = None
    <3>1. calls = {}
      BY <2>1
    <3>2. Cardinality({}) = 0
      BY FS_EmptySet
    <3>3. 0 <= MaxInFlight
      BY PoolAssumption
    <3> HIDE DEF calls
    <3>4. Cardinality(calls) <= MaxInFlight
      BY <3>1, <3>2, <3>3
    <3> QED
      BY <3>4 DEF CurrentCapped, calls
  <2>2. CASE current \in Slots
    <3>1. calls \subseteq Holders(current)
      BY <2>2 DEF Caps, PermitOf, Holders
    <3>2. Cardinality(calls) \in Nat /\ Cardinality(calls) <= Cardinality(Holders(current))
      BY <3>1, FiniteHolders, FS_Subset, FS_CardinalityType
    <3>3. Cardinality(Holders(current)) <= MaxInFlight
      BY <2>2 DEF Caps
    <3> QED
      BY <3>2, <3>3, FiniteHolders, PoolAssumption DEF CurrentCapped
  <2> QED
    BY <2>1, <2>2 DEF Owned, TypeOK
<1> QED
  BY <1>1, <1>2, <1>3, PTL DEF Spec
----------------------------------------------------------------------------
(* A struck-out server stays cut off.  The slot a Stop is about to close is  *)
(* the current one no more: Stop took it out of the map before, and the      *)
(* allocator does not hand out a slot that is pointed to.                  *)

HaltedGone == \A c \in Callers : at[c].pc = "halt" => at[c].slot # current

CutOffStep ==
  StruckOut' /\ circuit'.state = "closed" =>
    \/ StruckOut /\ circuit.state = "closed"
    \/ \E c \in Callers : at[c].pc = "reset" /\ at'[c].pc = "replace"
    \/ StaleStart

(* The current slot is as it was, and who was starting in it still is.       *)
LEMMA StillStruck ==
  ASSUME current' = current, slots'[current] = slots[current], StruckOut',
         \A d \in Callers : at[d].pc \in Starting /\ at[d].slot = current =>
            at'[d].pc \in Starting /\ at'[d].slot = current
  PROVE  StruckOut
BY DEF StruckOut, Unlocked

LEMMA ElsewhereStruck ==
  ASSUME AllFine, NEW c \in Callers, Elsewhere(c), current' = current,
         slots'[current] = slots[current], StruckOut'
  PROVE  StruckOut
<1>1. \A d \in Callers : at[d].pc \in Starting => at'[d] = at[d]
  BY DEF Elsewhere, AllFine
<1>2. QED BY <1>1, StillStruck

(* What closes the circuit and what does not.                                *)
LEMMA CircuitCloses ==
  ASSUME NEW x \in CircuitState
  PROVE  /\ Allow(x).state = "closed" => x.state = "closed"
         /\ x.state = "open" => CoolDown(x).state = "open"
         /\ ForceOpen(x).state = "open"
BY DEF CircuitState, Allow, CoolDown, ForceOpen, Opened

LEMMA FreshNotStruck ==
  ASSUME TypeOK, current' \in FreshSlots, slots' = [slots EXCEPT ![current'] = NewSlot]
  PROVE  ~StruckOut'
<1>1. current' \in Slots
  BY DEF FreshSlots
<1>2. slots'[current'] = NewSlot
  BY <1>1 DEF TypeOK
<1>3. slots'[current'].strikes = 0
  BY <1>2 DEF NewSlot
<1>4. QED BY <1>3, PoolAssumption DEF StruckOut

LEMMA AttemptStruck ==
  ASSUME Owned, NEW c \in Callers, at[c].pc \in Starting, AttemptFailed(c),
         current' = current, StruckOut', circuit'.state = "closed"
  PROVE  StruckOut /\ circuit.state = "closed"
<1> TypeOK /\ AllFine
  BY DEF Owned
<1>1. at[c].tries < MaxStrikes
  <2>1. CASE ~(at[c].tries < MaxStrikes)
    BY <2>1, CircuitCloses DEF AttemptFailed, TypeOK
  <2>2. QED BY <2>1
<1> DEFINE r == [at[c] EXCEPT !.pc = "start", !.child = None, !.tries = at[c].tries + 1]
<1>2. at' = [at EXCEPT ![c] = r] /\ circuit' = circuit
  BY <1>1 DEF AttemptFailed
<1>3. r.pc = "start" /\ r.slot = at[c].slot
  BY DEF AllFine, Local
<1>4. at'[c] = r /\ \A d \in Callers : d # c => at'[d] = at[d]
  BY <1>2 DEF AllFine
<1>5. at'[c].pc \in Starting /\ at'[c].slot = at[c].slot
  BY <1>3, <1>4 DEF Starting
<1>6. current # at[c].slot
  BY <1>5 DEF StruckOut, Unlocked
<1>7. slots'[current] = slots[current]
  <2>1. current \in Slots
    BY DEF StruckOut, TypeOK
  <2>2. QED BY <1>6, <2>1 DEF AttemptFailed, TypeOK
<1>8. StruckOut
  BY <1>4, <1>6, <1>7, StillStruck
<1>9. QED BY <1>2, <1>8

LEMMA InitializeStruck ==
  ASSUME Owned, NEW c \in Callers, Initialize(c)
  PROVE  CutOffStep
<1> SUFFICES ASSUME StruckOut', circuit'.state = "closed"
             PROVE  (StruckOut /\ circuit.state = "closed") \/ StaleStart
  BY DEF CutOffStep
<1> TypeOK /\ AllFine
  BY DEF Owned
<1> DEFINE s == at[c].slot
           k == at[c].child
<1>1. s \in Slots /\ k \in Children /\ current \in Slots \cup {None} /\ current' = current
  BY DEF Initialize, AllFine, PointsRight, TypeOK, Starting
<1>2. /\ slots'[s].client = k
      /\ \A u \in Slots : u # s => slots'[u] = slots[u]
  BY <1>1 DEF Initialize, TypeOK
<1>3. current # s /\ current \in Slots
  BY <1>1, <1>2, PoolAssumption DEF StruckOut
<1>4. CASE slots[s].strikes = 0
  BY <1>2, <1>3, <1>4 DEF StaleStart, Initialize
<1>5. CASE slots[s].strikes # 0
  <2>1. circuit' = circuit
    BY <1>5 DEF Initialize
  <2>2. at' = [at EXCEPT ![c] = at'[c]]
    BY <1>1, ReturnElsewhere DEF Initialize
  <2>3. \A d \in Callers : d # c => at'[d] = at[d]
    BY <2>2 DEF AllFine
  <2>4. StruckOut
    BY <1>1, <1>2, <1>3, <2>3, StillStruck
  <2>5. QED BY <2>1, <2>4
<1>6. QED BY <1>4, <1>5

LEMMA EnsureStruck ==
  ASSUME Owned, NEW c \in Callers, Ensure(c)
  PROVE  CutOffStep
<1> TypeOK /\ AllFine
  BY DEF Owned
<1>1. CASE EnsureAllow(c)
  <2>1. Elsewhere(c)
    BY <1>1, GotoElsewhere DEF EnsureAllow, Starting
  <2>2. QED BY <1>1, <2>1, ElsewhereStruck, CircuitCloses DEF EnsureAllow, CutOffStep, TypeOK
<1>2. CASE EnsureRefused(c) \/ RowRefused(c)
  <2>1. Elsewhere(c)
    BY <1>2, OverElsewhere DEF EnsureRefused, RowRefused, Starting
  <2>2. QED BY <1>2, <2>1, ElsewhereStruck DEF EnsureRefused, RowRefused, CutOffStep
<1>3. CASE RowFound(c)
  <2>1. Elsewhere(c)
    BY <1>3, GotoElsewhere DEF RowFound, Starting
  <2>2. QED BY <1>3, <2>1, ElsewhereStruck DEF RowFound, CutOffStep
<1>4. CASE FindSlot(c)
  <2>1. CASE current' = current /\ slots' = slots
    <3> DEFINE r == [at[c] EXCEPT !.pc = "lock", !.slot = current']
    <3>1. at' = [at EXCEPT ![c] = r] /\ r.pc = "lock"
      BY <1>4 DEF FindSlot, AllFine, Local
    <3>2. Elsewhere(c)
      BY <1>4, <3>1 DEF FindSlot, Elsewhere, AllFine, Starting
    <3>3. QED BY <1>4, <2>1, <3>2, ElsewhereStruck DEF FindSlot, CutOffStep
  <2>2. CASE current' \in FreshSlots /\ slots' = [slots EXCEPT ![current'] = NewSlot]
    BY <2>2, FreshNotStruck DEF CutOffStep
  <2>3. QED BY <1>4, <2>1, <2>2 DEF FindSlot
<1>5. CASE Reuse(c)
  <2>1. slots[at[c].slot].client \in Children
    BY <1>5 DEF Reuse, AllFine, PointsRight, TypeOK
  <2>2. Elsewhere(c)
    BY <1>5, <2>1, ReturnElsewhere DEF Reuse, Elsewhere, Starting
  <2>3. QED BY <1>5, <2>2, ElsewhereStruck DEF Reuse, CutOffStep
<1>6. CASE Start(c)
  <2>1. \A d \in Callers : at[d].pc \in Starting => at'[d] = at[d]
    <3>1. at[c].pc \notin Starting
      BY <1>6 DEF Start, Starting
    <3>2. \A d \in Callers : d # c => at'[d] = at[d]
      BY <1>6 DEF Start, Over, Goto, AllFine
    <3>3. QED BY <3>1, <3>2
  <2>2. QED BY <1>6, <2>1, StillStruck DEF Start, CutOffStep
<1>7. CASE Spawn(c)
  <2>1. PICK k \in FreshChildren : at' = [at EXCEPT ![c].pc = "init", ![c].child = k]
    BY <1>7 DEF Spawn
  <2>2. at'[c].pc \in Starting /\ at'[c].slot = at[c].slot
    BY <2>1 DEF AllFine, Local, Starting
  <2>3. \A d \in Callers : d # c => at'[d] = at[d]
    BY <2>1 DEF AllFine
  <2>4. QED BY <1>7, <2>2, <2>3, StillStruck DEF Spawn, CutOffStep
<1>8. CASE SpawnFails(c)
  BY <1>8, AttemptStruck DEF SpawnFails, Starting, CutOffStep
<1>9. CASE InitializeFails(c)
  BY <1>9, AttemptStruck DEF InitializeFails, Starting, CutOffStep
<1>10. CASE Initialize(c)
  BY <1>10, InitializeStruck
<1>11. QED
  BY <1>1, <1>2, <1>3, <1>4, <1>5, <1>6, <1>7, <1>8, <1>9, <1>10 DEF Ensure

(* An error that says the transport is closed: the last strike of the        *)
(* current slot opens the circuit.                                         *)
LEMMA NoteStruck ==
  ASSUME Owned, NEW c \in Callers, NoteStrike(c)
  PROVE  CutOffStep
<1> SUFFICES ASSUME StruckOut', circuit'.state = "closed"
             PROVE  StruckOut /\ circuit.state = "closed"
  BY DEF CutOffStep
<1> TypeOK /\ AllFine
  BY DEF Owned
<1> DEFINE s == at[c].slot
           q == Struck(slots[s])
           p == [q EXCEPT !.client = None]
<1>1. s \in Slots /\ slots[s] \in SlotState
  BY DEF NoteStrike, AllFine, PointsRight, TypeOK, SlotState
<1>2. q \in SlotState /\ p.strikes = q.strikes
  BY <1>1, StruckType DEF SlotState
<1>3. slots' = [slots EXCEPT ![s] = p] /\ current' = current
  BY DEF NoteStrike
<1>4. ~(q.strikes >= MaxStrikes) /\ circuit' = circuit
  BY CircuitCloses DEF NoteStrike, TypeOK
<1>5. current # s
  <2>1. slots'[s].strikes = q.strikes
    BY <1>1, <1>2, <1>3 DEF TypeOK
  <2>2. q.strikes # MaxStrikes
    BY <1>2, <1>4, PoolAssumption DEF SlotState
  <2>3. QED BY <1>3, <2>1, <2>2 DEF StruckOut
<1>6. slots'[current] = slots[current]
  <2>1. current \in Slots
    BY <1>3 DEF StruckOut, TypeOK
  <2>2. QED BY <1>3, <1>5, <2>1 DEF TypeOK
<1>7. Elsewhere(c)
  BY OverElsewhere DEF NoteStrike, Starting
<1>8. QED BY <1>3, <1>4, <1>6, <1>7, ElsewhereStruck

LEMMA UseStruck ==
  ASSUME Owned, NEW c \in Callers, Use(c)
  PROVE  CutOffStep
<1> TypeOK /\ AllFine
  BY DEF Owned
<1>1. CASE Arrive(c)
  <2>1. Elsewhere(c)
    BY <1>1, Places DEF Arrive, Elsewhere, AllFine, Starting
  <2>2. QED BY <1>1, <2>1, ElsewhereStruck, CircuitCloses DEF Arrive, CutOffStep, TypeOK
<1>2. CASE Leave(c)
  <2>1. Elsewhere(c)
    BY <1>2, Places DEF Leave, Elsewhere, AllFine, Starting
  <2>2. QED BY <1>2, <2>1, ElsewhereStruck DEF Leave, CutOffStep
<1>3. CASE Answered(c) \/ Busy(c)
  <2>1. Elsewhere(c)
    BY <1>3, OverElsewhere DEF Answered, Busy, Starting
  <2>2. QED BY <1>3, <2>1, ElsewhereStruck DEF Answered, Busy, CutOffStep
<1>4. CASE LookAgain(c) \/ NoteLook(c)
  <2>1. Elsewhere(c)
    <3>1. CASE Over(c)
      BY <1>4, <3>1, OverElsewhere DEF LookAgain, NoteLook, Starting
    <3>2. CASE ~Over(c)
      <4>1. PICK p \in {"permit", "strike"} :
               at' = [at EXCEPT ![c].pc = p, ![c].slot = current]
        BY <1>4, <3>2 DEF LookAgain, NoteLook
      <4>2. at'[c].pc = p /\ at' = [at EXCEPT ![c] = at'[c]]
        BY <4>1 DEF AllFine, Local
      <4>3. QED BY <1>4, <4>2 DEF LookAgain, NoteLook, Elsewhere, Starting
    <3>3. QED BY <3>1, <3>2
  <2>2. QED BY <1>4, <2>1, ElsewhereStruck DEF LookAgain, NoteLook, CutOffStep
<1>5. CASE TakePermit(c)
  <2> DEFINE r == [at[c] EXCEPT !.pc = "call", !.permit = at[c].slot, !.slot = None]
  <2>1. at' = [at EXCEPT ![c] = r] /\ r.pc = "call"
    BY <1>5 DEF TakePermit, AllFine, Local
  <2>2. Elsewhere(c)
    BY <1>5, <2>1 DEF TakePermit, Elsewhere, AllFine, Starting
  <2>3. QED BY <1>5, <2>2, ElsewhereStruck DEF TakePermit, CutOffStep
<1>6. CASE CallFails(c)
  <2>1. Elsewhere(c)
    BY <1>6, GotoElsewhere DEF CallFails, Starting
  <2>2. QED BY <1>6, <2>1, ElsewhereStruck DEF CallFails, CutOffStep
<1>7. CASE NoteStrike(c)
  BY <1>7, NoteStruck
<1>8. QED BY <1>1, <1>2, <1>3, <1>4, <1>5, <1>6, <1>7 DEF Use

LEMMA ManageStruck ==
  ASSUME Owned, HaltedGone, NEW c \in Callers, Manage(c)
  PROVE  CutOffStep
<1> TypeOK /\ AllFine
  BY DEF Owned
<1>1. ASSUME NEW o \in {"restart", "delete"}, BeginStop(c, o)
      PROVE  CutOffStep
  BY <1>1 DEF BeginStop, CutOffStep, StruckOut
<1>2. CASE Halt(c)
  <2> DEFINE s == at[c].slot
             r == [at[c] EXCEPT !.pc = AfterStop(at[c].op), !.slot = None]
  <2>1. at' = [at EXCEPT ![c] = r] /\ r.pc \in {"reset", "drop"}
    BY <1>2 DEF Halt, AfterStop, AllFine, Local
  <2>2. Elsewhere(c)
    BY <1>2, <2>1 DEF Halt, Elsewhere, AllFine, Starting
  <2>3. s # current
    BY <1>2 DEF Halt, HaltedGone
  <2>4. current \in Slots => slots'[current] = slots[current]
    BY <1>2, <2>3 DEF Halt, TypeOK
  <2>5. StruckOut' => current \in Slots
    BY <1>2 DEF Halt, StruckOut, TypeOK
  <2>6. QED BY <1>2, <2>2, <2>4, <2>5, ElsewhereStruck DEF Halt, CutOffStep
<1>3. CASE ResetCircuit(c)
  BY <1>3, GotoSteady DEF ResetCircuit, CutOffStep
<1>4. CASE Replace(c)
  BY <1>4, FreshNotStruck DEF Replace, CutOffStep
<1>5. CASE DropRow(c)
  <2>1. Elsewhere(c)
    BY <1>5, Places DEF DropRow, Elsewhere, AllFine, Starting
  <2>2. QED BY <1>5, <2>1, ElsewhereStruck DEF DropRow, CutOffStep
<1>6. QED BY <1>1, <1>2, <1>3, <1>4, <1>5 DEF Manage

(* Only Stop leaves a caller with a slot to close. *)
LEMMA OnlyStopHalts ==
  ASSUME Owned, NEW c \in Callers,
         \/ Ensure(c) \/ Use(c)
         \/ Halt(c) \/ ResetCircuit(c) \/ Replace(c) \/ DropRow(c)
  PROVE  /\ at' = [at EXCEPT ![c] = at'[c]] /\ at'[c].pc # "halt"
         /\ current' = current \/ current' \in FreshSlots
<1> TypeOK /\ AllFine
  BY DEF Owned
<1>1. CASE Over(c)
  BY <1>1, OverSteady DEF Ensure, Use, EnsureAllow, EnsureRefused, RowFound, RowRefused,
     FindSlot, Reuse, Start, Spawn, SpawnFails, Initialize, InitializeFails, Arrive, Leave,
     Answered, LookAgain, TakePermit, Busy, CallFails, NoteLook, NoteStrike, Halt,
     ResetCircuit, Replace, DropRow
<1>2. CASE EnsureAllow(c) \/ RowFound(c) \/ CallFails(c) \/ ResetCircuit(c)
  BY <1>2, GotoSteady DEF EnsureAllow, RowFound, CallFails, ResetCircuit
<1>3. CASE FindSlot(c)
  BY <1>3 DEF FindSlot, AllFine, Local
<1>4. CASE Reuse(c) \/ Initialize(c)
  <2>1. PICK k \in Children : Return(c, k)
    BY <1>4 DEF Reuse, Initialize, AllFine, PointsRight, TypeOK, Starting
  <2>2. /\ ToEnsure("list").pc = "ensure"
        /\ [Home EXCEPT !.pc = "ready", !.op = at[c].op, !.child = k].pc = "ready"
    BY LocalTypes DEF Home, ToEnsure
  <2>3. QED BY <1>4, <2>1, <2>2, ReturnFine DEF Reuse, Initialize
<1>5. CASE Start(c)
  BY <1>1, <1>5, GotoSteady DEF Start
<1>6. CASE Spawn(c)
  BY <1>6 DEF Spawn, AllFine, Local
<1>7. CASE SpawnFails(c) \/ InitializeFails(c)
  <2>1. at'[c].pc \in {"idle", "ensure", "start"} /\ at' = [at EXCEPT ![c] = at'[c]]
    BY <1>7, FailedFine, Places DEF SpawnFails, InitializeFails, Starting
  <2>2. QED BY <1>7, <2>1 DEF SpawnFails, InitializeFails
<1>8. CASE Arrive(c) \/ Leave(c) \/ DropRow(c) \/ Replace(c)
  BY <1>8, Places DEF Arrive, Leave, DropRow, Replace, AllFine
<1>9. CASE LookAgain(c) \/ NoteLook(c)
  BY <1>1, <1>9 DEF LookAgain, NoteLook, AllFine, Local
<1>10. CASE TakePermit(c)
  BY <1>10 DEF TakePermit, AllFine, Local
<1>11. CASE EnsureRefused(c) \/ RowRefused(c) \/ Answered(c) \/ Busy(c) \/ NoteStrike(c)
  BY <1>1, <1>11 DEF EnsureRefused, RowRefused, Answered, Busy, NoteStrike
<1>12. CASE Halt(c)
  BY <1>12 DEF Halt, AfterStop, AllFine, Local
<1>13. QED
  BY <1>2, <1>3, <1>4, <1>5, <1>6, <1>7, <1>8, <1>9, <1>10, <1>11, <1>12 DEF Ensure, Use

LEMMA HaltedStep ==
  ASSUME Owned, HaltedGone, [Next]_vars
  PROVE  HaltedGone'
<1> TypeOK /\ AllFine
  BY DEF Owned
<1>1. ASSUME NEW c \in Callers, at' = [at EXCEPT ![c] = at'[c]], at'[c].pc # "halt",
             current' = current \/ current' \in FreshSlots
      PROVE  HaltedGone'
  BY <1>1 DEF HaltedGone, FreshSlots, AllFine
<1>2. ASSUME NEW c \in Callers, NEW o \in {"restart", "delete"}, BeginStop(c, o)
      PROVE  HaltedGone'
  <2> DEFINE r == [Home EXCEPT !.pc = IF current = None THEN AfterStop(o) ELSE "halt",
                               !.op = o, !.slot = current]
  <2>1. at' = [at EXCEPT ![c] = r] /\ current' = None
    BY <1>2 DEF BeginStop
  <2>2. r.slot = current /\ r.pc = IF current = None THEN AfterStop(o) ELSE "halt"
    BY DEF Home
  <2>3. AfterStop(o) # "halt"
    BY DEF AfterStop
  <2>4. r.pc = "halt" => r.slot # None
    BY <2>2, <2>3
  <2>5. \A d \in Callers : at'[d] = IF d = c THEN r ELSE at[d]
    BY <2>1 DEF AllFine
  <2>6. \A d \in Callers : at[d].pc = "halt" => at[d].slot # None
    BY PoolAssumption DEF AllFine, PointsRight
  <2> HIDE DEF r
  <2>7. QED BY <2>1, <2>4, <2>5, <2>6 DEF HaltedGone
<1>3. CASE UNCHANGED <<current, at>>
  BY <1>3 DEF HaltedGone
<1>4. QED BY <1>1, <1>2, <1>3, OnlyStopHalts DEF Next, Manage, Crash, Cool, vars

(* A server whose strikes are used up is cut off until it is restarted or a  *)
(* start of a slot it had dropped comes up.                                *)
THEOREM StrikesCutOff == Spec => StruckOutCutOff
<1>1. Init => Owned /\ HaltedGone
  BY TypeInit DEF Init, Owned, NoStray, Locking, NewSlot, Home, Starting, HaltedGone
<1>2. Owned /\ HaltedGone /\ [Next]_vars => Owned' /\ HaltedGone'
  BY OwnedStep, HaltedStep
<1>3. Owned /\ HaltedGone /\ [Next]_vars => [CutOffStep]_vars
  <2> SUFFICES ASSUME Owned, HaltedGone, Next
               PROVE  CutOffStep
    OBVIOUS
  <2>1. ASSUME NEW k \in Children, Crash(k)
        PROVE  CutOffStep
    <3>1. UNCHANGED <<circuit, current, slots, at>>
      BY <2>1 DEF Crash
    <3>2. QED BY <3>1 DEF CutOffStep, StruckOut, Unlocked
  <2>2. CASE Cool
    BY <2>2, CircuitCloses DEF Cool, CutOffStep, Owned, TypeOK
  <2>3. QED BY <2>1, <2>2, EnsureStruck, UseStruck, ManageStruck DEF Next
<1>4. QED BY <1>1, <1>2, <1>3, PTL DEF Spec, StruckOutCutOff, CutOffStep
=============================================================================
