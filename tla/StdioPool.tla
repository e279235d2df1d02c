----------------------------- MODULE StdioPool -----------------------------
(***************************************************************************)
(* stdio.Manager for one local MCP server: process slots, the children     *)
(* they own, strikes and the circuit shared with the proxy, under          *)
(* concurrent requests, re-indexings and deletions.                        *)
(*                                                                         *)
(* A section under Manager.mu is one step.  A slot's own mutex is held     *)
(* over many steps only by startLocked, so a slot is locked while a caller *)
(* is starting in it.  A slot has a client exactly while its status is     *)
(* running whenever its mutex is free, so there is no status.              *)
(***************************************************************************)
EXTENDS Circuit, FiniteSets

CONSTANTS
  Callers,      \* goroutines: requests, re-indexings, deletions
  Slots,        \* identities for process structs
  Children,     \* identities for clients and their child processes
  None,
  MaxInFlight,  \* concurrent tools/calls of one slot
  MaxStrikes    \* strikes that open the circuit

ASSUME PoolAssumption ==
  /\ IsFiniteSet(Callers)
  /\ None \notin Slots \cup Children
  /\ MaxInFlight \in Nat \ {0} /\ MaxStrikes \in Nat \ {0}

VARIABLES
  circuit,   \* the server's circuit
  current,   \* Manager.procs[server], or None
  slots,     \* the process structs: client, strikes up to MaxStrikes, closed
  alive,     \* children that run
  exists,    \* the server's row is in the store
  at         \* each caller's progress and locals

vars == <<circuit, current, slots, alive, exists, at>>

NewSlot == [client |-> None, strikes |-> 0, closed |-> FALSE]

(* slot: the struct looked up; child: the client Ensure returned or          *)
(* startLocked spawned; permit: the struct whose semaphore is held; tries:   *)
(* failed attempts of this startLocked.                                    *)
Home == [pc |-> "idle", op |-> "none", slot |-> None, child |-> None,
         permit |-> None, tries |-> 0]
ToEnsure(o) == [Home EXCEPT !.pc = "ensure", !.op = o]

Starting == {"start", "init"}
Unlocked(s) == \A c \in Callers : ~(at[c].pc \in Starting /\ at[c].slot = s)
Holders(s) == {c \in Callers : at[c].permit = s}

(* Nothing points to these: the allocator may hand them out. *)
FreshSlots ==
  {s \in Slots : /\ s # current /\ slots[s].client = None
                 /\ \A c \in Callers : at[c].slot # s /\ at[c].permit # s}
FreshChildren ==
  {k \in Children : /\ k \notin alive
                    /\ \A s \in Slots : slots[s].client # k
                    /\ \A c \in Callers : at[c].child # k}

Struck(p) == [p EXCEPT !.strikes = IF @ < MaxStrikes THEN @ + 1 ELSE @]

(* The answer to one message is ready: a request goes on with the next of    *)
(* its batch, what else there is ends.                                     *)
Over(c) ==
  at' = [at EXCEPT ![c] = IF @.op = "request" THEN ToEnsure("request") ELSE Home]

Goto(c, p) == at' = [at EXCEPT ![c].pc = p]
----------------------------------------------------------------------------
(* Requests: the proxy's own Allow, then the bridge's batch. *)

Arrive(c) ==
  /\ at[c].pc = "idle" /\ exists /\ Allows(circuit)
  /\ circuit' = Allow(circuit)
  /\ at' = [at EXCEPT ![c] = ToEnsure("request")]
  /\ UNCHANGED <<current, slots, alive, exists>>

(* The batch ends, or had only messages the bridge answers itself. *)
Leave(c) ==
  /\ at[c].pc = "ensure" /\ at[c].op = "request"
  /\ at' = [at EXCEPT ![c] = Home]
  /\ UNCHANGED <<circuit, current, slots, alive, exists>>

(* Ensure: the breaker again, the row, the slot, its mutex. *)

EnsureAllow(c) ==
  /\ at[c].pc = "ensure" /\ Allows(circuit)
  /\ circuit' = Allow(circuit)
  /\ Goto(c, "row")
  /\ UNCHANGED <<current, slots, alive, exists>>

EnsureRefused(c) ==
  /\ at[c].pc = "ensure" /\ ~Allows(circuit)
  /\ Over(c)
  /\ UNCHANGED <<circuit, current, slots, alive, exists>>

RowFound(c) ==
  /\ at[c].pc = "row" /\ exists
  /\ Goto(c, "find")
  /\ UNCHANGED <<circuit, current, slots, alive, exists>>

(* No such row, a failed statement, or a command line that does not parse. *)
RowRefused(c) ==
  /\ at[c].pc = "row"
  /\ Over(c)
  /\ UNCHANGED <<circuit, current, slots, alive, exists>>

FindSlot(c) ==
  /\ at[c].pc = "find"
  /\ \/ /\ current # None
        /\ UNCHANGED <<current, slots>>
     \/ /\ current = None
        /\ current' \in FreshSlots
        /\ slots' = [slots EXCEPT ![current'] = NewSlot]
  /\ at' = [at EXCEPT ![c].pc = "lock", ![c].slot = current']
  /\ UNCHANGED <<circuit, alive, exists>>

(* Ensure returns client k.  A re-indexing goes on to list the tools. *)
Return(c, k) ==
  at' = [at EXCEPT ![c] = IF @.op = "restart" THEN ToEnsure("list")
                          ELSE [Home EXCEPT !.pc = "ready", !.op = at[c].op, !.child = k]]

Reuse(c) ==
  /\ at[c].pc = "lock" /\ Unlocked(at[c].slot)
  /\ slots[at[c].slot].client # None
  /\ Return(c, slots[at[c].slot].client)
  /\ UNCHANGED <<circuit, current, slots, alive, exists>>

(* Mutant: a stopped slot is started like any other. *)
StartAnyway(c) ==
  /\ at[c].pc = "lock" /\ Unlocked(at[c].slot)
  /\ slots[at[c].slot].client = None
  /\ Goto(c, "start")
  /\ UNCHANGED <<circuit, current, slots, alive, exists>>

Start(c) ==
  /\ at[c].pc = "lock" /\ Unlocked(at[c].slot)
  /\ slots[at[c].slot].client = None
  /\ IF slots[at[c].slot].closed THEN Over(c) ELSE Goto(c, "start")
  /\ UNCHANGED <<circuit, current, slots, alive, exists>>
----------------------------------------------------------------------------
(* startLocked: MaxStrikes + 1 attempts, each a spawn and an initialize. *)

Spawn(c) ==
  /\ at[c].pc = "start"
  /\ \E k \in FreshChildren :
       /\ alive' = alive \cup {k}
       /\ at' = [at EXCEPT ![c].pc = "init", ![c].child = k]
  /\ UNCHANGED <<circuit, current, slots, exists>>

(* Mutant: one attempt too many. *)
AttemptFailedLate(c) ==
  /\ slots' = [slots EXCEPT ![at[c].slot] = Struck(@)]
  /\ IF at[c].tries <= MaxStrikes
     THEN /\ at' = [at EXCEPT ![c] = [@ EXCEPT !.pc = "start", !.child = None,
                                          !.tries = at[c].tries + 1]]
          /\ UNCHANGED circuit
     ELSE Over(c) /\ circuit' = ForceOpen(circuit)

AttemptFailed(c) ==
  /\ slots' = [slots EXCEPT ![at[c].slot] = Struck(@)]
  /\ IF at[c].tries < MaxStrikes
     THEN /\ at' = [at EXCEPT ![c] = [@ EXCEPT !.pc = "start", !.child = None,
                                          !.tries = at[c].tries + 1]]
          /\ UNCHANGED circuit
     ELSE Over(c) /\ circuit' = ForceOpen(circuit)

SpawnFails(c) ==
  /\ at[c].pc = "start"
  /\ AttemptFailed(c)
  /\ UNCHANGED <<current, alive, exists>>

(* Also when the request that is starting the child goes away. *)
InitializeFails(c) ==
  /\ at[c].pc = "init"
  /\ alive' = alive \ {at[c].child}
  /\ AttemptFailed(c)
  /\ UNCHANGED <<current, exists>>

Initialize(c) ==
  /\ at[c].pc = "init" /\ at[c].child \in alive
  /\ slots' = [slots EXCEPT ![at[c].slot].client = at[c].child]
  /\ circuit' = IF slots[at[c].slot].strikes = 0 THEN Reset(circuit) ELSE circuit
  /\ Return(c, at[c].child)
  /\ UNCHANGED <<current, alive, exists>>

Crash(k) ==
  /\ k \in alive
  /\ alive' = alive \ {k}
  /\ UNCHANGED <<circuit, current, slots, exists, at>>
----------------------------------------------------------------------------
(* What is done with the client.  A result, or an error that does not say    *)
(* the transport is closed, changes nothing; the permit is given back.     *)

Answered(c) ==
  /\ at[c].pc \in {"ready", "call"}
  /\ Over(c)
  /\ UNCHANGED <<circuit, current, slots, alive, exists>>

(* tools/call looks the slot up once more. *)
LookAgain(c) ==
  /\ at[c].pc = "ready" /\ at[c].op = "request"
  /\ IF current = None THEN Over(c)
     ELSE at' = [at EXCEPT ![c].pc = "permit", ![c].slot = current]
  /\ UNCHANGED <<circuit, current, slots, alive, exists>>

(* Mutant: the semaphore has one place too many. *)
TakePermitLate(c) ==
  /\ at[c].pc = "permit"
  /\ Cardinality(Holders(at[c].slot)) <= MaxInFlight
  /\ at' = [at EXCEPT ![c] = [@ EXCEPT !.pc = "call", !.permit = at[c].slot, !.slot = None]]
  /\ UNCHANGED <<circuit, current, slots, alive, exists>>

TakePermit(c) ==
  /\ at[c].pc = "permit"
  /\ Cardinality(Holders(at[c].slot)) < MaxInFlight
  /\ at' = [at EXCEPT ![c] = [@ EXCEPT !.pc = "call", !.permit = at[c].slot, !.slot = None]]
  /\ UNCHANGED <<circuit, current, slots, alive, exists>>

(* InFlightWait is over, or the client is gone. *)
Busy(c) ==
  /\ at[c].pc = "permit"
  /\ Over(c)
  /\ UNCHANGED <<circuit, current, slots, alive, exists>>

(* noteClientError: the child died, was closed, or its own error message     *)
(* contains "closed" or "EOF".                                             *)
CallFails(c) ==
  /\ at[c].pc \in {"ready", "call"}
  /\ Goto(c, "note")
  /\ UNCHANGED <<circuit, current, slots, alive, exists>>

NoteLook(c) ==
  /\ at[c].pc = "note"
  /\ IF current = None THEN Over(c)
     ELSE at' = [at EXCEPT ![c].pc = "strike", ![c].slot = current]
  /\ UNCHANGED <<circuit, current, slots, alive, exists>>

(* Mutant: the strikes are compared before the new one counts. *)
NoteStrikeBefore(c) ==
  /\ at[c].pc = "strike" /\ Unlocked(at[c].slot)
  /\ LET p == slots[at[c].slot] IN
       /\ alive' = alive \ {p.client}
       /\ slots' = [slots EXCEPT ![at[c].slot] = [Struck(p) EXCEPT !.client = None]]
       /\ circuit' = IF p.strikes >= MaxStrikes THEN ForceOpen(circuit) ELSE circuit
  /\ Over(c)
  /\ UNCHANGED <<current, exists>>

NoteStrike(c) ==
  /\ at[c].pc = "strike" /\ Unlocked(at[c].slot)
  /\ LET p == Struck(slots[at[c].slot]) IN
       /\ alive' = alive \ {p.client}
       /\ slots' = [slots EXCEPT ![at[c].slot] = [p EXCEPT !.client = None]]
       /\ circuit' = IF p.strikes >= MaxStrikes THEN ForceOpen(circuit) ELSE circuit
  /\ Over(c)
  /\ UNCHANGED <<current, exists>>
----------------------------------------------------------------------------
(* Stop, for Restart (re-indexing) and for deleteServer. *)

AfterStop(o) == IF o = "restart" THEN "reset" ELSE "drop"

BeginStop(c, o) ==
  /\ at[c].pc = "idle" /\ exists
  /\ current' = None
  /\ at' = [at EXCEPT ![c] =
              [Home EXCEPT !.pc = IF current = None THEN AfterStop(o) ELSE "halt",
                           !.op = o, !.slot = current]]
  /\ UNCHANGED <<circuit, slots, alive, exists>>

Halt(c) ==
  /\ at[c].pc = "halt" /\ Unlocked(at[c].slot)
  /\ alive' = alive \ {slots[at[c].slot].client}
  /\ slots' = [slots EXCEPT ![at[c].slot] = [@ EXCEPT !.client = None, !.closed = TRUE]]
  /\ at' = [at EXCEPT ![c] = [@ EXCEPT !.pc = AfterStop(at[c].op), !.slot = None]]
  /\ UNCHANGED <<circuit, current, exists>>

ResetCircuit(c) ==
  /\ at[c].pc = "reset"
  /\ circuit' = Reset(circuit)
  /\ Goto(c, "replace")
  /\ UNCHANGED <<current, slots, alive, exists>>

(* Whatever slot an Ensure put there since Stop is dropped unseen. *)
Replace(c) ==
  /\ at[c].pc = "replace"
  /\ current' \in FreshSlots
  /\ slots' = [slots EXCEPT ![current'] = NewSlot]
  /\ at' = [at EXCEPT ![c] = ToEnsure("restart")]
  /\ UNCHANGED <<circuit, alive, exists>>

(* DeleteServer, which may fail and leave the row to a stopped server. *)
DropRow(c) ==
  /\ at[c].pc = "drop"
  /\ exists' \in {exists, FALSE}
  /\ at' = [at EXCEPT ![c] = Home]
  /\ UNCHANGED <<circuit, current, slots, alive>>

Cool ==
  /\ circuit.state = "open" /\ ~circuit.cooled
  /\ circuit' = CoolDown(circuit)
  /\ UNCHANGED <<current, slots, alive, exists, at>>

Init ==
  /\ circuit = Closed
  /\ current = None
  /\ slots = [s \in Slots |-> NewSlot]
  /\ alive = {}
  /\ exists = TRUE
  /\ at = [c \in Callers |-> Home]

Ensure(c) ==
  \/ EnsureAllow(c) \/ EnsureRefused(c) \/ RowFound(c) \/ RowRefused(c)
  \/ FindSlot(c) \/ Reuse(c) \/ Start(c)
  \/ Spawn(c) \/ SpawnFails(c) \/ Initialize(c) \/ InitializeFails(c)

Use(c) ==
  \/ Arrive(c) \/ Leave(c) \/ Answered(c) \/ LookAgain(c) \/ TakePermit(c)
  \/ Busy(c) \/ CallFails(c) \/ NoteLook(c) \/ NoteStrike(c)

Manage(c) ==
  \/ \E o \in {"restart", "delete"} : BeginStop(c, o)
  \/ Halt(c) \/ ResetCircuit(c) \/ Replace(c) \/ DropRow(c)

Next ==
  \/ \E c \in Callers : Ensure(c) \/ Use(c) \/ Manage(c)
  \/ \E k \in Children : Crash(k)
  \/ Cool

Spec == Init /\ [][Next]_vars
----------------------------------------------------------------------------
TypeOK ==
  /\ circuit \in CircuitState
  /\ current \in Slots \cup {None}
  /\ slots \in [Slots -> [client : Children \cup {None}, strikes : 0..MaxStrikes,
                          closed : BOOLEAN]]
  /\ alive \subseteq Children
  /\ exists \in BOOLEAN
  /\ at \in [Callers ->
       [pc : {"idle", "ensure", "row", "find", "lock", "start", "init", "ready", "permit",
              "call", "note", "strike", "halt", "reset", "replace", "drop"},
        op : {"none", "request", "list", "restart", "delete"},
        slot : Slots \cup {None}, child : Children \cup {None},
        permit : Slots \cup {None}, tries : 0..MaxStrikes]]

(* The breaker's own invariant survives the manager's Reset and ForceOpen,   *)
(* whichever caller's stale view they come from.                           *)
Shape == CircuitShape(circuit)

(* A child that runs belongs to a slot that was not stopped or to the caller *)
(* that is starting it; a stopped slot never gets another one, whoever still *)
(* points to it.  So no child outlives the Stop of its slot.               *)
NoStray ==
  /\ \A k \in alive :
       \/ \E s \in Slots : slots[s].client = k
       \/ \E c \in Callers : at[c].pc = "init" /\ at[c].child = k
  /\ \A s \in Slots : slots[s].closed => slots[s].client = None

(* Calls in flight on the child of the current slot never pass the cap,      *)
(* although the semaphore is looked up after the client.                   *)
CurrentCapped ==
  Cardinality({c \in Callers : at[c].pc = "call"
                 /\ current # None /\ at[c].child = slots[current].client}) <= MaxInFlight

(* The current slot has used up its strikes, has no client and is not being  *)
(* started: nothing but the circuit keeps the next request from spending    *)
(* more children on it.                                                    *)
StruckOut ==
  /\ current # None
  /\ slots[current].strikes = MaxStrikes /\ slots[current].client = None
  /\ Unlocked(current)

(* A slot that somebody still starts, although it is the current one no      *)
(* more, comes up without a strike and so resets the circuit.              *)
StaleStart ==
  \E c \in Callers :
    /\ at[c].pc = "init" /\ at[c].slot # current
    /\ slots[at[c].slot].strikes = 0 /\ slots'[at[c].slot].client = at[c].child

(* A server whose strikes are used up is cut off: no step leaves its current *)
(* slot struck out behind a closed circuit, unless it was so before, or a   *)
(* restart resets the circuit on its way to replace the slot, or a stale    *)
(* start does.                                                             *)
StruckOutCutOff ==
  [][StruckOut' /\ circuit'.state = "closed" =>
       \/ StruckOut /\ circuit.state = "closed"
       \/ \E c \in Callers : at[c].pc = "reset" /\ at'[c].pc = "replace"
       \/ StaleStart]_vars

(* docs/STDIO.md promises one gateway-owned process per stdio server: when    *)
(* nobody is at work on it, at most one child runs.                        *)
OneProcess == (\A c \in Callers : at[c].pc = "idle") => Cardinality(alive) <= 1
=============================================================================
