-------------------------- MODULE KeyServerProofs ---------------------------
(***************************************************************************)
(* What is configured for gateway keys and servers, for any number of keys,*)
(* servers, callers and requests in flight: the plaintext of a key is in   *)
(* one answer, and a refresh token of an upstream is presented again only  *)
(* when its successor was lost.                                            *)
(***************************************************************************)
EXTENDS KeysPage, KeyDrawer, ServersPage, UpstreamOAuth, TLAPS

-----------------------------------------------------------------------------
(* Gateway keys.                                                           *)

Dialog == [kind : {"none", "create", "kill", "delete"}, key : Keys \cup {None}]
PageOfKeys == [rows : [Keys -> Statuses], dialog : Dialog,
               created : Keys \cup {None}, saving : BOOLEAN]
KeySlot == Slot(KeyOps, Keys, Keys \cup [Keys -> Statuses])

(* What a request of the page carries: createKey's answer is a key, a list's *)
(* a table; a create is in flight only while the form waits for it, and no   *)
(* plaintext is on the page before its answer has come.                      *)
Carried(c) ==
  /\ keyCalls[c].op = "create" /\ keyCalls[c].at = "answered" => keyCalls[c].ans \in Keys
  /\ keyCalls[c].op \in {"list", "listAfterCreate"} /\ keyCalls[c].at = "answered"
       => keyCalls[c].ans \in [Keys -> Statuses]
  /\ keyCalls[c].op = "create" => keysUI.created = None
  /\ keyCalls[c].op \in {"create", "listAfterCreate"} => keysUI.saving

Creating(c) == keyCalls[c].op \in {"create", "listAfterCreate"}

KeysInv ==
  /\ KeysTypeOK
  /\ \A c \in Calls : Carried(c)
  /\ \A c, d \in Calls : Creating(c) /\ Creating(d) => c = d

(* A slot whose request is sent, answered, refused or over keeps its type.   *)
LEMMA SlotMoves ==
  ASSUME NEW c \in Calls, keyCalls \in [Calls -> KeySlot]
  PROVE  /\ \A op \in KeyOps, arg \in Keys \cup {None} :
              Send(keyCalls, c, op, arg) \in [Calls -> KeySlot]
         /\ \A ans \in Keys \cup [Keys -> Statuses] \cup {None} :
              Answer(keyCalls, c, ans) \in [Calls -> KeySlot]
         /\ Reject(keyCalls, c) \in [Calls -> KeySlot]
         /\ End(keyCalls, c) \in [Calls -> KeySlot]
BY DEF KeySlot, Slot, Places, Send, Answer, Reject, End, Idle

(* What the slots hold then.                                                *)
LEMMA SlotHolds ==
  ASSUME NEW c \in Calls, keyCalls \in [Calls -> KeySlot]
  PROVE  /\ \A op, arg :
              /\ Send(keyCalls, c, op, arg)[c].op = op
              /\ Send(keyCalls, c, op, arg)[c].at = "sent"
              /\ \A d \in Calls \ {c} : Send(keyCalls, c, op, arg)[d] = keyCalls[d]
         /\ \A ans :
              /\ Answer(keyCalls, c, ans)[c].op = keyCalls[c].op
              /\ Answer(keyCalls, c, ans)[c].ans = ans
              /\ \A d \in Calls \ {c} : Answer(keyCalls, c, ans)[d] = keyCalls[d]
         /\ Reject(keyCalls, c)[c].op = keyCalls[c].op
         /\ Reject(keyCalls, c)[c].at = "failed"
         /\ \A d \in Calls \ {c} : Reject(keyCalls, c)[d] = keyCalls[d]
         /\ End(keyCalls, c)[c].op = None
         /\ \A d \in Calls \ {c} : End(keyCalls, c)[d] = keyCalls[d]
BY DEF KeySlot, Slot, Send, Answer, Reject, End, Idle

(* The page's state after one of its fields changed.                        *)
LEMMA PageMoves ==
  ASSUME keysUI \in PageOfKeys
  PROVE  /\ \A d \in Dialog : [keysUI EXCEPT !.dialog = d] \in PageOfKeys
         /\ \A d \in Dialog, k \in Keys \cup {None} :
              [keysUI EXCEPT !.dialog = d, !.created = k] \in PageOfKeys
         /\ \A b \in BOOLEAN : [keysUI EXCEPT !.saving = b] \in PageOfKeys
         /\ \A k \in Keys \cup {None} : [keysUI EXCEPT !.created = k] \in PageOfKeys
BY DEF PageOfKeys, Dialog

LEMMA DialogTypes ==
  /\ NoDialog \in Dialog
  /\ Ask("create", None) \in Dialog
  /\ \A k \in Keys : Ask("kill", k) \in Dialog /\ Ask("delete", k) \in Dialog
BY DEF NoDialog, Ask, Dialog

LEMMA KeysInvariant == KeysSpec => []KeysInv
<1>1. KeysInit => KeysInv
  <2> SUFFICES ASSUME KeysInit PROVE KeysInv
    OBVIOUS
  <2>1. keyRow \in [Keys -> Statuses \cup {"deleted"}]
    BY DEF KeysInit, Statuses
  <2>2. keysUI \in PageOfKeys
    BY DialogTypes DEF KeysInit, PageOfKeys, Statuses
  <2>3. keyCalls \in [Calls -> KeySlot]
    BY DEF KeysInit, KeySlot, Slot, Places, Idle
  <2>4. \A c \in Calls : keyCalls[c].op = None
    BY DEF KeysInit, Idle
  <2>5. QED BY <2>1, <2>2, <2>3, <2>4, KeysAssumption
    DEF KeysInv, KeysTypeOK, PageOfKeys, Dialog, KeySlot, Carried, Creating, KeyOps
<1>2. KeysInv /\ [KeysNext]_keysVars => KeysInv'
  <2> SUFFICES ASSUME KeysInv, [KeysNext]_keysVars PROVE KeysInv'
    OBVIOUS
  <2>a. /\ keyRow \in [Keys -> Statuses \cup {"deleted"}]
        /\ keysUI \in PageOfKeys /\ keyCalls \in [Calls -> KeySlot]
        /\ \A c \in Calls : Carried(c)
        /\ \A c, d \in Calls : Creating(c) /\ Creating(d) => c = d
    BY DEF KeysInv, KeysTypeOK, PageOfKeys, Dialog, KeySlot
  <2>b. ASSUME keyRow' \in [Keys -> Statuses \cup {"deleted"}],
               keysUI' \in PageOfKeys, keyCalls' \in [Calls -> KeySlot],
               \A c \in Calls : Carried(c)',
               \A c, d \in Calls : Creating(c)' /\ Creating(d)' => c = d
        PROVE  KeysInv'
    BY <2>b DEF KeysInv, KeysTypeOK, PageOfKeys, Dialog, KeySlot
  <2>c. None # "create" /\ None # "list" /\ None # "listAfterCreate"
    BY KeysAssumption DEF KeyOps
  <2>1. CASE UNCHANGED keysVars
    BY <2>1, <2>a, <2>b DEF keysVars, Carried, Creating
  <2>2. ASSUME keysUI' \in PageOfKeys, UNCHANGED <<keyRow, keyCalls>>,
               keysUI'.created = keysUI.created \/ keysUI'.created = None,
               keysUI'.saving = keysUI.saving
        PROVE  KeysInv'
    <3>1. \A c \in Calls : Carried(c)'
      BY <2>2, <2>a DEF Carried
    <3>2. \A c, d \in Calls : Creating(c)' /\ Creating(d)' => c = d
      BY <2>2, <2>a DEF Creating
    <3>3. QED BY <3>1, <3>2, <2>2, <2>a, <2>b
  <2>3. CASE OpenCreate \/ CloseCreate \/ CancelAsk
    <3>1. PICK d \in Dialog : keysUI' = [keysUI EXCEPT !.dialog = d]
                              \/ keysUI' = [keysUI EXCEPT !.dialog = d, !.created = None]
      BY <2>3, DialogTypes DEF OpenCreate, CloseCreate, CancelAsk
    <3>2. keysUI' \in PageOfKeys
      BY <3>1, <2>a DEF PageOfKeys
    <3>3. QED BY <2>2, <2>3, <3>2, <2>a DEF OpenCreate, CloseCreate, CancelAsk, PageOfKeys
  <2>4. ASSUME NEW k \in Keys, AskKey("kill", k) \/ AskKey("delete", k) PROVE KeysInv'
    <3>1. keysUI' \in PageOfKeys
      BY <2>4, <2>a, PageMoves, DialogTypes DEF AskKey
    <3>2. QED BY <2>2, <2>4, <3>1, <2>a DEF AskKey, PageOfKeys
  <2>5. ASSUME NEW c \in Calls, NEW op \in KeyOps \ {"create", "listAfterCreate"},
               NEW arg \in Keys \cup {None}, keyCalls' = Send(keyCalls, c, op, arg),
               UNCHANGED <<keyRow, keysUI>>
        PROVE  KeysInv'
    <3>1. keyCalls' \in [Calls -> KeySlot]
      BY <2>5, <2>a, SlotMoves
    <3>2. \A d \in Calls : Carried(d)'
      BY <2>5, <2>a, <2>c, SlotHolds DEF Carried
    <3>3. \A d, e \in Calls : Creating(d)' /\ Creating(e)' => d = e
      BY <2>5, <2>a, SlotHolds DEF Creating
    <3>4. QED BY <3>1, <3>2, <3>3, <2>5, <2>a, <2>b
  <2>6. ASSUME NEW c \in Calls, ReloadKeys(c) \/ ConfirmAsk(c) PROVE KeysInv'
    <3>1. keysUI.dialog.key \in Keys \cup {None}
      BY <2>a DEF PageOfKeys, Dialog
    <3>2. QED BY <2>5, <2>6, <3>1 DEF ReloadKeys, ConfirmAsk, KeyOps
  <2>7. ASSUME NEW c \in Calls, NEW k \in Keys, Unkill(c, k) PROVE KeysInv'
    BY <2>5, <2>7 DEF Unkill, KeyOps
  <2>8. ASSUME NEW c \in Calls, SubmitKey(c) PROVE KeysInv'
    <3>1. keyCalls' \in [Calls -> KeySlot]
      BY <2>8, <2>a, SlotMoves DEF SubmitKey, KeyOps
    <3>2. keysUI' \in PageOfKeys
      BY <2>8, <2>a, PageMoves DEF SubmitKey
    <3>3. keysUI'.saving /\ keysUI'.created = None
      BY <2>8, <2>a DEF SubmitKey, CanSubmit, PageOfKeys
    <3>4. \A d \in Calls : ~Creating(d)
      BY <2>8, <2>a DEF SubmitKey, CanSubmit, Carried, Creating
    <3>5. \A d \in Calls : Carried(d)'
      BY <2>8, <2>a, <2>c, <3>3, <3>4, SlotHolds DEF SubmitKey, Carried, Creating
    <3>6. \A d, e \in Calls : Creating(d)' /\ Creating(e)' => d = e
      BY <2>8, <2>a, <3>4, SlotHolds DEF SubmitKey, Creating
    <3>7. QED BY <3>1, <3>2, <3>5, <3>6, <2>8, <2>a, <2>b DEF SubmitKey

  <2>9. ASSUME NEW c \in Calls, ServeCreate(c) PROVE KeysInv'
    <3>1. PICK k \in Keys : keyRow' = [keyRow EXCEPT ![k] = "active"]
                            /\ keyCalls' = Answer(keyCalls, c, k)
      BY <2>9 DEF ServeCreate
    <3>2. keyCalls[c].op = "create" /\ keysUI' = keysUI
      BY <2>9 DEF ServeCreate
    <3>3. keyCalls' \in [Calls -> KeySlot]
      BY <3>1, <2>a, SlotMoves DEF KeyOps
    <3>4. keyRow' \in [Keys -> Statuses \cup {"deleted"}]
      BY <3>1, <2>a DEF Statuses
    <3>5. \A d \in Calls : Carried(d)'
      BY <3>1, <3>2, <2>a, SlotHolds DEF Carried
    <3>6. \A d, e \in Calls : Creating(d)' /\ Creating(e)' => d = e
      BY <3>1, <2>a, SlotHolds DEF Creating
    <3>7. QED BY <3>2, <3>3, <3>4, <3>5, <3>6, <2>a, <2>b
  <2>10. ASSUME NEW c \in Calls, ServeList(c) PROVE KeysInv'
    <3>1. Listed \in [Keys -> Statuses]
      BY DEF Listed, Exists, Statuses
    <3>2. keyCalls' \in [Calls -> KeySlot]
      BY <2>10, <3>1, <2>a, SlotMoves DEF ServeList, KeyOps
    <3>3. \A d \in Calls : Carried(d)'
      BY <2>10, <3>1, <2>a, <2>c, SlotHolds DEF ServeList, Carried
    <3>4. \A d, e \in Calls : Creating(d)' /\ Creating(e)' => d = e
      BY <2>10, <2>a, SlotHolds DEF ServeList, Creating
    <3>5. QED BY <2>10, <3>2, <3>3, <3>4, <2>a, <2>b DEF ServeList
  <2>11. ASSUME NEW c \in Calls, Fails(c), UNCHANGED <<keyRow, keysUI>> PROVE KeysInv'
    <3>1. keyCalls' \in [Calls -> KeySlot]
      BY <2>11, <2>a, SlotMoves DEF Fails, KeyOps
    <3>2. \A d \in Calls : Carried(d)'
      BY <2>11, <2>a, <2>c, SlotHolds DEF Fails, Carried
    <3>3. \A d, e \in Calls : Creating(d)' /\ Creating(e)' => d = e
      BY <2>11, <2>a, <2>c, SlotHolds DEF Fails, Creating
    <3>4. QED BY <2>11, <3>1, <3>2, <3>3, <2>a, <2>b
  <2>12. ASSUME NEW c \in Calls, BreakKeyCall(c) PROVE KeysInv'
    BY <2>11, <2>12 DEF BreakKeyCall
  <2>13. ASSUME NEW c \in Calls, ServeKey(c) PROVE KeysInv'
    <3>1. CASE ~Exists(keyCalls[c].arg)
      BY <2>11, <2>13, <3>1 DEF ServeKey
    <3>2. CASE Exists(keyCalls[c].arg)
      <4>1. /\ keyRow' = [keyRow EXCEPT ![keyCalls[c].arg] = After[keyCalls[c].op]]
            /\ keyCalls' = Answer(keyCalls, c, None) /\ keysUI' = keysUI
            /\ keyCalls[c].op \in {"kill", "unkill", "delete"}
        BY <2>13, <3>2 DEF ServeKey
      <4>2. After[keyCalls[c].op] \in Statuses \cup {"deleted"}
        BY <4>1 DEF After, Statuses
      <4>3. keyCalls' \in [Calls -> KeySlot]
        BY <4>1, <2>a, SlotMoves DEF KeyOps
      <4>4. \A d \in Calls : Carried(d)'
        BY <4>1, <2>a, SlotHolds DEF Carried
      <4>5. \A d, e \in Calls : Creating(d)' /\ Creating(e)' => d = e
        BY <4>1, <2>a, SlotHolds DEF Creating
      <4>6. QED BY <4>1, <4>2, <4>3, <4>4, <4>5, <2>a, <2>b
    <3>3. QED BY <3>1, <3>2
  <2>14. ASSUME NEW c \in Calls, SettleCreate(c) PROVE KeysInv'
    <3>1. keyCalls[c].op = "create" /\ keyRow' = keyRow
      BY <2>14 DEF SettleCreate
    <3>2. \A d \in Calls \ {c} : ~Creating(d)
      BY <3>1, <2>a DEF Creating
    <3>3. CASE keyCalls[c].at = "answered"
      <4>1. /\ keysUI' = [keysUI EXCEPT !.created = keyCalls[c].ans]
            /\ keyCalls' = Send(keyCalls, c, "listAfterCreate", None)
        BY <2>14, <3>3 DEF SettleCreate
      <4>2. keyCalls[c].ans \in Keys /\ keysUI.saving
        BY <3>1, <3>3, <2>a DEF Carried
      <4>3. keysUI' \in PageOfKeys /\ keysUI'.saving
        BY <4>1, <4>2, <2>a, PageMoves DEF PageOfKeys
      <4>4. keyCalls' \in [Calls -> KeySlot]
        BY <4>1, <2>a, SlotMoves DEF KeyOps
      <4>5. \A d \in Calls : Carried(d)'
        BY <4>1, <4>3, <3>2, <2>a, SlotHolds DEF Carried, Creating
      <4>6. \A d, e \in Calls : Creating(d)' /\ Creating(e)' => d = e
        BY <4>1, <3>2, <2>a, SlotHolds DEF Creating
      <4>7. QED BY <3>1, <4>3, <4>4, <4>5, <4>6, <2>a, <2>b
    <3>4. CASE keyCalls[c].at # "answered"
      <4>1. keysUI' = [keysUI EXCEPT !.saving = FALSE] /\ keyCalls' = End(keyCalls, c)
        BY <2>14, <3>4 DEF SettleCreate
      <4>2. keysUI' \in PageOfKeys /\ keysUI'.created = keysUI.created
        BY <4>1, <2>a, PageMoves DEF PageOfKeys
      <4>3. keyCalls' \in [Calls -> KeySlot]
        BY <4>1, <2>a, SlotMoves DEF KeyOps
      <4>4. \A d \in Calls : Carried(d)'
        BY <4>1, <4>2, <3>2, <2>a, <2>c, SlotHolds DEF Carried, Creating
      <4>5. \A d, e \in Calls : Creating(d)' /\ Creating(e)' => d = e
        BY <4>1, <2>a, <2>c, SlotHolds DEF Creating
      <4>6. QED BY <3>1, <4>2, <4>3, <4>4, <4>5, <2>a, <2>b
    <3>5. QED BY <3>3, <3>4
  <2>15. ASSUME NEW c \in Calls, SettleList(c) PROVE KeysInv'
    <3>1. /\ keyCalls[c].op \in {"list", "listAfterCreate"}
          /\ keyCalls' = End(keyCalls, c) /\ keyRow' = keyRow
      BY <2>15 DEF SettleList
    <3>2. /\ keysUI' \in PageOfKeys /\ keysUI'.created = keysUI.created
          /\ keysUI'.saving = (keysUI.saving /\ keyCalls[c].op = "list")
      BY <2>15, <2>a DEF SettleList, PageOfKeys, Carried
    <3>3. keyCalls' \in [Calls -> KeySlot]
      BY <3>1, <2>a, SlotMoves DEF KeyOps
    <3>4. \A d \in Calls : Creating(d)' => Creating(d) /\ d # c
      BY <3>1, <2>a, <2>c, SlotHolds DEF Creating
    <3>5. \A d \in Calls \ {c} : Creating(d) => keysUI'.saving
      <4>1. \A d \in Calls \ {c} : Creating(d) => keyCalls[c].op = "list" /\ keysUI.saving
        BY <3>1, <2>a DEF Carried, Creating
      <4>2. QED BY <4>1, <3>2
    <3>6. \A d \in Calls : Carried(d)'
      <4>1. Carried(c)'
        BY <3>1, <2>a, <2>c, SlotHolds DEF Carried
      <4>2. \A d \in Calls \ {c} : keyCalls'[d] = keyCalls[d]
        BY <3>1, <2>a, SlotHolds
      <4>3. \A d \in Calls \ {c} : Carried(d)'
        BY <4>2, <3>2, <3>5, <2>a DEF Carried, Creating
      <4>4. QED BY <4>1, <4>3
    <3>7. QED BY <3>1, <3>2, <3>3, <3>4, <3>6, <2>a, <2>b
  <2>16. ASSUME NEW c \in Calls, SettleKey(c) PROVE KeysInv'
    <3>1. /\ keyCalls[c].op \in {"kill", "unkill", "delete"}
          /\ keyCalls' = End(keyCalls, c) /\ keyRow' = keyRow
      BY <2>16 DEF SettleKey
    <3>2. Patched(keyCalls[c].arg, keyCalls[c].op) \in [Keys -> Statuses]
      <4>1. keyCalls[c].op # "delete" => After[keyCalls[c].op] \in Statuses
        BY <3>1 DEF After, Statuses
      <4>2. keysUI.rows \in [Keys -> Statuses] /\ "none" \in Statuses
        BY <2>a DEF PageOfKeys, Statuses
      <4>3. QED BY <4>1, <4>2 DEF Patched
    <3>3. /\ keysUI' \in PageOfKeys /\ keysUI'.created = keysUI.created
          /\ keysUI'.saving = keysUI.saving
      BY <2>16, <3>2, <2>a, DialogTypes DEF SettleKey, PageOfKeys
    <3>4. keyCalls' \in [Calls -> KeySlot]
      BY <3>1, <2>a, SlotMoves DEF KeyOps
    <3>5. \A d \in Calls : Carried(d)'
      BY <3>1, <3>3, <2>a, <2>c, SlotHolds DEF Carried
    <3>6. \A d, e \in Calls : Creating(d)' /\ Creating(e)' => d = e
      BY <3>1, <2>a, <2>c, SlotHolds DEF Creating
    <3>7. QED BY <3>1, <3>3, <3>4, <3>5, <3>6, <2>a, <2>b
  <2>17. QED BY <2>1, <2>3, <2>4, <2>6, <2>7, <2>8, <2>9, <2>10, <2>12, <2>13, <2>14, <2>15, <2>16
    DEF KeysNext
<1>3. QED BY <1>1, <1>2, PTL DEF KeysSpec

(* Types, for any keys and any number of requests in flight.                *)
THEOREM KeysTypeCorrect == KeysSpec => []KeysTypeOK
<1>1. KeysInv => KeysTypeOK
  BY DEF KeysInv
<1>2. QED BY <1>1, KeysInvariant, PTL

(* A plaintext leaves the page only from the open dialog.                   *)
THEOREM KeyIsShown == KeysSpec => RevealBeforeDiscard
<1>1. KeysInv /\ [KeysNext]_keysVars
        => [keysUI.created # None /\ keysUI'.created # keysUI.created
              => keysUI.dialog.kind = "create"]_keysVars
  <2> SUFFICES ASSUME KeysInv, [KeysNext]_keysVars, keysUI.created # None,
                      keysUI'.created # keysUI.created
               PROVE  keysUI.dialog.kind = "create"
    OBVIOUS
  <2>a. keysUI \in PageOfKeys /\ \A c \in Calls : Carried(c)
    BY DEF KeysInv, KeysTypeOK, PageOfKeys, Dialog
  <2>1. \A c \in Calls : keyCalls[c].op # "create"
    BY <2>a DEF Carried
  <2>2. CASE CloseCreate
    BY <2>2 DEF CloseCreate
  <2>3. CASE ~CloseCreate
    <3>1. keysUI'.created = keysUI.created
      BY <2>1, <2>3, <2>a DEF KeysNext, keysVars, OpenCreate, CancelAsk, AskKey, ReloadKeys,
        SubmitKey, ConfirmAsk, Unkill, ServeCreate, ServeList, ServeKey, BreakKeyCall,
        SettleCreate, SettleList, SettleKey, PageOfKeys
    <3>2. QED BY <3>1
  <2>4. QED BY <2>2, <2>3
<1>2. QED BY <1>1, KeysInvariant, PTL DEF KeysSpec, RevealBeforeDiscard

-----------------------------------------------------------------------------
(* A key's access policy.                                                  *)

DrawerPage == [open : BOOLEAN, saving : BOOLEAN, draft : Policies]

(* What a request of the drawer carries: a save its lane and choice, a       *)
(* running save what it has read, a load's answer every lane.                *)
SaveFits(s) ==
  /\ s.at = "running" => s.op = "save" /\ s.ans \in Readings
  /\ s.op = "save" /\ s.at \in {"sent", "running"} => s.arg \in Lanes \X Choices
  /\ s.at = "answered" /\ s.op \in {"load", "loadAfterSave"} => s.ans \in Policies

AnyDrawerSlot == [at : DrawerPlaces, op : DrawerOps \cup {None},
                  arg : (Lanes \X Choices) \cup {None}, ans : Readings \cup {None}]
DrawerSlot == {s \in AnyDrawerSlot : SaveFits(s)}

DrawerTyped ==
  /\ laneRow \in Policies
  /\ laneCache \in Policies \cup {None}
  /\ drawerUI \in DrawerPage
  /\ drawerCalls \in [Calls -> DrawerSlot]
  /\ orphans \subseteq Calls
  /\ disturbed \in BOOLEAN

(* As long as no save met another one or failed to read, the only            *)
(* InvalidateKey that runs has read what the tables hold.                    *)
SavesAlone ==
  \A c, d \in Calls : drawerCalls[c].at = "running" /\ drawerCalls[d].at = "running" => c = d
ReadsAreTrue ==
  \A c \in Calls, l \in Lanes :
    drawerCalls[c].at = "running" => drawerCalls[c].ans[l] \in {None, laneRow[l]}

DrawerSound == (~disturbed => SavesAlone /\ ReadsAreTrue) /\ SaveRepairs
DrawerInv == DrawerTyped /\ DrawerSound

(* How a slot of the drawer goes on.                                         *)
LEMMA DrawerSlotMoves ==
  ASSUME drawerCalls \in [Calls -> DrawerSlot], NEW c \in Calls
  PROVE  /\ Idle \in DrawerSlot
         /\ End(drawerCalls, c) \in [Calls -> DrawerSlot]
         /\ \A op \in {"load", "loadAfterSave"} :
              Send(drawerCalls, c, op, None) \in [Calls -> DrawerSlot]
         /\ \A p \in Lanes \X Choices :
              Send(drawerCalls, c, "save", p) \in [Calls -> DrawerSlot]
         /\ Reject(drawerCalls, c) \in [Calls -> DrawerSlot]
         /\ \A d \in Calls : [drawerCalls[d] EXCEPT !.at = "failed", !.ans = None] \in DrawerSlot
         /\ drawerCalls[c].op = "save" => Answer(drawerCalls, c, None) \in [Calls -> DrawerSlot]
         /\ \A ans \in Policies : Answer(drawerCalls, c, ans) \in [Calls -> DrawerSlot]
<1> USE DEF DrawerPlaces, Places
<1>1. ASSUME NEW s \in DrawerSlot PROVE [drawerCalls EXCEPT ![c] = s] \in [Calls -> DrawerSlot]
  BY <1>1
<1>2. Idle \in DrawerSlot
  BY DEF Idle, DrawerSlot, AnyDrawerSlot, SaveFits
<1>3. ASSUME NEW op \in {"load", "loadAfterSave"}
      PROVE  [at |-> "sent", op |-> op, arg |-> None, ans |-> None] \in DrawerSlot
  BY <1>3 DEF DrawerSlot, AnyDrawerSlot, SaveFits, DrawerOps
<1>4. ASSUME NEW p \in Lanes \X Choices
      PROVE  [at |-> "sent", op |-> "save", arg |-> p, ans |-> None] \in DrawerSlot
  BY <1>4 DEF DrawerSlot, AnyDrawerSlot, SaveFits, DrawerOps
<1>5. ASSUME NEW d \in Calls
      PROVE  [drawerCalls[d] EXCEPT !.at = "failed", !.ans = None] \in DrawerSlot
  <2>1. drawerCalls[d] \in AnyDrawerSlot
    BY <1>5 DEF DrawerSlot
  <2>2. QED BY <2>1 DEF DrawerSlot, AnyDrawerSlot, SaveFits
<1>6. ASSUME drawerCalls[c].op = "save"
      PROVE  [drawerCalls[c] EXCEPT !.at = "answered", !.ans = None] \in DrawerSlot
  <2> DEFINE s == [drawerCalls[c] EXCEPT !.at = "answered", !.ans = None]
  <2>1. drawerCalls[c] \in AnyDrawerSlot
    BY DEF DrawerSlot
  <2>2. s \in AnyDrawerSlot
    BY <2>1 DEF AnyDrawerSlot
  <2>3. s.op = "save" /\ s.at = "answered"
    BY <1>6, <2>1 DEF AnyDrawerSlot
  <2> HIDE DEF s
  <2>4. SaveFits(s)
    BY <2>3 DEF SaveFits
  <2>5. s \in DrawerSlot
    BY <2>2, <2>4 DEF DrawerSlot
  <2>6. QED BY <2>5 DEF s
<1>7. ASSUME NEW ans \in Policies
      PROVE  [drawerCalls[c] EXCEPT !.at = "answered", !.ans = ans] \in DrawerSlot
  <2>1. ans \in Readings
    BY DEF Policies, Readings
  <2>2. drawerCalls[c] \in AnyDrawerSlot
    BY DEF DrawerSlot
  <2>3. QED BY <2>1, <2>2 DEF DrawerSlot, AnyDrawerSlot, SaveFits
<1>8. End(drawerCalls, c) \in [Calls -> DrawerSlot]
  BY <1>1, <1>2 DEF End
<1>9. \A op \in {"load", "loadAfterSave"} :
        Send(drawerCalls, c, op, None) \in [Calls -> DrawerSlot]
  BY <1>1, <1>3 DEF Send
<1>10. \A p \in Lanes \X Choices : Send(drawerCalls, c, "save", p) \in [Calls -> DrawerSlot]
  BY <1>1, <1>4 DEF Send
<1>11. Reject(drawerCalls, c) \in [Calls -> DrawerSlot]
  BY <1>1, <1>5 DEF Reject
<1>12. drawerCalls[c].op = "save" => Answer(drawerCalls, c, None) \in [Calls -> DrawerSlot]
  BY <1>1, <1>6 DEF Answer
<1>13. \A ans \in Policies : Answer(drawerCalls, c, ans) \in [Calls -> DrawerSlot]
  BY <1>1, <1>7 DEF Answer
<1>14. QED BY <1>2, <1>5, <1>8, <1>9, <1>10, <1>11, <1>12, <1>13

(* A running save's slot, when its handler starts and when it reads a lane.  *)
LEMMA RunningMoves ==
  ASSUME laneRow \in Policies, drawerCalls \in [Calls -> DrawerSlot], NEW c \in Calls
  PROVE  /\ drawerCalls[c].op = "save" /\ drawerCalls[c].at = "sent"
              => [drawerCalls EXCEPT ![c].at = "running", ![c].ans = Unread]
                   \in [Calls -> DrawerSlot]
         /\ \A l \in Lanes : drawerCalls[c].at = "running"
              => [drawerCalls EXCEPT ![c].ans[l] = laneRow[l]] \in [Calls -> DrawerSlot]
<1> USE DEF DrawerPlaces, Places
<1>1. ASSUME NEW s \in DrawerSlot PROVE [drawerCalls EXCEPT ![c] = s] \in [Calls -> DrawerSlot]
  BY <1>1
<1>2. ASSUME drawerCalls[c].op = "save", drawerCalls[c].at = "sent"
      PROVE  [drawerCalls[c] EXCEPT !.at = "running", !.ans = Unread] \in DrawerSlot
  <2>1. Unread \in Readings
    BY DEF Unread, Readings
  <2>2. QED BY <1>2, <2>1 DEF DrawerSlot, AnyDrawerSlot, SaveFits
<1>3. ASSUME NEW l \in Lanes, drawerCalls[c].at = "running"
      PROVE  [drawerCalls[c] EXCEPT !.ans[l] = laneRow[l]] \in DrawerSlot
  <2>1. drawerCalls[c].ans \in Readings /\ laneRow[l] \in Choices
    BY <1>3 DEF DrawerSlot, SaveFits, Policies
  <2>2. [drawerCalls[c].ans EXCEPT ![l] = laneRow[l]] \in Readings
    BY <2>1 DEF Readings
  <2>3. ASSUME NEW r \in Readings PROVE [drawerCalls[c] EXCEPT !.ans = r] \in DrawerSlot
    BY <1>3 DEF DrawerSlot, AnyDrawerSlot, SaveFits
  <2>4. QED BY <2>2, <2>3
<1>4. QED BY <1>1, <1>2, <1>3

(* What the slots of the drawer hold after each of these moves.              *)
LEMMA DrawerSlotHolds ==
  ASSUME drawerCalls \in [Calls -> DrawerSlot], NEW c \in Calls
  PROVE  /\ \A op, arg :
              /\ Send(drawerCalls, c, op, arg)[c].op = op
              /\ Send(drawerCalls, c, op, arg)[c].at = "sent"
              /\ \A d \in Calls \ {c} : Send(drawerCalls, c, op, arg)[d] = drawerCalls[d]
         /\ \A ans :
              /\ Answer(drawerCalls, c, ans)[c].op = drawerCalls[c].op
              /\ Answer(drawerCalls, c, ans)[c].at = "answered"
              /\ \A d \in Calls \ {c} : Answer(drawerCalls, c, ans)[d] = drawerCalls[d]
         /\ Reject(drawerCalls, c)[c].op = drawerCalls[c].op
         /\ Reject(drawerCalls, c)[c].at = "failed"
         /\ \A d \in Calls \ {c} : Reject(drawerCalls, c)[d] = drawerCalls[d]
         /\ End(drawerCalls, c)[c].at = "idle"
         /\ \A d \in Calls \ {c} : End(drawerCalls, c)[d] = drawerCalls[d]
BY DEF DrawerSlot, AnyDrawerSlot, Send, Answer, Reject, End, Idle

(* The end of a handler: an orphan's slot is over, another one answered or   *)
(* failed.                                                                   *)
LEMMA CloseMoves ==
  ASSUME drawerCalls \in [Calls -> DrawerSlot], NEW c \in Calls, NEW b \in BOOLEAN,
         orphans \subseteq Calls, Close(c, b),
         b => drawerCalls[c].op = "save"
  PROVE  /\ drawerCalls' \in [Calls -> DrawerSlot]
         /\ orphans' = orphans \ {c}
         /\ c \in orphans => drawerCalls'[c].at = "idle"
         /\ c \notin orphans => /\ drawerCalls'[c].at \in {"answered", "failed"}
                                /\ drawerCalls'[c].op = drawerCalls[c].op
         /\ \A d \in Calls \ {c} : drawerCalls'[d] = drawerCalls[d]
<1>a. orphans' = orphans \ {c}
  BY DEF Close
<1>b. /\ End(drawerCalls, c)[c].at = "idle"
      /\ \A d \in Calls \ {c} : End(drawerCalls, c)[d] = drawerCalls[d]
      /\ End(drawerCalls, c) \in [Calls -> DrawerSlot]
  BY DrawerSlotMoves, DrawerSlotHolds
<1>c. /\ Answer(drawerCalls, c, None)[c].op = drawerCalls[c].op
      /\ Answer(drawerCalls, c, None)[c].at = "answered"
      /\ \A d \in Calls \ {c} : Answer(drawerCalls, c, None)[d] = drawerCalls[d]
  BY DrawerSlotHolds
<1>d. /\ Reject(drawerCalls, c)[c].op = drawerCalls[c].op
      /\ Reject(drawerCalls, c)[c].at = "failed"
      /\ \A d \in Calls \ {c} : Reject(drawerCalls, c)[d] = drawerCalls[d]
      /\ Reject(drawerCalls, c) \in [Calls -> DrawerSlot]
  BY DrawerSlotMoves, DrawerSlotHolds
<1>1. CASE c \in orphans
  <2>1. drawerCalls' = End(drawerCalls, c)
    BY <1>1 DEF Close
  <2>2. QED BY <1>1, <2>1, <1>a, <1>b
<1>2. CASE c \notin orphans /\ b
  <2>1. drawerCalls' = Answer(drawerCalls, c, None)
    BY <1>2 DEF Close
  <2>2. Answer(drawerCalls, c, None) \in [Calls -> DrawerSlot]
    BY <1>2, DrawerSlotMoves
  <2>3. QED BY <1>2, <2>1, <2>2, <1>a, <1>c
<1>3. CASE c \notin orphans /\ ~b
  <2>1. drawerCalls' = Reject(drawerCalls, c)
    BY <1>3 DEF Close
  <2>2. QED BY <1>3, <2>1, <1>a, <1>d
<1>4. QED BY <1>1, <1>2, <1>3

(* The page's state after one of its fields changed.                         *)
LEMMA DrawerPageMoves ==
  ASSUME drawerUI \in DrawerPage
  PROVE  /\ \A b \in BOOLEAN : [drawerUI EXCEPT !.saving = b] \in DrawerPage
         /\ [drawerUI EXCEPT !.open = FALSE] \in DrawerPage
         /\ \A p \in Policies, b \in BOOLEAN :
              [drawerUI EXCEPT !.draft = p, !.saving = b] \in DrawerPage
         /\ \A l \in Lanes, v \in Choices : [drawerUI EXCEPT !.draft[l] = v] \in DrawerPage
BY DEF DrawerPage, Policies

LEMMA DrawerTypeHolds ==
  ASSUME DrawerTyped, [DrawerNext]_drawerVars
  PROVE  DrawerTyped'
<1> USE DEF DrawerTyped
<1>a. \A l \in Lanes : [k \in Lanes |-> All] \in Policies /\ All \in Choices
  BY DrawerAssumption DEF Policies
<1>b. [k \in Lanes |-> All] \in Policies
  BY DrawerAssumption DEF Policies
<1>1. CASE UNCHANGED drawerVars
  BY <1>1 DEF drawerVars
<1>2. CASE CloseDrawer
  <2>1. drawerUI' \in DrawerPage
    BY <1>2, DrawerPageMoves DEF CloseDrawer
  <2>2. \A c \in Calls : drawerCalls[c] \in DrawerSlot /\ Idle \in DrawerSlot
    BY DrawerSlotMoves
  <2>3. drawerCalls' \in [Calls -> DrawerSlot]
    BY <1>2, <2>2 DEF CloseDrawer
  <2>4. orphans' \subseteq Calls
    BY <1>2 DEF CloseDrawer, Flying
  <2>5. QED BY <1>2, <2>1, <2>3, <2>4 DEF CloseDrawer
<1>3. CASE RestartServer
  <2>1. \A c \in Calls : /\ Idle \in DrawerSlot
                         /\ [drawerCalls[c] EXCEPT !.at = "failed", !.ans = None] \in DrawerSlot
    BY DrawerSlotMoves
  <2>2. drawerCalls' \in [Calls -> DrawerSlot]
    BY <1>3, <2>1 DEF RestartServer
  <2>3. QED BY <1>3, <2>2 DEF RestartServer
<1>4. ASSUME NEW l \in Lanes, NEW v \in Choices, EditLane(l, v) PROVE DrawerTyped'
  <2>1. drawerUI' \in DrawerPage
    BY <1>4, DrawerPageMoves DEF EditLane
  <2>2. QED BY <1>4, <2>1 DEF EditLane
<1>5. ASSUME NEW c \in Calls, OpenDrawer(c) PROVE DrawerTyped'
  <2>1. drawerCalls' \in [Calls -> DrawerSlot]
    BY <1>5, DrawerSlotMoves DEF OpenDrawer
  <2>2. drawerUI' \in DrawerPage
    BY <1>5, <1>b DEF OpenDrawer, DrawerPage
  <2>3. QED BY <1>5, <2>1, <2>2 DEF OpenDrawer
<1>6. ASSUME NEW c \in Calls, PickToolServer(c) PROVE DrawerTyped'
  <2>1. drawerCalls' \in [Calls -> DrawerSlot]
    BY <1>6, DrawerSlotMoves DEF PickToolServer
  <2>2. QED BY <1>6, <2>1 DEF PickToolServer
<1>7. ASSUME NEW c \in Calls, SettleLoad(c) PROVE DrawerTyped'
  <2>1. drawerCalls' \in [Calls -> DrawerSlot]
    BY <1>7, DrawerSlotMoves DEF SettleLoad
  <2>2. drawerCalls[c] \in DrawerSlot
    OBVIOUS
  <2>3. drawerCalls[c].at = "answered" => drawerCalls[c].ans \in Policies
    BY <1>7, <2>2 DEF SettleLoad, IsLoad, DrawerSlot, SaveFits
  <2>4. drawerUI.draft \in Policies /\ drawerUI.saving \in BOOLEAN
    BY DEF DrawerPage
  <2> DEFINE p == IF drawerCalls[c].at = "answered" THEN drawerCalls[c].ans ELSE drawerUI.draft
             b == drawerUI.saving /\ drawerCalls[c].op = "load"
  <2>5. p \in Policies /\ b \in BOOLEAN
    BY <2>3, <2>4
  <2>6. drawerUI' = [drawerUI EXCEPT !.draft = p, !.saving = b]
    BY <1>7 DEF SettleLoad
  <2> HIDE DEF p, b
  <2>7. drawerUI' \in DrawerPage
    BY <2>5, <2>6, DrawerPageMoves
  <2>8. QED BY <1>7, <2>1, <2>7 DEF SettleLoad
<1>8. ASSUME NEW c \in Calls, SettleSave(c) PROVE DrawerTyped'
  <2>1. drawerCalls' \in [Calls -> DrawerSlot]
    BY <1>8, DrawerSlotMoves DEF SettleSave
  <2>2. drawerUI' \in DrawerPage
    BY <1>8, DrawerPageMoves DEF SettleSave
  <2>3. QED BY <1>8, <2>1, <2>2 DEF SettleSave
<1>9. ASSUME NEW c \in Calls, Commit(c) PROVE DrawerTyped'
  <2>1. drawerCalls' \in [Calls -> DrawerSlot]
    BY <1>9, RunningMoves DEF Commit
  <2>2. drawerCalls[c].arg \in Lanes \X Choices
    BY <1>9 DEF Commit, DrawerSlot, SaveFits
  <2>3. laneRow' \in Policies
    BY <1>9, <2>2 DEF Commit, Policies
  <2>4. disturbed' \in BOOLEAN
    BY <1>9 DEF Commit, SaveRunning
  <2>5. QED BY <1>9, <2>1, <2>3, <2>4 DEF Commit
<1>10. ASSUME NEW c \in Calls, NEW l \in Lanes, SaveLane(c, l) PROVE DrawerTyped'
  <2>1. <<l, drawerUI.draft[l]>> \in Lanes \X Choices
    BY DEF DrawerPage, Policies
  <2>2. drawerCalls' \in [Calls -> DrawerSlot]
    BY <1>10, <2>1, DrawerSlotMoves DEF SaveLane
  <2>3. drawerUI' \in DrawerPage
    BY <1>10, DrawerPageMoves DEF SaveLane
  <2>4. QED BY <1>10, <2>2, <2>3 DEF SaveLane
<1>11. ASSUME NEW c \in Calls, NEW l \in Lanes, ReadLane(c, l) PROVE DrawerTyped'
  <2>1. drawerCalls' \in [Calls -> DrawerSlot]
    BY <1>11, RunningMoves DEF ReadLane
  <2>2. QED BY <1>11, <2>1 DEF ReadLane
<1>12. ASSUME NEW c \in Calls, Install(c) PROVE DrawerTyped'
  <2>1. drawerCalls[c].op = "save" /\ drawerCalls[c].ans \in Readings
    BY <1>12 DEF Install, DrawerSlot, SaveFits
  <2>2. laneCache' \in Policies
    BY <1>12, <2>1 DEF Install, Entry, AllRead, Readings, Policies
  <2>3. drawerCalls' \in [Calls -> DrawerSlot] /\ orphans' \subseteq Calls
    BY <1>12, <2>1, CloseMoves DEF Install
  <2>4. QED BY <1>12, <2>2, <2>3 DEF Install
<1>13. ASSUME NEW c \in Calls, ServeLoad(c) PROVE DrawerTyped'
  <2>1. drawerCalls' \in [Calls -> DrawerSlot]
    BY <1>13, DrawerSlotMoves DEF ServeLoad
  <2>2. QED BY <1>13, <2>1 DEF ServeLoad
<1>14. ASSUME NEW c \in Calls, ReadFails(c) PROVE DrawerTyped'
  <2>1. PICK answered \in BOOLEAN : Close(c, answered)
    BY <1>14 DEF ReadFails
  <2>2. drawerCalls[c].op = "save"
    BY <1>14 DEF ReadFails, DrawerSlot, SaveFits
  <2>3. drawerCalls' \in [Calls -> DrawerSlot] /\ orphans' = orphans \ {c}
    BY <2>1, <2>2, CloseMoves
  <2>4. QED BY <1>14, <2>3 DEF ReadFails
<1>15. ASSUME NEW c \in Calls, BreakDrawerCall(c) PROVE DrawerTyped'
  <2>1. drawerCalls' \in [Calls -> DrawerSlot] /\ orphans' \subseteq Calls
    BY <1>15, CloseMoves DEF BreakDrawerCall
  <2>2. QED BY <1>15, <2>1 DEF BreakDrawerCall
<1>16. ASSUME NEW c \in Calls, CutSave(c) PROVE DrawerTyped'
  <2>1. drawerUI' \in DrawerPage
    BY <1>16, DrawerPageMoves DEF CutSave
  <2>2. QED BY <1>16, <2>1 DEF CutSave
<1>17. ASSUME NEW c \in Calls, NEW l \in Lanes, NEW v \in Choices, SaveElsewhere(c, l, v)
      PROVE  DrawerTyped'
  <2>1. <<l, v>> \in Lanes \X Choices
    OBVIOUS
  <2>2. drawerCalls' \in [Calls -> DrawerSlot]
    BY <1>17, <2>1, DrawerSlotMoves DEF SaveElsewhere
  <2>3. QED BY <1>17, <2>2 DEF SaveElsewhere
<1>18. QED BY <1>1, <1>2, <1>3, <1>4, <1>5, <1>6, <1>7, <1>8, <1>9, <1>10, <1>11, <1>12,
  <1>13, <1>14, <1>15, <1>16, <1>17 DEF DrawerNext

(* A step that leaves the tables, the entry and the running handlers alone.  *)
LEMMA DrawerFrame ==
  ASSUME DrawerSound, laneRow' = laneRow, laneCache' = laneCache, disturbed' = disturbed,
         \A d \in Calls : (drawerCalls[d].at = "running" \/ drawerCalls'[d].at = "running")
                            => drawerCalls'[d] = drawerCalls[d]
  PROVE  DrawerSound'
<1>1. SaveRunning' = SaveRunning
  BY DEF SaveRunning
<1>2. Enforced' = Enforced
  BY DEF Enforced
<1>3. SavesAlone => SavesAlone'
  BY DEF SavesAlone
<1>4. ReadsAreTrue => ReadsAreTrue'
  BY DEF ReadsAreTrue
<1>5. QED BY <1>1, <1>2, <1>3, <1>4 DEF DrawerSound, SaveRepairs

(* A handler starts to read: alone, or the history says so.                  *)
LEMMA CommitSound ==
  ASSUME DrawerInv, NEW c \in Calls, Commit(c)
  PROVE  DrawerSound'
<1>1. drawerCalls \in [Calls -> AnyDrawerSlot]
  BY DEF DrawerInv, DrawerTyped, DrawerSlot
<1>2. /\ drawerCalls'[c].at = "running" /\ drawerCalls'[c].ans = Unread
      /\ \A d \in Calls \ {c} : drawerCalls'[d] = drawerCalls[d]
  BY <1>1 DEF Commit, AnyDrawerSlot
<1>3. ~disturbed' => \A d \in Calls : drawerCalls[d].at # "running"
  BY DEF Commit, SaveRunning
<1>4. ~disturbed' => SavesAlone' /\ ReadsAreTrue'
  BY <1>2, <1>3 DEF SavesAlone, ReadsAreTrue, Unread
<1>5. SaveRunning'
  BY <1>2 DEF SaveRunning
<1>6. QED BY <1>4, <1>5 DEF DrawerSound, SaveRepairs

(* A handler reads what a table holds.                                       *)
LEMMA ReadLaneSound ==
  ASSUME DrawerInv, NEW c \in Calls, NEW l \in Lanes, ReadLane(c, l)
  PROVE  DrawerSound'
<1>1. drawerCalls \in [Calls -> AnyDrawerSlot]
  BY DEF DrawerInv, DrawerTyped, DrawerSlot
<1>2. drawerCalls[c].at = "running" /\ drawerCalls[c].ans \in Readings
  BY DEF ReadLane, DrawerInv, DrawerTyped, DrawerSlot, SaveFits
<1>3. /\ drawerCalls'[c].at = "running"
      /\ drawerCalls'[c].ans = [drawerCalls[c].ans EXCEPT ![l] = laneRow[l]]
      /\ \A d \in Calls \ {c} : drawerCalls'[d] = drawerCalls[d]
  BY <1>1, <1>2 DEF ReadLane, AnyDrawerSlot
<1>4. \A k \in Lanes : drawerCalls'[c].ans[k] \in {drawerCalls[c].ans[k], laneRow[k]}
  BY <1>2, <1>3 DEF Readings
<1>5. disturbed' = disturbed /\ laneRow' = laneRow
  BY DEF ReadLane
<1>6. ASSUME ReadsAreTrue, NEW d \in Calls, NEW k \in Lanes, drawerCalls'[d].at = "running"
      PROVE  drawerCalls'[d].ans[k] \in {None, laneRow[k]}
  <2>1. CASE d = c
    BY <2>1, <1>2, <1>4, <1>6 DEF ReadsAreTrue
  <2>2. CASE d # c
    BY <2>2, <1>3, <1>6 DEF ReadsAreTrue
  <2>3. QED BY <2>1, <2>2
<1>7. ReadsAreTrue => ReadsAreTrue'
  BY <1>5, <1>6 DEF ReadsAreTrue
<1>8. SavesAlone => SavesAlone'
  BY <1>2, <1>3 DEF SavesAlone
<1>9. SaveRunning'
  BY <1>3 DEF SaveRunning
<1>10. QED BY <1>5, <1>7, <1>8, <1>9 DEF DrawerInv, DrawerSound, SaveRepairs

(* What a lone handler installs is what the tables hold.                     *)
LEMMA InstallSound ==
  ASSUME DrawerInv, NEW c \in Calls, Install(c)
  PROVE  DrawerSound'
<1> USE DEF DrawerInv, DrawerTyped
<1>1. /\ drawerCalls[c].at = "running" /\ drawerCalls[c].op = "save"
      /\ drawerCalls[c].ans \in Readings /\ laneCache' = drawerCalls[c].ans
      /\ laneRow' = laneRow /\ disturbed' = disturbed /\ laneRow \in Policies
  BY DEF Install, Entry, DrawerSlot, SaveFits
<1>2. /\ drawerCalls'[c].at # "running"
      /\ \A d \in Calls \ {c} : drawerCalls'[d] = drawerCalls[d]
  BY <1>1, CloseMoves DEF Install
<1>3. SavesAlone => SavesAlone'
  BY <1>2 DEF SavesAlone
<1>4. ReadsAreTrue => ReadsAreTrue'
  BY <1>1, <1>2 DEF ReadsAreTrue
<1>5. ReadsAreTrue => \A l \in Lanes : drawerCalls[c].ans[l] = laneRow[l]
  BY <1>1 DEF Install, AllRead, ReadsAreTrue
<1>6. ReadsAreTrue => laneCache' = laneRow'
  BY <1>1, <1>5 DEF Readings, Policies
<1>7. ReadsAreTrue => Enforced' = laneRow'
  BY <1>1, <1>6, DrawerAssumption DEF Enforced, Policies
<1>8. QED BY <1>1, <1>3, <1>4, <1>7 DEF DrawerSound, SaveRepairs

(* Warm starts again from the tables, with no handler running.               *)
LEMMA RestartSound ==
  ASSUME DrawerInv, RestartServer
  PROVE  DrawerSound'
<1>1. drawerCalls \in [Calls -> AnyDrawerSlot] /\ laneRow \in Policies
  BY DEF DrawerInv, DrawerTyped, DrawerSlot
<1>2. \A c \in Calls : drawerCalls'[c].at # "running"
  BY <1>1 DEF RestartServer, Idle, AnyDrawerSlot
<1>3. Enforced' = laneRow'
  BY <1>1, DrawerAssumption DEF RestartServer, Enforced, Policies
<1>4. QED BY <1>2, <1>3 DEF DrawerSound, SavesAlone, ReadsAreTrue, SaveRepairs

LEMMA DrawerSoundHolds ==
  ASSUME DrawerInv, [DrawerNext]_drawerVars
  PROVE  DrawerSound'
<1> USE DEF DrawerInv
<1>a. /\ drawerCalls \in [Calls -> DrawerSlot] /\ orphans \subseteq Calls
      /\ \A d \in Calls : drawerCalls[d].at = "running" => drawerCalls[d].op = "save"
  BY DEF DrawerTyped, DrawerSlot, SaveFits
<1>1. CASE UNCHANGED drawerVars
  BY <1>1, DrawerFrame DEF drawerVars
<1>2. CASE CloseDrawer
  <2>1. \A d \in Calls : drawerCalls[d].at = "running" => d \in orphans'
    BY <1>2, <1>a DEF CloseDrawer, Flying
  <2>2. \A d \in Calls : drawerCalls'[d] = IF d \in orphans' THEN drawerCalls[d] ELSE Idle
    BY <1>2 DEF CloseDrawer
  <2>3. \A d \in Calls : (drawerCalls[d].at = "running" \/ drawerCalls'[d].at = "running")
                           => drawerCalls'[d] = drawerCalls[d]
    BY <2>1, <2>2 DEF Idle
  <2>4. QED BY <1>2, <2>3, DrawerFrame DEF CloseDrawer
<1>3. CASE RestartServer
  BY <1>3, RestartSound
<1>4. CASE \E l \in Lanes, v \in Choices : EditLane(l, v)
  BY <1>4, DrawerFrame DEF EditLane
<1>5. ASSUME NEW c \in Calls,
             \/ OpenDrawer(c) \/ PickToolServer(c) \/ (\E l \in Lanes : SaveLane(c, l))
             \/ \E l \in Lanes, v \in Choices : SaveElsewhere(c, l, v)
      PROVE  DrawerSound'
  <2>a. ~Busy(c) /\ \E op, arg : drawerCalls' = Send(drawerCalls, c, op, arg)
    BY <1>5 DEF OpenDrawer, PickToolServer, SaveLane, SaveElsewhere
  <2>b. PICK op, arg : drawerCalls' = Send(drawerCalls, c, op, arg)
    BY <2>a
  <2>1. /\ drawerCalls[c].at = "idle" /\ drawerCalls'[c].at = "sent"
        /\ \A d \in Calls \ {c} : drawerCalls'[d] = drawerCalls[d]
    BY <1>a, <2>a, <2>b, DrawerSlotHolds DEF Busy
  <2>2. laneRow' = laneRow /\ laneCache' = laneCache /\ disturbed' = disturbed
    BY <1>5 DEF OpenDrawer, PickToolServer, SaveLane, SaveElsewhere
  <2>3. QED BY <2>1, <2>2, DrawerFrame
<1>6. ASSUME NEW c \in Calls, SettleLoad(c) \/ SettleSave(c) PROVE DrawerSound'
  <2>1. /\ drawerCalls[c].at \in {"answered", "failed"} /\ drawerCalls'[c].at \in {"idle", "sent"}
        /\ \A d \in Calls \ {c} : drawerCalls'[d] = drawerCalls[d]
    BY <1>6, <1>a, DrawerSlotHolds DEF SettleLoad, SettleSave
  <2>2. laneRow' = laneRow /\ laneCache' = laneCache /\ disturbed' = disturbed
    BY <1>6 DEF SettleLoad, SettleSave
  <2>3. QED BY <2>1, <2>2, DrawerFrame
<1>7. ASSUME NEW c \in Calls, ServeLoad(c) PROVE DrawerSound'
  <2>1. /\ drawerCalls[c].at = "sent" /\ drawerCalls'[c].at = "answered"
        /\ \A d \in Calls \ {c} : drawerCalls'[d] = drawerCalls[d]
    BY <1>7, <1>a, DrawerSlotHolds DEF ServeLoad
  <2>2. QED BY <1>7, <2>1, DrawerFrame DEF ServeLoad
<1>8. ASSUME NEW c \in Calls, Commit(c) PROVE DrawerSound'
  BY <1>8, CommitSound
<1>9. ASSUME NEW c \in Calls, NEW l \in Lanes, ReadLane(c, l) PROVE DrawerSound'
  BY <1>9, ReadLaneSound
<1>10. ASSUME NEW c \in Calls, Install(c) PROVE DrawerSound'
  BY <1>10, InstallSound
<1>11. ASSUME NEW c \in Calls, ReadFails(c) PROVE DrawerSound'
  BY <1>11 DEF ReadFails, DrawerSound, SaveRepairs
<1>12. ASSUME NEW c \in Calls, BreakDrawerCall(c) PROVE DrawerSound'
  <2>1. /\ drawerCalls[c].at \in {"sent", "answered"} /\ drawerCalls'[c].at # "running"
        /\ \A d \in Calls \ {c} : drawerCalls'[d] = drawerCalls[d]
    BY <1>12, <1>a, CloseMoves DEF BreakDrawerCall, CanBreak
  <2>2. QED BY <1>12, <2>1, DrawerFrame DEF BreakDrawerCall
<1>13. ASSUME NEW c \in Calls, CutSave(c) PROVE DrawerSound'
  BY <1>13, DrawerFrame DEF CutSave
<1>14. QED BY <1>1, <1>2, <1>3, <1>4, <1>5, <1>6, <1>7, <1>8, <1>9, <1>10, <1>11, <1>12, <1>13
  DEF DrawerNext

LEMMA DrawerInvariant == DrawerSpec => []DrawerInv
<1>1. DrawerInit => DrawerInv
  <2> SUFFICES ASSUME DrawerInit PROVE DrawerInv
    OBVIOUS
  <2>1. \A c \in Calls : drawerCalls[c] = Idle /\ drawerCalls[c].at = "idle"
    BY DEF DrawerInit, Idle
  <2>2. Idle \in DrawerSlot
    BY DEF Idle, DrawerSlot, AnyDrawerSlot, SaveFits, DrawerPlaces, Places
  <2>3. DrawerTyped
    BY <2>2, DrawerAssumption DEF DrawerInit, DrawerTyped, DrawerPage, Policies
  <2>4. Enforced = laneRow
    BY DrawerAssumption DEF DrawerInit, Enforced, Policies
  <2>5. SavesAlone /\ ReadsAreTrue
    BY <2>1 DEF SavesAlone, ReadsAreTrue
  <2>6. QED BY <2>3, <2>4, <2>5 DEF DrawerInv, DrawerSound, SaveRepairs
<1>2. DrawerInv /\ [DrawerNext]_drawerVars => DrawerInv'
  BY DrawerTypeHolds, DrawerSoundHolds DEF DrawerInv
<1>3. QED BY <1>1, <1>2, PTL DEF DrawerSpec

(* Types of the policy tables, the cached copy and the drawer's requests,    *)
(* for any lanes, choices and requests in flight.                            *)
THEOREM DrawerTypeCorrect == DrawerSpec => []DrawerTypeOK
<1>1. DrawerInv => DrawerTypeOK
  BY DEF DrawerInv, DrawerTyped, DrawerTypeOK, DrawerPage, DrawerSlot, AnyDrawerSlot
<1>2. QED BY <1>1, DrawerInvariant, PTL

(* However many saves overlapped, failed to read or were lost before, a save  *)
(* that meets no other one and reads every table (InvalidateKey in cache.go)  *)
(* leaves the stored policy enforced in every lane, for any lanes, choices    *)
(* and requests in flight.                                                    *)
THEOREM OneSaveRepairs == DrawerSpec => []SaveRepairs
<1>1. DrawerInv => SaveRepairs
  BY DEF DrawerInv, DrawerSound
<1>2. QED BY <1>1, DrawerInvariant, PTL

-----------------------------------------------------------------------------
(* The table of servers.                                                   *)

PageOfTable == [rows : [Servers -> Shown], deleting : Servers \cup {None},
                retesting : Servers \cup {None}]

(* A request about a server carries it, a list's answer every row.           *)
TableFits(s) ==
  /\ s.at # "idle" /\ s.op # "listServers" => s.op \in TableOps /\ s.arg \in Servers
  /\ s.at = "answered" /\ s.op = "listServers" => s.ans \in [Servers -> Shown]
  /\ s.at = "idle" => s.op = None

AnyTableSlot == Slot(TableOps, Servers, [Servers -> Shown])
TableSlot == {s \in AnyTableSlot : TableFits(s)}

TableTyped ==
  /\ serverRow \in [Servers -> Shown]
  /\ tableUI \in PageOfTable
  /\ tableCalls \in [Calls -> TableSlot]
  /\ muddled \subseteq Servers

(* What Enable and Disable make of a row, and what they find.                *)
Wanted(op) == IF op = "enable" THEN "on" ELSE "off"
Found(op) == IF op = "enable" THEN "off" ELSE "on"
Agrees(s) == tableUI.rows[s] # "none" => tableUI.rows[s] = serverRow[s]

(* While a request on s is in flight: the click has turned the shown flag,   *)
(* the handler turns the row; a deletion turns the table only when answered. *)
HalfDone(s, c) ==
  /\ tableCalls[c].op = "deleteServer" /\ tableCalls[c].at = "sent" => Agrees(s)
  /\ tableCalls[c].op \in {"enable", "disable"} =>
       /\ tableUI.rows[s] = Wanted(tableCalls[c].op)
       /\ serverRow[s] = IF tableCalls[c].at = "answered" THEN Wanted(tableCalls[c].op)
                         ELSE Found(tableCalls[c].op)

(* One request on a server at a time, none beside a reload; what a reload    *)
(* brings is still true when it arrives.                                     *)
RowInv(s) ==
  /\ \A c, d \in Writing(s) : c = d
  /\ Writing(s) # {} => Reloading = {}
  /\ \A c \in Reloading : tableCalls[c].at = "answered" => tableCalls[c].ans[s] = serverRow[s]
  /\ \A c \in Writing(s) : HalfDone(s, c)
  /\ Writing(s) = {} => Agrees(s)

TableInv == TableTyped /\ \A s \in Servers \ muddled : RowInv(s)

LEMMA TableSlotMoves ==
  ASSUME tableCalls \in [Calls -> TableSlot], NEW c \in Calls
  PROVE  /\ End(tableCalls, c) \in [Calls -> TableSlot]
         /\ Send(tableCalls, c, "listServers", None) \in [Calls -> TableSlot]
         /\ \A op \in TableOps \ {"listServers"}, s \in Servers :
              Send(tableCalls, c, op, s) \in [Calls -> TableSlot]
         /\ tableCalls[c].at # "idle" => Reject(tableCalls, c) \in [Calls -> TableSlot]
         /\ tableCalls[c].at # "idle" /\ tableCalls[c].op # "listServers"
              => Answer(tableCalls, c, None) \in [Calls -> TableSlot]
         /\ tableCalls[c].at # "idle" => \A ans \in [Servers -> Shown] :
              Answer(tableCalls, c, ans) \in [Calls -> TableSlot]
<1> USE DEF Slot, Places
<1>1. ASSUME NEW s \in TableSlot PROVE [tableCalls EXCEPT ![c] = s] \in [Calls -> TableSlot]
  BY <1>1
<1>2. Idle \in TableSlot
  BY DEF Idle, TableSlot, AnyTableSlot, TableFits
<1>3. [at |-> "sent", op |-> "listServers", arg |-> None, ans |-> None] \in TableSlot
  BY DEF TableSlot, AnyTableSlot, TableFits, TableOps
<1>4. ASSUME NEW op \in TableOps \ {"listServers"}, NEW s \in Servers
      PROVE  [at |-> "sent", op |-> op, arg |-> s, ans |-> None] \in TableSlot
  BY <1>4 DEF TableSlot, AnyTableSlot, TableFits
<1>5. ASSUME tableCalls[c].at # "idle"
      PROVE  [tableCalls[c] EXCEPT !.at = "failed", !.ans = None] \in TableSlot
  BY <1>5 DEF TableSlot, AnyTableSlot, TableFits
<1>6. ASSUME tableCalls[c].at # "idle", tableCalls[c].op # "listServers"
      PROVE  [tableCalls[c] EXCEPT !.at = "answered", !.ans = None] \in TableSlot
  BY <1>6 DEF TableSlot, AnyTableSlot, TableFits
<1>7. ASSUME tableCalls[c].at # "idle", NEW ans \in [Servers -> Shown]
      PROVE  [tableCalls[c] EXCEPT !.at = "answered", !.ans = ans] \in TableSlot
  BY <1>7 DEF TableSlot, AnyTableSlot, TableFits
<1>8. End(tableCalls, c) \in [Calls -> TableSlot]
  BY <1>1, <1>2 DEF End
<1>9. Send(tableCalls, c, "listServers", None) \in [Calls -> TableSlot]
  BY <1>1, <1>3 DEF Send
<1>10. \A op \in TableOps \ {"listServers"}, s \in Servers :
         Send(tableCalls, c, op, s) \in [Calls -> TableSlot]
  BY <1>1, <1>4 DEF Send
<1>11. tableCalls[c].at # "idle" => Reject(tableCalls, c) \in [Calls -> TableSlot]
  BY <1>1, <1>5 DEF Reject
<1>12. tableCalls[c].at # "idle" /\ tableCalls[c].op # "listServers"
         => Answer(tableCalls, c, None) \in [Calls -> TableSlot]
  BY <1>1, <1>6 DEF Answer
<1>13. tableCalls[c].at # "idle" => \A ans \in [Servers -> Shown] :
         Answer(tableCalls, c, ans) \in [Calls -> TableSlot]
  BY <1>1, <1>7 DEF Answer
<1>14. QED BY <1>8, <1>9, <1>10, <1>11, <1>12, <1>13

LEMMA TableSlotHolds ==
  ASSUME tableCalls \in [Calls -> TableSlot], NEW c \in Calls
  PROVE  /\ \A op, arg :
              /\ Send(tableCalls, c, op, arg)[c].op = op
              /\ Send(tableCalls, c, op, arg)[c].arg = arg
              /\ Send(tableCalls, c, op, arg)[c].at = "sent"
              /\ \A d \in Calls \ {c} : Send(tableCalls, c, op, arg)[d] = tableCalls[d]
         /\ \A ans :
              /\ Answer(tableCalls, c, ans)[c].op = tableCalls[c].op
              /\ Answer(tableCalls, c, ans)[c].arg = tableCalls[c].arg
              /\ Answer(tableCalls, c, ans)[c].at = "answered"
              /\ Answer(tableCalls, c, ans)[c].ans = ans
              /\ \A d \in Calls \ {c} : Answer(tableCalls, c, ans)[d] = tableCalls[d]
         /\ Reject(tableCalls, c)[c].op = tableCalls[c].op
         /\ Reject(tableCalls, c)[c].arg = tableCalls[c].arg
         /\ Reject(tableCalls, c)[c].at = "failed"
         /\ \A d \in Calls \ {c} : Reject(tableCalls, c)[d] = tableCalls[d]
         /\ End(tableCalls, c)[c].op = None
         /\ \A d \in Calls \ {c} : End(tableCalls, c)[d] = tableCalls[d]
BY DEF TableSlot, AnyTableSlot, Slot, Send, Answer, Reject, End, Idle

LEMMA TablePageMoves ==
  ASSUME tableUI \in PageOfTable
  PROVE  /\ \A s \in Servers, x \in Shown : [tableUI EXCEPT !.rows[s] = x] \in PageOfTable
         /\ \A s \in Servers, x \in Shown :
              [tableUI EXCEPT !.rows[s] = x, !.deleting = None] \in PageOfTable
         /\ \A r \in [Servers -> Shown] : [tableUI EXCEPT !.rows = r] \in PageOfTable
         /\ \A x \in Servers \cup {None} : /\ [tableUI EXCEPT !.deleting = x] \in PageOfTable
                                           /\ [tableUI EXCEPT !.retesting = x] \in PageOfTable
BY DEF PageOfTable

(* A rollback or an answer replaces the flag of a row that is still there.   *)
LEMMA ReplacedRow ==
  ASSUME tableUI \in PageOfTable, NEW s \in Servers, NEW x \in Shown
  PROVE  /\ Replaced(s, x) \in [Servers -> Shown]
         /\ tableUI.rows[s] # "none" => Replaced(s, x)[s] = x
         /\ \A t \in Servers \ {s} : Replaced(s, x)[t] = tableUI.rows[t]
BY DEF PageOfTable, Replaced

LEMMA LostMoves ==
  ASSUME tableCalls \in [Calls -> TableSlot], NEW c \in Calls, tableCalls[c].at # "idle"
  PROVE  /\ Lost(c) \in [Calls -> TableSlot]
         /\ \A d \in Calls \ {c} : Lost(c)[d] = tableCalls[d]
         /\ tableCalls[c].op \in {"listServers", "deleteServer"} => Lost(c)[c].op = None
         /\ tableCalls[c].op \notin {"listServers", "deleteServer"} =>
              /\ Lost(c)[c].op = tableCalls[c].op /\ Lost(c)[c].arg = tableCalls[c].arg
              /\ Lost(c)[c].at = "failed"
BY TableSlotMoves, TableSlotHolds DEF Lost

LEMMA TableTypeHolds ==
  ASSUME TableTyped, [TableNext]_tableVars
  PROVE  TableTyped'
<1> USE DEF TableTyped
<1>a. RowOps \subseteq TableOps \ {"listServers"}
  BY DEF RowOps, TableOps
<1>b. \A c \in Calls : tableCalls[c] \in TableSlot /\ tableCalls[c] \in AnyTableSlot
                       /\ TableFits(tableCalls[c])
  BY DEF TableSlot
<1>1. CASE UNCHANGED tableVars
  BY <1>1 DEF tableVars
<1>2. CASE CancelDelete \/ \E s \in Servers : AskDelete(s)
  BY <1>2, TablePageMoves DEF CancelDelete, AskDelete
<1>3. ASSUME NEW c \in Calls, NEW op \in RowOps, NEW s \in Servers, SendRow(c, op, s)
      PROVE  /\ tableCalls' \in [Calls -> TableSlot] /\ muddled' \subseteq Servers
             /\ serverRow' \in [Servers -> Shown]
  BY <1>3, <1>a, TableSlotMoves DEF SendRow
<1>4. ASSUME NEW c \in Calls, NEW s \in Servers, Toggle(c, s) PROVE TableTyped'
  <2>1. tableUI' \in PageOfTable
    BY <1>4, TablePageMoves DEF Toggle, Shown
  <2>2. SendRow(c, "enable", s) \/ SendRow(c, "disable", s)
    BY <1>4 DEF Toggle
  <2>3. QED BY <1>3, <2>1, <2>2 DEF RowOps
<1>5. ASSUME NEW c \in Calls, ConfirmDelete(c) PROVE TableTyped'
  <2>1. tableUI.deleting \in Servers /\ SendRow(c, "deleteServer", tableUI.deleting)
    BY <1>5 DEF ConfirmDelete, PageOfTable
  <2>2. QED BY <1>3, <1>5, <2>1 DEF RowOps, ConfirmDelete
<1>6. ASSUME NEW c \in Calls, ReloadServers(c) PROVE TableTyped'
  BY <1>6, TableSlotMoves DEF ReloadServers
<1>7. ASSUME NEW c \in Calls, NEW s \in Servers, Retest(c, s) PROVE TableTyped'
  <2>1. tableCalls' \in [Calls -> TableSlot]
    BY <1>7, TableSlotMoves DEF Retest, TableOps
  <2>2. QED BY <1>7, <2>1, TablePageMoves DEF Retest
<1>8. ASSUME NEW c \in Calls, ServeServers(c) PROVE TableTyped'
  BY <1>8, TableSlotMoves DEF ServeServers
<1>9. ASSUME NEW c \in Calls, ServeRow(c) PROVE TableTyped'
  <2>1. tableCalls[c].arg \in Servers /\ tableCalls[c].op \in RowOps
    BY <1>9, <1>a, <1>b DEF ServeRow, TableFits
  <2>2. Becomes[tableCalls[c].op] \in Shown
    BY <2>1 DEF Becomes, RowOps, Shown
  <2>3. serverRow' \in [Servers -> Shown]
    BY <1>9, <2>1, <2>2 DEF ServeRow
  <2>4. tableCalls' \in [Calls -> TableSlot]
    BY <1>9, <1>a, <2>1, TableSlotMoves, LostMoves DEF ServeRow
  <2>5. QED BY <1>9, <2>3, <2>4 DEF ServeRow
<1>10. ASSUME NEW c \in Calls, ServeProbe(c) PROVE TableTyped'
  BY <1>10, TableSlotMoves DEF ServeProbe
<1>11. ASSUME NEW c \in Calls, BreakTableCall(c) PROVE TableTyped'
  <2>1. tableCalls' \in [Calls -> TableSlot]
    BY <1>11, LostMoves DEF BreakTableCall, CanBreak
  <2>2. muddled' \subseteq Servers
    BY <1>11, <1>a, <1>b DEF BreakTableCall, TableFits
  <2>3. QED BY <1>11, <2>1, <2>2 DEF BreakTableCall
<1>12. ASSUME NEW c \in Calls, SettleServers(c) PROVE TableTyped'
  <2>1. tableCalls[c].ans \in [Servers -> Shown]
    BY <1>12, <1>b DEF SettleServers, TableFits
  <2>2. QED BY <1>12, <2>1, TableSlotMoves, TablePageMoves DEF SettleServers
<1>13. ASSUME NEW c \in Calls, SettleToggle(c) PROVE TableTyped'
  <2>1. tableCalls[c].arg \in Servers
    BY <1>13, <1>b DEF SettleToggle, TableFits
  <2>2. Becomes[tableCalls[c].op] \in Shown
    BY <1>13 DEF SettleToggle, Becomes, Shown
  <2>3. tableUI' \in PageOfTable
    <3>1. CASE tableCalls[c].at = "answered"
      <4>1. Replaced(tableCalls[c].arg, Becomes[tableCalls[c].op]) \in [Servers -> Shown]
        BY <2>1, <2>2, ReplacedRow
      <4>2. QED BY <1>13, <3>1, <4>1, TablePageMoves DEF SettleToggle
    <3>2. CASE tableCalls[c].at = "failed"
      <4>1. TakenBack(tableCalls[c].arg, tableCalls[c].op) \in [Servers -> Shown]
        BY <2>1, ReplacedRow DEF TakenBack, Shown
      <4>2. QED BY <1>13, <3>2, <4>1, TablePageMoves DEF SettleToggle
    <3>3. QED BY <1>13, <3>1, <3>2 DEF SettleToggle
  <2>4. QED BY <1>13, <2>3, TableSlotMoves DEF SettleToggle
<1>14. ASSUME NEW c \in Calls, SettleDelete(c) PROVE TableTyped'
  <2>1. tableCalls[c].arg \in Servers
    BY <1>14, <1>b DEF SettleDelete, TableFits
  <2>2. tableUI' \in PageOfTable
    BY <1>14, <2>1, TablePageMoves DEF SettleDelete, Shown
  <2>3. QED BY <1>14, <2>2, TableSlotMoves DEF SettleDelete
<1>15. ASSUME NEW c \in Calls, SettleProbe(c) PROVE TableTyped'
  <2>1. tableCalls[c].arg \in Servers
    BY <1>15, <1>b DEF SettleProbe, TableFits
  <2>2. tableUI' \in PageOfTable
    BY <1>15, TablePageMoves DEF SettleProbe
  <2>3. "status" \in TableOps \ {"listServers"}
    BY DEF TableOps
  <2>4. Send(tableCalls, c, "status", tableCalls[c].arg) \in [Calls -> TableSlot]
    BY <2>1, <2>3, TableSlotMoves
  <2>5. End(tableCalls, c) \in [Calls -> TableSlot]
    BY TableSlotMoves
  <2>6. tableCalls' \in [Calls -> TableSlot]
    BY <1>15, <2>4, <2>5 DEF SettleProbe
  <2>7. QED BY <1>15, <2>2, <2>6 DEF SettleProbe
<1>16. QED BY <1>1, <1>2, <1>4, <1>5, <1>6, <1>7, <1>8, <1>9, <1>10, <1>11, <1>12, <1>13,
  <1>14, <1>15 DEF TableNext

(* A step on a slot that is not about s, beside which s keeps its row and    *)
(* its line in the table; a reload that begins or ends meets no request on s. *)
LEMMA OtherRow ==
  ASSUME TableTyped, TableTyped', NEW s \in Servers, RowInv(s), NEW c \in Calls,
         \A d \in Calls \ {c} : tableCalls'[d] = tableCalls[d],
         c \notin Writing(s), c \notin Writing(s)',
         tableUI'.rows[s] = tableUI.rows[s], serverRow'[s] = serverRow[s],
         c \in Reloading' => /\ Writing(s) = {}
                             /\ tableCalls'[c].at = "answered" => tableCalls'[c].ans[s] = serverRow[s]
  PROVE  RowInv(s)'
<1> USE DEF RowInv
<1>1. Writing(s)' = Writing(s)
  BY DEF Writing
<1>2. Reloading' \subseteq Reloading \cup {c}
  BY DEF Reloading, Flying
<1>3. \A d \in Writing(s) : tableCalls'[d] = tableCalls[d]
  BY DEF Writing
<1>4. (\A d \in Writing(s) : HalfDone(s, d))'
  BY <1>1, <1>3 DEF HalfDone, Agrees
<1>5. (\A d \in Reloading : tableCalls[d].at = "answered" => tableCalls[d].ans[s] = serverRow[s])'
  BY <1>2 DEF Reloading, Flying
<1>6. (Writing(s) # {} => Reloading = {})'
  BY <1>1, <1>2
<1>7. (Writing(s) = {} => Agrees(s))'
  BY <1>1 DEF Agrees
<1>8. QED BY <1>1, <1>4, <1>5, <1>6, <1>7

(* A request on s that goes on, or ends: it is the only one, and nothing is  *)
(* reloading.                                                                *)
LEMMA SameRow ==
  ASSUME TableTyped, TableTyped', NEW s \in Servers, RowInv(s), NEW c \in Writing(s),
         \A d \in Calls \ {c} : tableCalls'[d] = tableCalls[d],
         \/ c \in Writing(s)' /\ HalfDone(s, c)'
         \/ tableCalls'[c].op = None /\ Agrees(s)'
  PROVE  RowInv(s)'
<1> USE DEF RowInv
<1>1. Writing(s) = {c} /\ Reloading = {} /\ c \in Calls
  BY DEF Writing
<1>2. Writing(s)' \subseteq {c}
  BY <1>1 DEF Writing
<1>3. Reloading' = {}
  BY <1>1, TableAssumption DEF Reloading, Flying, Writing, RowOps, TableOps
<1>4. tableCalls'[c].op = None => Writing(s)' = {}
  BY <1>2, TableAssumption DEF Writing, RowOps, TableOps
<1>5. QED BY <1>2, <1>3, <1>4

(* A request on s that begins: if s is not muddled by it, it is alone.       *)
LEMMA NewRow ==
  ASSUME TableTyped, TableTyped', NEW s \in Servers \ muddled', RowInv(s), NEW c \in Calls,
         NEW op \in RowOps, SendRow(c, op, s), HalfDone(s, c)'
  PROVE  RowInv(s)'
<1>1. Writing(s) = {} /\ Reloading = {}
  BY DEF SendRow
<1>2. /\ tableCalls'[c].op = op /\ tableCalls'[c].arg = s
      /\ \A d \in Calls \ {c} : tableCalls'[d] = tableCalls[d]
  BY TableSlotHolds DEF SendRow, TableTyped
<1>3. Writing(s)' = {c}
  BY <1>1, <1>2 DEF Writing
<1>4. Reloading' = {}
  BY <1>1, <1>2 DEF Reloading, Flying, RowOps
<1>5. QED BY <1>3, <1>4 DEF RowInv

LEMMA RowHolds ==
  ASSUME TableTyped, TableTyped', [TableNext]_tableVars,
         NEW s \in Servers, s \notin muddled, s \notin muddled', RowInv(s)
  PROVE  RowInv(s)'
<1>a. /\ serverRow \in [Servers -> Shown] /\ tableUI \in PageOfTable
      /\ tableCalls \in [Calls -> TableSlot] /\ muddled \subseteq Servers
      /\ \A c \in Calls : tableCalls[c] \in TableSlot /\ TableFits(tableCalls[c])
  BY DEF TableTyped, TableSlot
<1>b. None \notin RowOps /\ None # "listServers" /\ "listServers" \notin RowOps
  BY TableAssumption DEF TableOps, RowOps
<1>c. ASSUME NEW c \in Calls, tableCalls[c].at = "idle" PROVE c \notin Writing(s) /\ c \notin Reloading
  BY <1>a, <1>b, <1>c DEF TableFits, Writing, Reloading, Flying
<1>1. CASE UNCHANGED tableVars
  BY <1>1 DEF tableVars, RowInv, Writing, Reloading, Flying, HalfDone, Agrees
<1>2. CASE CancelDelete \/ \E t \in Servers : AskDelete(t)
  <2>1. tableUI'.rows = tableUI.rows /\ UNCHANGED <<serverRow, tableCalls>>
    BY <1>2, <1>a DEF CancelDelete, AskDelete, PageOfTable
  <2>2. QED BY <2>1 DEF RowInv, Writing, Reloading, Flying, HalfDone, Agrees
<1>3. ASSUME NEW c \in Calls, NEW t \in Servers, NEW op \in RowOps, SendRow(c, op, t), t # s,
             tableUI'.rows[s] = tableUI.rows[s]
      PROVE  RowInv(s)'
  <2>1. /\ tableCalls'[c].op = op /\ tableCalls'[c].arg = t /\ tableCalls[c].at = "idle"
        /\ \A d \in Calls \ {c} : tableCalls'[d] = tableCalls[d]
    BY <1>3, <1>a, TableSlotHolds DEF SendRow
  <2>2. c \notin Writing(s) /\ c \notin Writing(s)' /\ c \notin Reloading'
    BY <1>3, <1>b, <1>c, <2>1 DEF Writing, Reloading, Flying
  <2>3. serverRow'[s] = serverRow[s]
    BY <1>3 DEF SendRow
  <2>4. QED BY <1>3, <2>1, <2>2, <2>3, OtherRow
<1>4. ASSUME NEW c \in Calls, NEW t \in Servers, Toggle(c, t) PROVE RowInv(s)'
  <2>1. CASE t # s
    <3>1. tableUI'.rows[s] = tableUI.rows[s]
      BY <1>4, <1>a, <2>1 DEF Toggle, PageOfTable
    <3>2. SendRow(c, "enable", t) \/ SendRow(c, "disable", t)
      BY <1>4 DEF Toggle
    <3>3. QED BY <1>3, <2>1, <3>1, <3>2 DEF RowOps
  <2>2. CASE t = s
    <3>1. PICK op \in {"enable", "disable"} :
            /\ SendRow(c, op, s)
            /\ tableUI.rows[s] = Found(op) /\ tableUI'.rows[s] = Wanted(op)
      BY <1>4, <1>a, <2>2 DEF Toggle, Found, Wanted, PageOfTable
    <3>2. Writing(s) = {} /\ serverRow' = serverRow
      BY <3>1 DEF SendRow
    <3>3. serverRow[s] = Found(op)
      BY <3>1, <3>2 DEF RowInv, Agrees, Found
    <3>4. tableCalls'[c].op = op /\ tableCalls'[c].at = "sent"
      BY <3>1, <1>a, TableSlotHolds DEF SendRow
    <3>5. HalfDone(s, c)'
      BY <3>1, <3>2, <3>3, <3>4 DEF HalfDone
    <3>6. QED BY <3>1, <3>5, NewRow DEF RowOps
  <2>3. QED BY <2>1, <2>2
<1>5. ASSUME NEW c \in Calls, ConfirmDelete(c) PROVE RowInv(s)'
  <2>1. /\ tableUI.deleting \in Servers /\ SendRow(c, "deleteServer", tableUI.deleting)
        /\ tableUI' = tableUI
    BY <1>5, <1>a DEF ConfirmDelete, PageOfTable
  <2>2. CASE tableUI.deleting # s
    BY <1>3, <2>1, <2>2 DEF RowOps
  <2>3. CASE tableUI.deleting = s
    <3>1. Writing(s) = {} /\ serverRow' = serverRow
      BY <2>1, <2>3 DEF SendRow
    <3>2. tableCalls'[c].op = "deleteServer" /\ Agrees(s)'
      BY <2>1, <3>1, <1>a, TableSlotHolds DEF SendRow, RowInv, Agrees
    <3>3. HalfDone(s, c)'
      BY <3>2 DEF HalfDone
    <3>4. QED BY <2>1, <2>3, <3>3, NewRow DEF RowOps
  <2>4. QED BY <2>2, <2>3
<1>6. ASSUME NEW c \in Calls, ReloadServers(c) PROVE RowInv(s)'
  <2>1. /\ tableCalls'[c].op = "listServers" /\ tableCalls'[c].at = "sent"
        /\ tableCalls[c].at = "idle"
        /\ \A d \in Calls \ {c} : tableCalls'[d] = tableCalls[d]
    BY <1>6, <1>a, TableSlotHolds DEF ReloadServers
  <2>2. Writing(s) = {} /\ serverRow' = serverRow /\ tableUI' = tableUI
    BY <1>6 DEF ReloadServers
  <2>3. c \notin Writing(s)'
    BY <2>1, <1>b DEF Writing
  <2>4. QED BY <2>1, <2>2, <2>3, OtherRow
<1>7. ASSUME NEW c \in Calls,
             (\E t \in Servers : Retest(c, t)) \/ ServeProbe(c) \/ SettleProbe(c)
      PROVE  RowInv(s)'
  <2>1. /\ tableCalls'[c].op \in {"reindex", "status", None}
        /\ \A d \in Calls \ {c} : tableCalls'[d] = tableCalls[d]
    BY <1>7, <1>a, TableSlotHolds DEF Retest, ServeProbe, SettleProbe
  <2>2. tableCalls[c].op \in {"reindex", "status"} \/ tableCalls[c].at = "idle"
    BY <1>7 DEF Retest, ServeProbe, SettleProbe
  <2>3. c \notin Writing(s) /\ c \notin Writing(s)' /\ c \notin Reloading'
    BY <2>1, <2>2, <1>b, <1>c DEF Writing, Reloading, Flying, RowOps
  <2>4. tableUI'.rows = tableUI.rows /\ serverRow' = serverRow
    BY <1>7, <1>a DEF Retest, ServeProbe, SettleProbe, PageOfTable
  <2>5. QED BY <2>1, <2>3, <2>4, OtherRow
<1>8. ASSUME NEW c \in Calls, ServeServers(c) PROVE RowInv(s)'
  <2>1. /\ tableCalls'[c].op = "listServers" /\ tableCalls'[c].ans = serverRow
        /\ tableCalls[c].op = "listServers"
        /\ \A d \in Calls \ {c} : tableCalls'[d] = tableCalls[d]
    BY <1>8, <1>a, TableSlotHolds DEF ServeServers
  <2>2. c \in Reloading /\ c \notin Writing(s) /\ c \notin Writing(s)'
    BY <2>1, <1>b DEF Writing, Reloading, Flying
  <2>3. Writing(s) = {}
    BY <2>2 DEF RowInv
  <2>4. tableUI' = tableUI /\ serverRow' = serverRow
    BY <1>8 DEF ServeServers
  <2>5. QED BY <2>1, <2>2, <2>3, <2>4, OtherRow
<1>9. ASSUME NEW c \in Calls, ServeRow(c) PROVE RowInv(s)'
  <2> DEFINE t == tableCalls[c].arg
  <2>1. /\ tableCalls[c].at = "sent" /\ tableCalls[c].op \in RowOps /\ tableUI' = tableUI
        /\ t \in Servers
    BY <1>9, <1>a DEF ServeRow, TableFits, RowOps
  <2>2. \A d \in Calls \ {c} : tableCalls'[d] = tableCalls[d]
    BY <1>9, <1>a, <2>1, TableSlotHolds, LostMoves DEF ServeRow
  <2>3. tableCalls'[c].op = None \/ (tableCalls'[c].op = tableCalls[c].op /\ tableCalls'[c].arg = t)
    BY <1>9, <1>a, <2>1, TableSlotHolds, LostMoves DEF ServeRow
  <2>4. CASE t # s
    <3>1. serverRow'[s] = serverRow[s]
      BY <1>9, <1>a, <2>4 DEF ServeRow
    <3>2. c \notin Writing(s) /\ c \notin Writing(s)' /\ c \notin Reloading'
      BY <2>1, <2>3, <2>4, <1>b DEF Writing, Reloading, Flying
    <3>3. QED BY <2>1, <2>2, <3>1, <3>2, OtherRow
  <2>5. CASE t = s
    <3>1. c \in Writing(s) /\ HalfDone(s, c)
      BY <2>1, <2>5 DEF Writing, RowInv
    <3>2. CASE serverRow[s] = "none"
      <4>1. tableCalls[c].op = "deleteServer"
        BY <2>1, <3>1, <3>2 DEF HalfDone, RowOps, Found
      <4>2. tableCalls'[c].op = None /\ serverRow' = serverRow
        BY <1>9, <1>a, <2>1, <2>5, <3>2, <4>1, LostMoves DEF ServeRow
      <4>3. Agrees(s)'
        BY <2>1, <3>1, <4>1, <4>2 DEF HalfDone, Agrees
      <4>4. QED BY <2>2, <3>1, <4>2, <4>3, SameRow
    <3>3. CASE serverRow[s] # "none"
      <4>1. /\ serverRow'[s] = Becomes[tableCalls[c].op]
            /\ tableCalls'[c].op = tableCalls[c].op /\ tableCalls'[c].arg = s
            /\ tableCalls'[c].at = "answered"
        BY <1>9, <1>a, <2>5, <3>3, TableSlotHolds DEF ServeRow
      <4>2. tableCalls[c].op \in {"enable", "disable"} =>
              Becomes[tableCalls[c].op] = Wanted(tableCalls[c].op)
        BY DEF Becomes, Wanted
      <4>3. HalfDone(s, c)'
        BY <2>1, <3>1, <4>1, <4>2 DEF HalfDone
      <4>4. c \in Writing(s)'
        BY <2>1, <4>1 DEF Writing
      <4>5. QED BY <2>2, <3>1, <4>3, <4>4, SameRow
    <3>4. QED BY <3>2, <3>3
  <2>6. QED BY <2>4, <2>5
<1>10. ASSUME NEW c \in Calls, BreakTableCall(c) PROVE RowInv(s)'
  <2>1. /\ tableCalls[c].at \in {"sent", "answered"} /\ tableCalls' = Lost(c)
        /\ tableUI' = tableUI /\ serverRow' = serverRow
    BY <1>10 DEF BreakTableCall, CanBreak
  <2>2. /\ \A d \in Calls \ {c} : tableCalls'[d] = tableCalls[d]
        /\ tableCalls[c].op \in {"listServers", "deleteServer"} => tableCalls'[c].op = None
        /\ tableCalls[c].op \notin {"listServers", "deleteServer"} =>
             /\ tableCalls'[c].op = tableCalls[c].op /\ tableCalls'[c].arg = tableCalls[c].arg
             /\ tableCalls'[c].at = "failed"
    BY <2>1, <1>a, LostMoves
  <2>3. CASE c \notin Writing(s)
    <3>1. c \notin Writing(s)' /\ c \notin Reloading'
      BY <2>2, <2>3, <1>b DEF Writing, Reloading, Flying
    <3>2. QED BY <2>1, <2>2, <2>3, <3>1, OtherRow
  <2>4. CASE c \in Writing(s)
    <3>1. tableCalls[c].op \in RowOps /\ tableCalls[c].arg = s /\ HalfDone(s, c)
      BY <2>4 DEF Writing, RowInv
    <3>2. tableCalls[c].at = "sent"
      BY <1>10, <2>1, <3>1 DEF BreakTableCall
    <3>3. CASE tableCalls[c].op = "deleteServer"
      <4>1. tableCalls'[c].op = None /\ Agrees(s)'
        BY <2>1, <2>2, <3>1, <3>2, <3>3 DEF HalfDone, Agrees
      <4>2. QED BY <2>2, <2>4, <4>1, SameRow
    <3>4. CASE tableCalls[c].op # "deleteServer"
      <4>1. tableCalls[c].op \notin {"listServers", "deleteServer"}
        BY <3>1, <3>4, <1>b
      <4>2. c \in Writing(s)' /\ HalfDone(s, c)'
        BY <2>1, <2>2, <3>1, <3>2, <4>1 DEF HalfDone, Writing
      <4>3. QED BY <2>2, <2>4, <4>2, SameRow
    <3>5. QED BY <3>3, <3>4
  <2>5. QED BY <2>3, <2>4
<1>11. ASSUME NEW c \in Calls, SettleServers(c) PROVE RowInv(s)'
  <2>1. c \in Reloading /\ tableCalls[c].at = "answered"
    BY <1>11 DEF SettleServers, Reloading, Flying
  <2>2. Writing(s) = {} /\ tableCalls[c].ans[s] = serverRow[s]
    BY <2>1 DEF RowInv
  <2>3. /\ tableCalls'[c].op = None
        /\ \A d \in Calls \ {c} : tableCalls'[d] = tableCalls[d]
    BY <1>11, <1>a, TableSlotHolds DEF SettleServers
  <2>4. tableUI'.rows[s] = serverRow'[s] /\ serverRow' = serverRow
    BY <1>11, <1>a, <2>2 DEF SettleServers, PageOfTable
  <2>5. Writing(s)' = {} /\ Reloading' \subseteq Reloading \ {c}
    BY <2>2, <2>3, <1>b DEF Writing, Reloading, Flying
  <2>6. ASSUME NEW d \in Calls, tableCalls'[d].op = "listServers", tableCalls'[d].at = "answered"
        PROVE  tableCalls'[d].ans[s] = serverRow'[s]
    <3>1. tableCalls'[d] = tableCalls[d]
      BY <2>3, <2>6, <1>b
    <3>2. d \in Reloading
      BY <2>6, <3>1 DEF Reloading, Flying
    <3>3. tableCalls[d].ans[s] = serverRow[s]
      BY <2>6, <3>1, <3>2 DEF RowInv
    <3>4. QED BY <2>4, <3>1, <3>3
  <2>7. (\A d \in Reloading : tableCalls[d].at = "answered" => tableCalls[d].ans[s] = serverRow[s])'
    BY <2>6 DEF Reloading, Flying
  <2>8. QED BY <2>4, <2>5, <2>7 DEF RowInv, Agrees
<1>12. ASSUME NEW c \in Calls, SettleToggle(c) PROVE RowInv(s)'
  <2> DEFINE t == tableCalls[c].arg
             op == tableCalls[c].op
  <2>1. /\ op \in {"enable", "disable"} /\ tableCalls[c].at \in {"answered", "failed"}
        /\ t \in Servers /\ serverRow' = serverRow
    BY <1>12, <1>a DEF SettleToggle, TableFits
  <2>2. /\ tableCalls'[c].op = None
        /\ \A d \in Calls \ {c} : tableCalls'[d] = tableCalls[d]
    BY <1>12, <1>a, TableSlotHolds DEF SettleToggle
  <2>3. /\ Becomes[op] = Wanted(op) /\ TakenBack(t, op) = Replaced(t, Found(op))
        /\ Wanted(op) \in Shown /\ Found(op) \in Shown
    BY <2>1 DEF Becomes, Wanted, Found, TakenBack, Shown
  <2>4. tableUI'.rows = IF tableCalls[c].at = "answered" THEN Replaced(t, Wanted(op))
                        ELSE Replaced(t, Found(op))
    BY <1>12, <1>a, <2>1, <2>3 DEF SettleToggle, PageOfTable
  <2>5. CASE t # s
    <3>1. tableUI'.rows[s] = tableUI.rows[s]
      BY <2>1, <2>3, <2>4, <2>5, <1>a, ReplacedRow
    <3>2. c \notin Writing(s) /\ c \notin Writing(s)' /\ c \notin Reloading'
      BY <2>2, <2>5, <1>b DEF Writing, Reloading, Flying
    <3>3. QED BY <2>1, <2>2, <3>1, <3>2, OtherRow
  <2>6. CASE t = s
    <3>1. c \in Writing(s) /\ HalfDone(s, c)
      BY <2>1, <2>6 DEF Writing, RowInv, RowOps
    <3>2. tableUI.rows[s] # "none"
      BY <2>1, <3>1 DEF HalfDone, Wanted
    <3>3. tableUI'.rows[s] = serverRow[s]
      BY <2>1, <2>3, <2>4, <2>6, <3>1, <3>2, <1>a, ReplacedRow DEF HalfDone
    <3>4. Agrees(s)'
      BY <2>1, <3>3 DEF Agrees
    <3>5. QED BY <2>2, <3>1, <3>4, SameRow
  <2>7. QED BY <2>5, <2>6
<1>13. ASSUME NEW c \in Calls, SettleDelete(c) PROVE RowInv(s)'
  <2>1. /\ tableCalls[c].op = "deleteServer" /\ tableCalls[c].arg \in Servers
        /\ serverRow' = serverRow
    BY <1>13, <1>a DEF SettleDelete, TableFits
  <2>2. /\ tableCalls'[c].op = None
        /\ \A d \in Calls \ {c} : tableCalls'[d] = tableCalls[d]
    BY <1>13, <1>a, TableSlotHolds DEF SettleDelete
  <2>3. tableUI'.rows = [tableUI.rows EXCEPT ![tableCalls[c].arg] = "none"]
    BY <1>13, <1>a DEF SettleDelete, PageOfTable
  <2>4. CASE tableCalls[c].arg # s
    <3>1. c \notin Writing(s) /\ c \notin Writing(s)' /\ c \notin Reloading'
      BY <2>2, <2>4, <1>b DEF Writing, Reloading, Flying
    <3>2. tableUI'.rows[s] = tableUI.rows[s]
      BY <2>3, <2>4, <1>a DEF PageOfTable
    <3>3. QED BY <2>1, <2>2, <3>1, <3>2, OtherRow
  <2>5. CASE tableCalls[c].arg = s
    <3>1. c \in Writing(s)
      BY <2>1, <2>5 DEF Writing, RowOps
    <3>2. Agrees(s)'
      BY <2>3, <2>5, <1>a DEF PageOfTable, Agrees
    <3>3. QED BY <2>2, <3>1, <3>2, SameRow
  <2>6. QED BY <2>4, <2>5
<1>14. QED BY <1>1, <1>2, <1>4, <1>5, <1>6, <1>7, <1>8, <1>9, <1>10, <1>11, <1>12, <1>13 DEF TableNext

LEMMA MuddledGrows ==
  ASSUME [TableNext]_tableVars
  PROVE  muddled \subseteq muddled'
BY DEF TableNext, tableVars, CancelDelete, AskDelete, ReloadServers, ConfirmDelete, Toggle, SendRow,
  Retest, ServeServers, ServeRow, ServeProbe, BreakTableCall, SettleServers, SettleToggle,
  SettleDelete, SettleProbe

LEMMA TableInvariant == TableSpec => []TableInv
<1>1. TableInit => TableInv
  <2> SUFFICES ASSUME TableInit PROVE TableInv
    OBVIOUS
  <2>1. Idle \in TableSlot
    BY DEF Idle, TableSlot, AnyTableSlot, TableFits, Slot, Places
  <2>2. TableTyped
    BY <2>1 DEF TableInit, TableTyped, PageOfTable, Shown
  <2>3. \A c \in Calls : tableCalls[c].op = None
    BY DEF TableInit, Idle
  <2>4. \A s \in Servers : RowInv(s)
    BY <2>3, TableAssumption DEF TableInit, RowInv, Writing, Reloading, Flying, RowOps, TableOps,
      Agrees
  <2>5. QED BY <2>2, <2>4 DEF TableInv
<1>2. TableInv /\ [TableNext]_tableVars => TableInv'
  <2> SUFFICES ASSUME TableInv, [TableNext]_tableVars PROVE TableInv'
    OBVIOUS
  <2>1. TableTyped'
    BY TableTypeHolds DEF TableInv
  <2>2. ASSUME NEW s \in Servers, s \notin muddled' PROVE RowInv(s)'
    <3>1. s \notin muddled
      BY <2>2, MuddledGrows
    <3>2. QED BY <2>1, <2>2, <3>1, RowHolds DEF TableInv
  <2>3. QED BY <2>1, <2>2 DEF TableInv
<1>3. QED BY <1>1, <1>2, PTL DEF TableSpec

(* Types of the servers' rows, the table and its requests, for any servers   *)
(* and requests in flight.                                                   *)
THEOREM TableTypeCorrect == TableSpec => []TableTypeOK
<1>1. TableInv => TableTypeOK
  BY DEF TableInv, TableTyped, TableTypeOK, PageOfTable, TableSlot, AnyTableSlot
<1>2. QED BY <1>1, TableInvariant, PTL

(* The optimistic Enable, its answer, its rollback and the reloads of        *)
(* ServersPage.tsx agree: a server without a request in flight is shown as   *)
(* its row is, however many requests the other servers have.                 *)
THEOREM TableShowsRows == TableSpec => []TableAgrees
<1>1. TableInv => TableAgrees
  BY DEF TableInv, RowInv, Agrees, TableAgrees
<1>2. QED BY <1>1, TableInvariant, PTL

-----------------------------------------------------------------------------
(* The refresh tokens of an upstream.                                      *)

GuardPlaces == {"idle", "locking", "locked", "asking", "again", "granted", "denied", "marking"}

(* Refresh tokens that exist, and no token.                                 *)
KnownTokens == (1..issued) \cup {Nil}

TokenRow == [status : {"none", "connected", "expired"}, refresh : KnownTokens, stale : BOOLEAN]
PollState == [at : {"off", "new", "asking", "granted"}, got : KnownTokens]
GuardCall == [at : GuardPlaces, force : BOOLEAN, held : KnownTokens, got : KnownTokens, gone : BOOLEAN]

(* Nobody holds a token the upstream has not issued.                        *)
OAuthShape ==
  /\ tokenRow \in TokenRow /\ pending \in Signins \cup {Nil}
  /\ poll \in [Signins -> PollState] /\ guard \in [Callers -> GuardCall]
  /\ holder \in Callers \cup {Nil}
  /\ issued \in 0..MaxTokens /\ exchanged \subseteq 1..issued
  /\ lost \subseteq exchanged /\ replayed \subseteq exchanged

(* Issuing a token leaves what is held known.                               *)
LEMMA KnownGrows ==
  ASSUME OAuthShape, issued < MaxTokens, issued' = issued + 1
  PROVE  /\ issued' \in 0..MaxTokens /\ 1..issued \subseteq 1..issued'
         /\ issued' \in KnownTokens' /\ KnownTokens \subseteq KnownTokens'
         /\ TokenRow \subseteq TokenRow' /\ PollState \subseteq PollState' /\ GuardCall \subseteq GuardCall'
<1>1. /\ issued' \in 0..MaxTokens /\ 1..issued \subseteq 1..issued' /\ issued' \in 1..issued'
  BY OAuthAssumption DEF OAuthShape
<1>2. issued' \in KnownTokens' /\ KnownTokens \subseteq KnownTokens'
  BY <1>1 DEF KnownTokens
<1>3. QED BY <1>1, <1>2 DEF TokenRow, PollState, GuardCall

(* The rows, the pollers and the calls after one step of each.              *)
LEMMA OAuthSteps ==
  ASSUME OAuthShape
  PROVE  /\ NoRow \in TokenRow /\ Resting \in GuardCall /\ Off \in PollState
         /\ \A c \in Callers : [guard EXCEPT ![c] = Resting] \in [Callers -> GuardCall]
         /\ \A c \in Callers, p \in GuardPlaces : [guard EXCEPT ![c].at = p] \in [Callers -> GuardCall]
         /\ \A c \in Callers, p \in GuardPlaces, t \in KnownTokens :
              /\ [guard EXCEPT ![c].at = p, ![c].held = t] \in [Callers -> GuardCall]
              /\ [guard EXCEPT ![c].at = p, ![c].got = t] \in [Callers -> GuardCall]
         /\ \A c \in Callers : [guard EXCEPT ![c].gone = TRUE] \in [Callers -> GuardCall]
         /\ \A s \in Signins : [poll EXCEPT ![s] = Off] \in [Signins -> PollState]
         /\ \A s \in Signins, p \in {"asking", "granted"} :
              [poll EXCEPT ![s].at = p] \in [Signins -> PollState]
         /\ [tokenRow EXCEPT !.status = "expired"] \in TokenRow
         /\ [tokenRow EXCEPT !.stale = TRUE] \in TokenRow
<1>1. NoRow \in TokenRow /\ Resting \in GuardCall /\ Off \in PollState
  BY DEF NoRow, Resting, Off, TokenRow, GuardCall, PollState, GuardPlaces, KnownTokens
<1>2. ASSUME NEW c \in Callers, NEW p \in GuardPlaces, NEW t \in KnownTokens
      PROVE  /\ [guard[c] EXCEPT !.at = p] \in GuardCall
             /\ [guard[c] EXCEPT !.at = p, !.held = t] \in GuardCall
             /\ [guard[c] EXCEPT !.at = p, !.got = t] \in GuardCall
             /\ [guard[c] EXCEPT !.gone = TRUE] \in GuardCall
  BY <1>2 DEF OAuthShape, GuardCall
<1>3. ASSUME NEW c \in Callers, NEW r \in GuardCall PROVE [guard EXCEPT ![c] = r] \in [Callers -> GuardCall]
  BY <1>3 DEF OAuthShape
<1>4. ASSUME NEW c \in Callers, NEW p \in GuardPlaces, NEW t \in KnownTokens
      PROVE  /\ [guard EXCEPT ![c].at = p] \in [Callers -> GuardCall]
             /\ [guard EXCEPT ![c].at = p, ![c].held = t] \in [Callers -> GuardCall]
             /\ [guard EXCEPT ![c].at = p, ![c].got = t] \in [Callers -> GuardCall]
             /\ [guard EXCEPT ![c].gone = TRUE] \in [Callers -> GuardCall]
  BY <1>2, <1>3 DEF OAuthShape
<1>5. Nil \in KnownTokens /\ "idle" \in GuardPlaces
  BY DEF KnownTokens, GuardPlaces
<1>6. \A s \in Signins : [poll EXCEPT ![s] = Off] \in [Signins -> PollState]
  BY <1>1 DEF OAuthShape
<1>7. \A s \in Signins, p \in {"asking", "granted"} : [poll EXCEPT ![s].at = p] \in [Signins -> PollState]
  BY DEF OAuthShape, PollState
<1>8. [tokenRow EXCEPT !.status = "expired"] \in TokenRow /\ [tokenRow EXCEPT !.stale = TRUE] \in TokenRow
  BY DEF OAuthShape, TokenRow
<1>9. QED BY <1>1, <1>3, <1>4, <1>5, <1>6, <1>7, <1>8

LEMMA ShapeHolds == OAuthSpec => []OAuthShape
<1>1. OAuthInit => OAuthShape
  BY OAuthAssumption DEF OAuthInit, OAuthShape, NoRow, Resting, TokenRow, GuardCall, PollState, GuardPlaces, KnownTokens
<1>2. OAuthShape /\ [OAuthNext]_oauthVars => OAuthShape'
  <2> SUFFICES ASSUME OAuthShape, [OAuthNext]_oauthVars PROVE OAuthShape'
    OBVIOUS
  <2>a. /\ tokenRow \in TokenRow /\ pending \in Signins \cup {Nil}
        /\ poll \in [Signins -> PollState] /\ guard \in [Callers -> GuardCall]
        /\ holder \in Callers \cup {Nil}
        /\ issued \in 0..MaxTokens /\ exchanged \subseteq 1..issued
        /\ lost \subseteq exchanged /\ replayed \subseteq exchanged
    BY DEF OAuthShape
  <2>b. ASSUME issued' = issued, exchanged' = exchanged,
               tokenRow' \in TokenRow, pending' \in Signins \cup {Nil},
               poll' \in [Signins -> PollState], guard' \in [Callers -> GuardCall],
               holder' \in Callers \cup {Nil},
               lost' \subseteq exchanged, replayed' \subseteq exchanged
        PROVE  OAuthShape'
    BY <2>a, <2>b DEF OAuthShape, TokenRow, PollState, GuardCall, KnownTokens
  <2>1. ASSUME NEW s \in Signins, Connect(s) \/ Persist(s) \/ StopPolling(s) PROVE OAuthShape'
    <3>1. poll' \in [Signins -> PollState]
      <4>1. \/ poll' = [poll EXCEPT ![s].at = "asking"]
            \/ poll' = [poll EXCEPT ![s] = Off]
        BY <2>1 DEF Connect, Persist, StopPolling
      <4>2. CASE poll' = [poll EXCEPT ![s].at = "asking"]
        BY <4>2, OAuthSteps
      <4>3. QED BY <4>1, <4>2, OAuthSteps
    <3>2. tokenRow' \in TokenRow
      <4>1. \/ tokenRow' = tokenRow
            \/ tokenRow' = [status |-> "connected", refresh |-> poll[s].got, stale |-> FALSE]
        BY <2>1 DEF Connect, Persist, StopPolling
      <4>2. poll[s].got \in KnownTokens
        BY <2>a DEF PollState
      <4>3. [status |-> "connected", refresh |-> poll[s].got, stale |-> FALSE] \in TokenRow
        BY <4>2 DEF TokenRow
      <4>4. QED BY <4>1, <4>3, <2>a
    <3>3. QED BY <2>1, <2>a, <2>b, <3>1, <3>2 DEF Connect, Persist, StopPolling, idp
  <2>2. CASE Disconnect \/ NearExpiry
    BY <2>2, <2>a, <2>b, OAuthSteps DEF Disconnect, NearExpiry, idp
  <2>3. ASSUME NEW s \in Signins, Approve(s) PROVE OAuthShape'
    <3>1. CASE issued' = issued
      <4>1. poll' = [poll EXCEPT ![s].at = "granted"]
        BY <2>3, <3>1, <2>a DEF Approve
      <4>2. QED BY <2>3, <3>1, <4>1, <2>a, <2>b, OAuthSteps DEF Approve
    <3>2. CASE issued' # issued
      <4>1. /\ issued < MaxTokens /\ issued' = issued + 1
            /\ poll' = [poll EXCEPT ![s] = [at |-> "granted", got |-> issued']]
            /\ UNCHANGED <<tokenRow, pending, guard, holder, exchanged, lost, replayed>>
        BY <2>3, <3>2 DEF Approve
      <4>2. [at |-> "granted", got |-> issued'] \in PollState'
        BY <4>1, KnownGrows DEF PollState
      <4>3. poll' \in [Signins -> PollState']
        BY <4>1, <4>2, <2>a, KnownGrows
      <4>4. /\ tokenRow' \in TokenRow' /\ guard' \in [Callers -> GuardCall']
        BY <4>1, <2>a, KnownGrows
      <4>5. issued' \in 0..MaxTokens /\ exchanged' \subseteq 1..issued'
        BY <4>1, <2>a, KnownGrows
      <4>6. QED BY <4>1, <4>3, <4>4, <4>5, <2>a DEF OAuthShape
    <3>3. QED BY <3>1, <3>2
  <2>4. ASSUME NEW c \in Callers, NEW force \in BOOLEAN, AskToken(c, force) PROVE OAuthShape'
    <3>1. [at |-> IF tokenRow.refresh = Nil THEN "marking" ELSE "locking",
           force |-> force, held |-> tokenRow.refresh, got |-> Nil, gone |-> FALSE] \in GuardCall
      BY <2>a DEF GuardCall, GuardPlaces, TokenRow, KnownTokens
    <3>2. guard' \in [Callers -> GuardCall]
      BY <2>4, <3>1, <2>a DEF AskToken
    <3>3. QED BY <2>4, <3>2, <2>a, <2>b DEF AskToken, idp
  <2>5. ASSUME NEW c \in Callers, MarkUnrefreshable(c) \/ Lock(c) \/ HangUp(c) PROVE OAuthShape'
    <3>1. guard' \in [Callers -> GuardCall]
      <4>1. \/ guard' = [guard EXCEPT ![c] = Resting]
            \/ guard' = [guard EXCEPT ![c].at = "locked"]
            \/ guard' = [guard EXCEPT ![c].gone = TRUE]
        BY <2>5 DEF MarkUnrefreshable, Lock, HangUp
      <4>2. "locked" \in GuardPlaces
        BY DEF GuardPlaces
      <4>3. QED BY <4>1, <4>2, OAuthSteps
    <3>2. tokenRow' \in TokenRow
      BY <2>5, <2>a, OAuthSteps DEF MarkUnrefreshable, Lock, HangUp
    <3>3. QED BY <2>5, <2>a, <2>b, <3>1, <3>2 DEF MarkUnrefreshable, Lock, HangUp, idp
  <2>6. ASSUME NEW c \in Callers, Return(c)
        PROVE  guard' \in [Callers -> GuardCall] /\ holder' \in Callers \cup {Nil}
    BY <2>6, OAuthSteps DEF Return
  <2>7. ASSUME NEW c \in Callers, Reread(c) PROVE OAuthShape'
    <3>1. tokenRow.refresh \in KnownTokens /\ "asking" \in GuardPlaces
      BY <2>a DEF TokenRow, GuardPlaces
    <3>2. guard' \in [Callers -> GuardCall] /\ holder' \in Callers \cup {Nil}
      <4>1. CASE NothingToDo(c)
        BY <2>7, <4>1, <2>6 DEF Reread
      <4>2. CASE ~NothingToDo(c)
        <5>1. guard' = [guard EXCEPT ![c].at = "asking", ![c].held = tokenRow.refresh]
              /\ holder' = holder
          BY <2>7, <4>2 DEF Reread
        <5>2. QED BY <3>1, <5>1, <2>a, OAuthSteps
      <4>3. QED BY <4>1, <4>2
    <3>3. QED BY <2>7, <3>2, <2>a, <2>b DEF Reread, idp
  <2>8. ASSUME NEW c \in Callers, Exchange(c) PROVE OAuthShape'
    <3>0. guard[c].held \in 1..issued /\ guard[c].held \in KnownTokens /\ "granted" \in GuardPlaces
      BY <2>8, <2>a, OAuthAssumption DEF Exchange, GuardCall, KnownTokens, Tokens, GuardPlaces
    <3>1. CASE issued' = issued
      <4>1. /\ guard' = [guard EXCEPT ![c].at = "granted", ![c].got = guard[c].held]
            /\ exchanged' = exchanged
        BY <2>8, <3>1, <2>a DEF Exchange
      <4>2. QED BY <2>8, <3>0, <3>1, <4>1, <2>a, <2>b, OAuthSteps DEF Exchange
    <3>2. CASE issued' # issued
      <4>1. /\ issued < MaxTokens /\ issued' = issued + 1
            /\ exchanged' = exchanged \cup {guard[c].held}
            /\ guard' = [guard EXCEPT ![c].at = "granted", ![c].got = issued']
            /\ UNCHANGED <<tokenRow, pending, poll, holder, lost, replayed>>
        BY <2>8, <3>2 DEF Exchange
      <4>2. guard \in [Callers -> GuardCall']
        BY <4>1, <2>a, KnownGrows
      <4>3. [guard[c] EXCEPT !.at = "granted", !.got = issued'] \in GuardCall'
        BY <4>1, <4>2, KnownGrows DEF GuardCall, GuardPlaces
      <4>4. guard' = [guard EXCEPT ![c] = [guard[c] EXCEPT !.at = "granted", !.got = issued']]
        BY <4>1, <2>a
      <4>5. guard' \in [Callers -> GuardCall']
        BY <4>2, <4>3, <4>4
      <4>6. tokenRow' \in TokenRow' /\ poll' \in [Signins -> PollState']
        BY <4>1, <2>a, KnownGrows
      <4>7. issued' \in 0..MaxTokens /\ exchanged' \subseteq 1..issued'
        BY <4>1, <3>0, <2>a, KnownGrows
      <4>8. QED BY <4>1, <4>5, <4>6, <4>7, <2>a DEF OAuthShape
    <3>3. QED BY <3>1, <3>2
  <2>n. ASSUME NEW c \in Callers, NotGranted(c) PROVE guard' \in [Callers -> GuardCall]
    <3>1. PICK place \in {"again", "denied"} : guard' = [guard EXCEPT ![c].at = place]
      BY <2>n DEF NotGranted
    <3>2. place \in GuardPlaces /\ Nil \in KnownTokens
      BY DEF GuardPlaces, KnownTokens
    <3>3. QED BY <3>1, <3>2, OAuthSteps
  <2>9. ASSUME NEW c \in Callers, ExchangeUnheard(c) PROVE OAuthShape'
    <3>1. guard[c].held \in 1..issued
      BY <2>9, <2>a, OAuthAssumption DEF ExchangeUnheard, GuardCall, KnownTokens, Tokens
    <3>2. guard' \in [Callers -> GuardCall]
      BY <2>9, <2>n DEF ExchangeUnheard
    <3>3. QED BY <2>9, <3>1, <3>2, <2>a DEF ExchangeUnheard, OAuthShape, TokenRow, PollState, GuardCall, KnownTokens
  <2>10. ASSUME NEW c \in Callers, Deny(c) PROVE OAuthShape'
    <3>1. guard' \in [Callers -> GuardCall]
      BY <2>10, <2>n DEF Deny
    <3>2. QED BY <2>10, <3>1, <2>a, <2>b DEF Deny
  <2>11. ASSUME NEW c \in Callers, StoreRefreshed(c) PROVE OAuthShape'
    <3>1. tokenRow' \in TokenRow
      <4>1. \/ tokenRow' = tokenRow
            \/ tokenRow' = [status |-> "connected", refresh |-> guard[c].got, stale |-> FALSE]
        BY <2>11 DEF StoreRefreshed
      <4>2. guard[c].got \in KnownTokens
        BY <2>a DEF GuardCall
      <4>3. [status |-> "connected", refresh |-> guard[c].got, stale |-> FALSE] \in TokenRow
        BY <4>2 DEF TokenRow
      <4>4. QED BY <4>1, <4>3, <2>a
    <3>2. QED BY <2>11, <3>1, <2>a, <2>b, <2>6 DEF StoreRefreshed
  <2>12. ASSUME NEW c \in Callers, MarkDenied(c) PROVE OAuthShape'
    <3>1. tokenRow' \in TokenRow
      BY <2>12, <2>a, OAuthSteps DEF MarkDenied
    <3>2. QED BY <2>12, <3>1, <2>a, <2>b, <2>6 DEF MarkDenied, idp
  <2>13. CASE RestartGuard
    <3>1. guard' \in [Callers -> GuardCall] /\ poll' \in [Signins -> PollState]
      BY <2>13, <2>a, OAuthSteps DEF RestartGuard
    <3>2. QED BY <2>13, <3>1, <2>a, <2>b DEF RestartGuard
  <2>14. CASE UNCHANGED oauthVars
    BY <2>14, <2>a, <2>b DEF oauthVars
  <2>15. QED BY <2>1, <2>2, <2>3, <2>4, <2>5, <2>7, <2>8, <2>9, <2>10, <2>11, <2>12, <2>13, <2>14
    DEF OAuthNext
<1>3. QED BY <1>1, <1>2, PTL DEF OAuthSpec

(* Types, for any number of callers, sign-ins and tokens.                   *)
THEOREM OAuthTypeCorrect == OAuthSpec => []OAuthTypeOK
<1>1. OAuthShape => OAuthTypeOK
  <2> SUFFICES ASSUME OAuthShape PROVE OAuthTypeOK
    OBVIOUS
  <2>1. 1..issued \subseteq Tokens
    BY OAuthAssumption DEF OAuthShape, Tokens
  <2>2. KnownTokens \subseteq Tokens \cup {Nil}
    BY <2>1 DEF KnownTokens
  <2>3. QED BY <2>1, <2>2 DEF OAuthShape, OAuthTypeOK, TokenRow, PollState, GuardCall, GuardPlaces
<1>2. QED BY <1>1, ShapeHolds, PTL

(* A token that was exchanged and whose successor was not lost.             *)
SpentToken(t) == t \in exchanged /\ t \notin lost

(* The lock keeps all but one caller away from the upstream.                *)
OneHolds == \A c \in Callers : Locks(c) => holder = c

(* A caller presents a token that was not spent, and is granted one that     *)
(* was not exchanged; a connected row holds a spent token only while its     *)
(* successor is on its way to the row.                                       *)
CallsFresh == \A c \in Callers : /\ guard[c].at \in {"asking", "again"} => ~SpentToken(guard[c].held)
                                 /\ guard[c].at = "granted" => guard[c].got \notin exchanged
RowFresh == tokenRow.status = "connected" /\ SpentToken(tokenRow.refresh)
              => \E c \in Callers : guard[c].at = "granted" /\ guard[c].held = tokenRow.refresh

(* What a poller was granted is its own until it is stored.                  *)
OwnGrant(s) == poll[s].got # Nil =>
  /\ poll[s].got \notin exchanged /\ poll[s].got # tokenRow.refresh
  /\ \A c \in Callers : /\ guard[c].at \in {"asking", "again"} => guard[c].held # poll[s].got
                        /\ guard[c].at = "granted" => guard[c].got # poll[s].got
  /\ \A r \in Signins \ {s} : poll[r].got # poll[s].got

TokensFresh == OneHolds /\ CallsFresh /\ RowFresh /\ (\A s \in Signins : OwnGrant(s)) /\ ReplayOnlyAfterLoss

(* What a step leaves of the calls and of the polls.                         *)
LEMMA CallFields ==
  ASSUME OAuthShape, NEW c \in Callers
  PROVE  /\ \A p, t :
              /\ [guard EXCEPT ![c].at = p][c].at = p
              /\ [guard EXCEPT ![c].at = p][c].held = guard[c].held
              /\ [guard EXCEPT ![c].at = p][c].got = guard[c].got
              /\ [guard EXCEPT ![c].at = p, ![c].held = t][c].at = p
              /\ [guard EXCEPT ![c].at = p, ![c].held = t][c].held = t
              /\ [guard EXCEPT ![c].at = p, ![c].got = t][c].at = p
              /\ [guard EXCEPT ![c].at = p, ![c].got = t][c].held = guard[c].held
              /\ [guard EXCEPT ![c].at = p, ![c].got = t][c].got = t
              /\ \A d \in Callers \ {c} :
                   /\ [guard EXCEPT ![c].at = p][d] = guard[d]
                   /\ [guard EXCEPT ![c].at = p, ![c].held = t][d] = guard[d]
                   /\ [guard EXCEPT ![c].at = p, ![c].got = t][d] = guard[d]
         /\ [guard EXCEPT ![c] = Resting][c].at = "idle"
         /\ \A d \in Callers \ {c} : [guard EXCEPT ![c] = Resting][d] = guard[d]
BY DEF OAuthShape, GuardCall, Resting

(* No other caller asks, or was granted something, while one holds the lock. *)
LEMMA NobodyElse ==
  ASSUME OneHolds, NEW c \in Callers, Locks(c), NEW d \in Callers \ {c}
  PROVE  guard[d].at \notin {"locked", "asking", "again", "granted", "denied"}
BY DEF OneHolds, Locks

LEMMA NilIsNoToken == OAuthShape => Nil \notin exchanged
<1>1. ASSUME NEW n \in 1..issued, OAuthShape PROVE n # Nil
  BY <1>1, OAuthAssumption DEF OAuthShape
<1>2. QED BY <1>1 DEF OAuthShape

(* The gateway replays a refresh token only after its successor was lost.    *)
THEOREM NoReplay == OAuthSpec => []ReplayOnlyAfterLoss
<1>1. OAuthInit => TokensFresh
  BY DEF OAuthInit, TokensFresh, OneHolds, Locks, CallsFresh, RowFresh, OwnGrant, SpentToken, NoRow, Resting,
    ReplayOnlyAfterLoss
<1>2. OAuthShape /\ TokensFresh /\ [OAuthNext]_oauthVars => TokensFresh'
  <2> SUFFICES ASSUME OAuthShape, TokensFresh, [OAuthNext]_oauthVars PROVE TokensFresh'
    OBVIOUS
  <2>a. OneHolds /\ CallsFresh /\ RowFresh /\ (\A s \in Signins : OwnGrant(s)) /\ ReplayOnlyAfterLoss
    BY DEF TokensFresh
  <2>1. ASSUME UNCHANGED <<tokenRow, guard, holder, exchanged, lost, replayed>>,
               \A s \in Signins : OwnGrant(s)'
        PROVE  TokensFresh'
    BY <2>1, <2>a DEF TokensFresh, OneHolds, Locks, CallsFresh, RowFresh, SpentToken, ReplayOnlyAfterLoss
  <2>2. ASSUME NEW s \in Signins, Connect(s) PROVE TokensFresh'
    <3>1. \A r \in Signins : poll'[r].got = poll[r].got
      BY <2>2 DEF Connect, OAuthShape, PollState
    <3>2. \A r \in Signins : OwnGrant(r)'
      BY <2>2, <3>1, <2>a DEF Connect, OwnGrant, idp
    <3>3. QED BY <2>1, <2>2, <3>2 DEF Connect, idp
  <2>3. ASSUME NEW s \in Signins, StopPolling(s) PROVE TokensFresh'
    <3>1. \A r \in Signins : poll'[r].got = poll[r].got \/ poll'[r].got = Nil
      BY <2>3 DEF StopPolling, OAuthShape, PollState, Off
    <3>2. \A r \in Signins : OwnGrant(r)'
      BY <2>3, <3>1, <2>a DEF StopPolling, OwnGrant, idp
    <3>3. QED BY <2>1, <2>3, <3>2 DEF StopPolling, idp
  <2>4. ASSUME NEW s \in Signins, Approve(s) PROVE TokensFresh'
    <3>1. CASE issued' = issued
      <4>1. \A r \in Signins : poll'[r].got = poll[r].got
        BY <2>4, <3>1 DEF Approve, OAuthShape, PollState
      <4>2. \A r \in Signins : OwnGrant(r)'
        BY <2>4, <4>1, <2>a DEF Approve, OwnGrant
      <4>3. QED BY <2>1, <2>4, <4>2 DEF Approve
    <3>2. CASE issued' # issued
      <4>1. /\ issued' = issued + 1 /\ issued \in Nat
            /\ poll' = [poll EXCEPT ![s] = [at |-> "granted", got |-> issued']]
            /\ UNCHANGED <<tokenRow, guard, holder, exchanged, lost, replayed>>
        BY <2>4, <3>2 DEF Approve, OAuthShape
      <4>2. issued' \notin KnownTokens /\ issued' \notin exchanged
        BY <4>1, OAuthAssumption DEF KnownTokens, OAuthShape
      <4>3. /\ tokenRow.refresh # issued' /\ \A r \in Signins : poll[r].got # issued'
            /\ \A c \in Callers : guard[c].held # issued' /\ guard[c].got # issued'
        BY <4>2 DEF OAuthShape, TokenRow, PollState, GuardCall
      <4>4. poll'[s].got = issued' /\ \A r \in Signins \ {s} : poll'[r] = poll[r]
        BY <4>1 DEF OAuthShape
      <4>5. \A r \in Signins : OwnGrant(r)'
        BY <4>1, <4>2, <4>3, <4>4, <2>a DEF OwnGrant
      <4>6. QED BY <2>1, <4>1, <4>5
    <3>3. QED BY <3>1, <3>2
  <2>5. ASSUME NEW s \in Signins, Persist(s) PROVE TokensFresh'
    <3>1. /\ tokenRow'.status = "connected" /\ tokenRow'.refresh = poll[s].got
          /\ poll'[s].got = Nil /\ \A r \in Signins \ {s} : poll'[r] = poll[r]
          /\ UNCHANGED <<guard, holder, exchanged, lost, replayed>>
      BY <2>5 DEF Persist, Off, OAuthShape, idp
    <3>2. poll[s].got \notin exchanged
      BY <2>a, NilIsNoToken DEF OwnGrant
    <3>3. OneHolds' /\ CallsFresh' /\ ReplayOnlyAfterLoss'
      BY <3>1, <2>a DEF OneHolds, Locks, CallsFresh, SpentToken, ReplayOnlyAfterLoss
    <3>4. RowFresh'
      BY <3>1, <3>2 DEF RowFresh, SpentToken
    <3>5. \A r \in Signins : OwnGrant(r)'
      BY <3>1, <2>a DEF OwnGrant
    <3>6. QED BY <3>3, <3>4, <3>5 DEF TokensFresh
  <2>6. CASE Disconnect \/ NearExpiry
    <3>1. /\ UNCHANGED <<poll, guard, holder, exchanged, lost, replayed>>
          /\ tokenRow'.refresh \in {tokenRow.refresh, Nil}
          /\ tokenRow'.status = "connected"
               => tokenRow.status = "connected" /\ tokenRow'.refresh = tokenRow.refresh
      BY <2>6 DEF Disconnect, NearExpiry, NoRow, idp, OAuthShape, TokenRow
    <3>2. OneHolds' /\ CallsFresh' /\ ReplayOnlyAfterLoss'
      BY <3>1, <2>a DEF OneHolds, Locks, CallsFresh, SpentToken, ReplayOnlyAfterLoss
    <3>3. RowFresh'
      BY <3>1, <2>a DEF RowFresh, SpentToken
    <3>4. \A r \in Signins : OwnGrant(r)'
      BY <3>1, <2>a DEF OwnGrant
    <3>5. QED BY <3>2, <3>3, <3>4 DEF TokensFresh
  <2>q. ASSUME NEW c \in Callers, \A d \in Callers \ {c} : guard'[d] = guard[d],
               guard[c].at # "granted",
               guard'[c].at \notin {"locked", "asking", "again", "granted", "denied"},
               holder' = holder \/ Locks(c),
               UNCHANGED <<poll, exchanged, lost, replayed>>,
               tokenRow'.refresh = tokenRow.refresh,
               tokenRow'.status = "connected" => tokenRow.status = "connected"
        PROVE  TokensFresh'
    <3>1. OneHolds'
      BY <2>q, <2>a DEF OneHolds, Locks
    <3>2. CallsFresh' /\ ReplayOnlyAfterLoss'
      BY <2>q, <2>a DEF CallsFresh, SpentToken, ReplayOnlyAfterLoss
    <3>3. RowFresh'
      BY <2>q, <2>a DEF RowFresh, SpentToken
    <3>4. \A r \in Signins : OwnGrant(r)'
      BY <2>q, <2>a DEF OwnGrant
    <3>5. QED BY <3>1, <3>2, <3>3, <3>4 DEF TokensFresh
  <2>7. ASSUME NEW c \in Callers, NEW force \in BOOLEAN, AskToken(c, force) PROVE TokensFresh'
    <3>1. /\ \A d \in Callers \ {c} : guard'[d] = guard[d]
          /\ guard[c].at = "idle" /\ guard'[c].at \in {"marking", "locking"}
          /\ UNCHANGED <<tokenRow, poll, holder, exchanged, lost, replayed>>
      BY <2>7 DEF AskToken, idp, OAuthShape
    <3>2. QED BY <2>q, <3>1
  <2>8. ASSUME NEW c \in Callers, MarkUnrefreshable(c) PROVE TokensFresh'
    <3>1. /\ \A d \in Callers \ {c} : guard'[d] = guard[d]
          /\ guard[c].at = "marking" /\ guard'[c].at = "idle"
          /\ UNCHANGED <<poll, holder, exchanged, lost, replayed>>
      BY <2>8, CallFields DEF MarkUnrefreshable, idp
    <3>2. /\ tokenRow'.refresh = tokenRow.refresh
          /\ tokenRow'.status = "connected" => tokenRow.status = "connected"
      BY <2>8 DEF MarkUnrefreshable, OAuthShape, TokenRow
    <3>3. QED BY <2>q, <3>1, <3>2
  <2>r. ASSUME NEW c \in Callers, Return(c), Locks(c)
        PROVE  /\ \A d \in Callers \ {c} : guard'[d] = guard[d]
               /\ guard'[c].at = "idle"
    BY <2>r, CallFields DEF Return
  <2>9. ASSUME NEW c \in Callers, Lock(c) PROVE TokensFresh'
    <3>1. /\ \A d \in Callers \ {c} : guard'[d] = guard[d]
          /\ guard[c].at = "locking" /\ guard'[c].at = "locked" /\ holder = Nil /\ holder' = c
          /\ UNCHANGED <<tokenRow, poll, exchanged, lost, replayed>>
      BY <2>9, CallFields DEF Lock, idp
    <3>2. OneHolds'
      BY <3>1, <2>a, OAuthAssumption DEF OneHolds, Locks
    <3>3. CallsFresh' /\ ReplayOnlyAfterLoss'
      BY <3>1, <2>a DEF CallsFresh, SpentToken, ReplayOnlyAfterLoss
    <3>4. RowFresh'
      BY <3>1, <2>a DEF RowFresh, SpentToken
    <3>5. \A r \in Signins : OwnGrant(r)'
      BY <3>1, <2>a DEF OwnGrant
    <3>6. QED BY <3>2, <3>3, <3>4, <3>5 DEF TokensFresh
  <2>10. ASSUME NEW c \in Callers, Reread(c) PROVE TokensFresh'
    <3>0. Locks(c) /\ guard[c].at = "locked"
      BY <2>10 DEF Reread, Locks
    <3>1. CASE NothingToDo(c)
      <4>1. Return(c) /\ UNCHANGED <<tokenRow, poll, exchanged, lost, replayed>>
        BY <2>10, <3>1 DEF Reread, idp
      <4>2. QED BY <2>q, <2>r, <3>0, <4>1
    <3>2. CASE ~NothingToDo(c)
      <4>1. /\ guard' = [guard EXCEPT ![c].at = "asking", ![c].held = tokenRow.refresh]
            /\ UNCHANGED <<tokenRow, poll, holder, exchanged, lost, replayed>>
            /\ tokenRow.status = "connected"
        BY <2>10, <3>2 DEF Reread, NothingToDo, idp
      <4>2. /\ \A d \in Callers \ {c} : guard'[d] = guard[d]
            /\ guard'[c].at = "asking" /\ guard'[c].held = tokenRow.refresh
            /\ UNCHANGED <<tokenRow, poll, exchanged, lost, replayed>>
        BY <4>1 DEF OAuthShape, GuardCall
      <4>3. ~SpentToken(tokenRow.refresh)
        BY <4>1, <3>0, <2>a, NobodyElse DEF RowFresh
      <4>4. OneHolds'
        BY <3>0, <4>1, <4>2, <2>a DEF OneHolds, Locks
      <4>5. CallsFresh' /\ ReplayOnlyAfterLoss'
        BY <4>2, <4>3, <2>a DEF CallsFresh, SpentToken, ReplayOnlyAfterLoss
      <4>6. RowFresh'
        BY <4>1, <4>3 DEF RowFresh, SpentToken
      <4>7. \A r \in Signins : OwnGrant(r)'
        BY <4>2, <2>a DEF OwnGrant
      <4>8. QED BY <4>4, <4>5, <4>6, <4>7 DEF TokensFresh
    <3>3. QED BY <3>1, <3>2
  <2>11. ASSUME NEW c \in Callers, Exchange(c) PROVE TokensFresh'
    <3>0. /\ Locks(c) /\ guard[c].at \in {"asking", "again"} /\ guard[c].held \in Tokens \ exchanged
          /\ UNCHANGED <<tokenRow, poll, holder, lost, replayed>>
          /\ guard[c].held # Nil
      BY <2>11, OAuthAssumption DEF Exchange, Presents, Locks, Tokens
    <3>1. PICK t : guard' = [guard EXCEPT ![c].at = "granted", ![c].got = t]
                   /\ \/ /\ t = issued + 1 /\ exchanged' = exchanged \cup {guard[c].held}
                      \/ t = guard[c].held /\ exchanged' = exchanged
      BY <2>11 DEF Exchange
    <3>2. /\ \A d \in Callers \ {c} : guard'[d] = guard[d]
          /\ guard'[c].at = "granted" /\ guard'[c].held = guard[c].held /\ guard'[c].got = t
          /\ \/ exchanged' = exchanged \cup {guard[c].held}
             \/ exchanged' = exchanged
      BY <3>1 DEF OAuthShape, GuardCall
    <3>3. t \notin exchanged' /\ \A s \in Signins : poll[s].got # Nil => poll[s].got # t
      <4>1. CASE t = guard[c].held /\ exchanged' = exchanged
        BY <3>0, <4>1, <2>a DEF OwnGrant
      <4>2. CASE t = issued + 1 /\ exchanged' = exchanged \cup {guard[c].held}
        <5>1. t \notin KnownTokens /\ t \notin exchanged
          BY <4>2, OAuthAssumption DEF KnownTokens, OAuthShape
        <5>2. guard[c].held \in KnownTokens /\ \A s \in Signins : poll[s].got \in KnownTokens
          BY DEF OAuthShape, GuardCall, PollState
        <5>3. QED BY <4>2, <5>1, <5>2
      <4>3. QED BY <3>1, <4>1, <4>2
    <3>4. \A d \in Callers \ {c} : guard[d].at \notin {"locked", "asking", "again", "granted", "denied"}
      BY <3>0, <2>a, NobodyElse
    <3>5. OneHolds'
      BY <3>0, <3>2, <2>a DEF OneHolds, Locks
    <3>6. CallsFresh' /\ ReplayOnlyAfterLoss'
      BY <3>0, <3>2, <3>3, <3>4, <2>a DEF CallsFresh, ReplayOnlyAfterLoss
    <3>7. RowFresh'
      BY <3>0, <3>1, <3>2, <3>4, <2>a DEF RowFresh, SpentToken
    <3>8. \A r \in Signins : OwnGrant(r)'
      BY <3>0, <3>2, <3>3, <3>4, <2>a DEF OwnGrant
    <3>9. QED BY <3>5, <3>6, <3>7, <3>8 DEF TokensFresh
  <2>p. ASSUME NEW c \in Callers, NotGranted(c)
        PROVE  /\ \A d \in Callers \ {c} : guard'[d] = guard[d]
               /\ guard'[c].at \in {"again", "denied"} /\ guard'[c].held = guard[c].held
    BY <2>p, CallFields DEF NotGranted
  <2>12. ASSUME NEW c \in Callers, ExchangeUnheard(c) PROVE TokensFresh'
    <3>0. /\ Locks(c) /\ guard[c].at \in {"asking", "again"} /\ NotGranted(c)
          /\ exchanged' = exchanged \cup {guard[c].held} /\ lost' = lost \cup {guard[c].held}
          /\ UNCHANGED <<tokenRow, poll, holder, replayed>>
          /\ guard[c].held # Nil
      BY <2>12, OAuthAssumption DEF ExchangeUnheard, Presents, Locks, Tokens
    <3>1. \A d \in Callers \ {c} : guard'[d] = guard[d]
      BY <2>p, <3>0
    <3>2. guard'[c].at \in {"again", "denied"} /\ guard'[c].held = guard[c].held
      BY <2>p, <3>0
    <3>3. \A d \in Callers \ {c} : guard[d].at \notin {"locked", "asking", "again", "granted", "denied"}
      BY <3>0, <2>a, NobodyElse
    <3>4. OneHolds'
      BY <3>0, <3>1, <3>2, <2>a DEF OneHolds, Locks
    <3>5. CallsFresh' /\ ReplayOnlyAfterLoss'
      BY <3>0, <3>1, <3>2, <3>3, <2>a DEF CallsFresh, SpentToken, ReplayOnlyAfterLoss
    <3>6. RowFresh'
      BY <3>0, <3>1, <3>3, <2>a DEF RowFresh, SpentToken
    <3>7. \A r \in Signins : OwnGrant(r)'
      BY <3>0, <3>1, <3>2, <3>3, <2>a DEF OwnGrant
    <3>8. QED BY <3>4, <3>5, <3>6, <3>7 DEF TokensFresh
  <2>13. ASSUME NEW c \in Callers, Deny(c) PROVE TokensFresh'
    <3>0. /\ Locks(c) /\ guard[c].at \in {"asking", "again"} /\ NotGranted(c)
          /\ replayed' = replayed \cup (exchanged \cap {guard[c].held})
          /\ UNCHANGED <<tokenRow, poll, holder, exchanged, lost>>
      BY <2>13 DEF Deny, Presents, Locks
    <3>1. \A d \in Callers \ {c} : guard'[d] = guard[d]
      BY <2>p, <3>0
    <3>2. guard'[c].at \in {"again", "denied"} /\ guard'[c].held = guard[c].held
      BY <2>p, <3>0
    <3>3. ReplayOnlyAfterLoss'
      BY <3>0, <2>a DEF CallsFresh, SpentToken, ReplayOnlyAfterLoss
    <3>4. OneHolds' /\ CallsFresh'
      BY <3>0, <3>1, <3>2, <2>a DEF OneHolds, Locks, CallsFresh, SpentToken
    <3>5. RowFresh'
      BY <3>0, <3>1, <2>a DEF RowFresh, SpentToken
    <3>6. \A r \in Signins : OwnGrant(r)'
      BY <3>0, <3>1, <3>2, <2>a DEF OwnGrant
    <3>7. QED BY <3>3, <3>4, <3>5, <3>6 DEF TokensFresh
  <2>14. ASSUME NEW c \in Callers, StoreRefreshed(c) PROVE TokensFresh'
    <3>0. Locks(c) /\ guard[c].at = "granted" /\ Return(c) /\ UNCHANGED <<poll, exchanged, replayed>>
      BY <2>14 DEF StoreRefreshed, Locks
    <3>1. \A d \in Callers \ {c} : guard'[d] = guard[d]
      BY <2>r, <3>0
    <3>2. guard'[c].at = "idle"
      BY <2>r, <3>0
    <3>3. \A d \in Callers \ {c} : guard[d].at \notin {"locked", "asking", "again", "granted", "denied"}
      BY <3>0, <2>a, NobodyElse
    <3>4. \A d \in Callers : guard'[d].at \notin {"locked", "asking", "again", "granted", "denied"}
      BY <3>1, <3>2, <3>3
    <3>5. OneHolds' /\ CallsFresh'
      BY <3>4 DEF OneHolds, Locks, CallsFresh
    <3>6. CASE /\ lost' = lost
               /\ tokenRow' = [status |-> "connected", refresh |-> guard[c].got, stale |-> FALSE]
      <4>1. guard[c].got \notin exchanged
        BY <3>0, <2>a DEF CallsFresh
      <4>2. RowFresh' /\ ReplayOnlyAfterLoss'
        BY <3>0, <3>6, <4>1, <2>a DEF RowFresh, SpentToken, ReplayOnlyAfterLoss
      <4>3. \A r \in Signins : OwnGrant(r)'
        BY <3>0, <3>4, <3>6, <2>a DEF OwnGrant
      <4>4. QED BY <3>5, <4>2, <4>3 DEF TokensFresh
    <3>7. CASE tokenRow' = tokenRow /\ lost' = lost \cup (exchanged \cap {guard[c].held})
      <4>1. RowFresh' /\ ReplayOnlyAfterLoss'
        BY <3>0, <3>3, <3>7, <2>a DEF RowFresh, SpentToken, ReplayOnlyAfterLoss
      <4>2. \A r \in Signins : OwnGrant(r)'
        BY <3>0, <3>4, <3>7, <2>a DEF OwnGrant
      <4>3. QED BY <3>5, <4>1, <4>2 DEF TokensFresh
    <3>8. QED BY <2>14, <3>6, <3>7 DEF StoreRefreshed
  <2>15. ASSUME NEW c \in Callers, MarkDenied(c) PROVE TokensFresh'
    <3>1. Locks(c) /\ guard[c].at = "denied" /\ Return(c) /\ UNCHANGED <<poll, exchanged, lost, replayed>>
      BY <2>15 DEF MarkDenied, Locks, idp
    <3>2. /\ tokenRow'.refresh = tokenRow.refresh
          /\ tokenRow'.status = "connected" => tokenRow.status = "connected"
      BY <2>15 DEF MarkDenied, OAuthShape, TokenRow
    <3>3. QED BY <2>q, <2>r, <3>1, <3>2
  <2>s. ASSUME UNCHANGED <<tokenRow, poll, holder, exchanged, lost, replayed>>,
               \A d \in Callers : /\ guard'[d].at = guard[d].at /\ guard'[d].held = guard[d].held
                                  /\ guard'[d].got = guard[d].got
        PROVE  TokensFresh'
    <3>1. OneHolds' /\ CallsFresh' /\ ReplayOnlyAfterLoss'
      BY <2>s, <2>a DEF OneHolds, Locks, CallsFresh, SpentToken, ReplayOnlyAfterLoss
    <3>2. RowFresh'
      BY <2>s, <2>a DEF RowFresh, SpentToken
    <3>3. \A r \in Signins : OwnGrant(r)'
      BY <2>s, <2>a DEF OwnGrant
    <3>4. QED BY <3>1, <3>2, <3>3 DEF TokensFresh
  <2>16. ASSUME NEW c \in Callers, HangUp(c) PROVE TokensFresh'
    BY <2>16, <2>s DEF HangUp, OAuthShape, GuardCall, idp
  <2>17. CASE RestartGuard
    <3>1. /\ \A c \in Callers : guard'[c].at = "idle"
          /\ \A s \in Signins : poll'[s].got \in {poll[s].got, Nil}
          /\ UNCHANGED <<tokenRow, exchanged, replayed>>
      BY <2>17 DEF RestartGuard, Resting, Off
    <3>2. lost' = lost \cup {t \in exchanged : \E c \in Callers : guard[c].at = "granted" /\ guard[c].held = t}
      BY <2>17 DEF RestartGuard
    <3>3. OneHolds' /\ CallsFresh'
      BY <3>1 DEF OneHolds, Locks, CallsFresh
    <3>4. RowFresh' /\ ReplayOnlyAfterLoss'
      BY <3>1, <3>2, <2>a DEF RowFresh, SpentToken, ReplayOnlyAfterLoss
    <3>5. \A r \in Signins : OwnGrant(r)'
      BY <3>1, <2>a DEF OwnGrant
    <3>6. QED BY <3>3, <3>4, <3>5 DEF TokensFresh
  <2>18. CASE UNCHANGED oauthVars
    BY <2>18, <2>s DEF oauthVars
  <2>19. QED BY <2>2, <2>3, <2>4, <2>5, <2>6, <2>7, <2>8, <2>9, <2>10, <2>11, <2>12, <2>13,
                <2>14, <2>15, <2>16, <2>17, <2>18 DEF OAuthNext
<1>3. TokensFresh => ReplayOnlyAfterLoss
  BY DEF TokensFresh
<1>4. QED BY <1>1, <1>2, <1>3, ShapeHolds, PTL DEF OAuthSpec
=============================================================================
