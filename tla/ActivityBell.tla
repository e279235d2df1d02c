---------------------------- MODULE ActivityBell ----------------------------
(***************************************************************************)
(* The activity bell (components/ActivityBell.tsx): every 30 seconds the   *)
(* latest events are fetched, whether or not the last fetch has ended; the *)
(* badge counts those the user has not seen, and an automatic kill is      *)
(* announced in a toast.  Answers may arrive out of order, and before or   *)
(* after the user opens the panel.  The log stays below the 20 events of   *)
(* one answer, so a list is the log at the time its handler ran.           *)
(***************************************************************************)
EXTENDS Requests, Naturals, FiniteSets

CONSTANTS
  Events,    \* bound: the events the activity log gets
  AutoKills  \* those of kind key_killed_auto

ASSUME BellAssumption == IsFiniteSet(Events) /\ AutoKills \subseteq Events

VARIABLES
  logged,    \* the events in the log
  bell,      \* the component's state and refs
  refreshes, \* its requests
  toasts     \* [AutoKills -> 0..2]: how often each was announced, counted to 2

bellVars == <<logged, bell, refreshes, toasts>>

BellTypeOK ==
  /\ logged \subseteq Events
  /\ bell \in [open : BOOLEAN, events : SUBSET Events, unread : 0..Cardinality(Events),
               seen : SUBSET Events, known : SUBSET Events]
  /\ refreshes \in [Calls -> Slot({"refresh"}, {}, SUBSET Events)]
  /\ toasts \in [AutoKills -> 0..2]

\* loadSeen: what an earlier visit saw is in localStorage
BellInit ==
  /\ logged \in SUBSET Events
  /\ \E seen \in SUBSET logged :
       bell = [open |-> FALSE, events |-> {}, unread |-> 0, seen |-> seen, known |-> {}]
  /\ refreshes = [c \in Calls |-> Idle]
  /\ toasts = [e \in AutoKills |-> 0]

-----------------------------------------------------------------------------
\* another component writes the log
Log(e) ==
  /\ logged' = logged \cup {e}
  /\ UNCHANGED <<bell, refreshes, toasts>>

\* the interval and the mount: an earlier refresh may still be in flight
Refresh(c) ==
  /\ refreshes[c].at = "idle"
  /\ refreshes' = Send(refreshes, c, "refresh", None)
  /\ UNCHANGED <<logged, bell, toasts>>

ServeActivity(c) ==
  /\ refreshes[c].at = "sent"
  /\ refreshes' = Answer(refreshes, c, logged)
  /\ UNCHANGED <<logged, bell, toasts>>

BreakRefresh(c) ==
  /\ CanBreak(refreshes, c)
  /\ refreshes' = Reject(refreshes, c)
  /\ UNCHANGED <<logged, bell, toasts>>

\* knownRef grows inside the loop: of the very first list, only the first
\* event goes without a toast
Announced(list) ==
  IF bell.known # {} THEN {list \ bell.known}
  ELSE IF list = {} THEN {{}} ELSE {list \ {first} : first \in list}

Toasted(news) == [e \in AutoKills |-> IF e \in news /\ toasts[e] < 2 THEN toasts[e] + 1 ELSE toasts[e]]

(* Mutant: the known events are those of the last list, not of every list. *)
LastList(list) == list

\* no event is forgotten
Known(list) == bell.known \cup list

SettleRefresh(c) ==
  /\ refreshes[c].at = "answered"
  /\ bell' = [bell EXCEPT !.events = refreshes[c].ans,
                          !.unread = Cardinality(refreshes[c].ans \ bell.seen),
                          !.known  = Known(refreshes[c].ans)]
  /\ \E news \in Announced(refreshes[c].ans) : toasts' = Toasted(news)
  /\ refreshes' = End(refreshes, c)
  /\ UNCHANGED logged

DropRefresh(c) ==
  /\ refreshes[c].at = "failed"
  /\ refreshes' = End(refreshes, c)
  /\ UNCHANGED <<logged, bell, toasts>>

\* the button: opening marks what is listed as seen, closing does not
ToggleBell ==
  /\ bell' = IF bell.open THEN [bell EXCEPT !.open = FALSE]
             ELSE [bell EXCEPT !.open = TRUE, !.seen = @ \cup bell.events, !.unread = 0]
  /\ UNCHANGED <<logged, refreshes, toasts>>

-----------------------------------------------------------------------------
BellNext ==
  \/ ToggleBell
  \/ \E e \in Events : Log(e)
  \/ \E c \in Calls : Refresh(c) \/ ServeActivity(c) \/ BreakRefresh(c)
                        \/ SettleRefresh(c) \/ DropRefresh(c)

BellSpec == BellInit /\ [][BellNext]_bellVars

(* Whatever the order in which the answers arrive around the user's clicks,  *)
(* the badge counts exactly the listed events the user has not seen, and no  *)
(* kill is announced twice (ActivityBell.tsx: refresh reads seenRef and      *)
(* knownRef after the await, markSeen writes the one and refresh the other). *)
BadgeAgrees ==
  /\ bell.unread = Cardinality(bell.events \ bell.seen)
  /\ \A e \in AutoKills : toasts[e] <= 1
=============================================================================
