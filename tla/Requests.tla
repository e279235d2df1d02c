------------------------------ MODULE Requests ------------------------------
(***************************************************************************)
(* The requests a page of the dashboard has in flight.                     *)
(*                                                                         *)
(* Every call of lib/api.ts is one fetch: it is sent, the server handles   *)
(* it, the page awaits the answer and only then runs what follows the      *)
(* await.  Nothing orders two fetches: their handlers run, and their       *)
(* answers arrive, in any order.  A fetch rejects when the request never   *)
(* reached its handler, when the handler answered an error, and when the   *)
(* answer was lost after the handler did its work: the page cannot tell    *)
(* these apart.  There is no timeout, no abort and no retry in the client. *)
(*                                                                         *)
(* A page's requests are a function from slots to records; a slot holds    *)
(* one request from its fetch to the end of the code after its await.      *)
(***************************************************************************)
CONSTANTS
  Calls,   \* bound: slots, the requests one page has in flight at a time
  None     \* undefined, null, the empty string

Idle == [at |-> "idle", op |-> None, arg |-> None, ans |-> None]

Places == {"idle", "sent", "answered", "failed"}

\* what a slot can hold, given the operations of the page and their data
Slot(Ops, Args, Answers) ==
  [at : Places, op : Ops \cup {None}, arg : Args \cup {None}, ans : Answers \cup {None}]

Quiet(calls) == \A c \in Calls : calls[c].at = "idle"

Flying(calls, op) == {c \in Calls : calls[c].op = op}

\* fetch: the request leaves the page
Send(calls, c, op, arg) ==
  [calls EXCEPT ![c] = [at |-> "sent", op |-> op, arg |-> arg, ans |-> None]]

\* the handler ends with a 2xx answer, which travels back
Answer(calls, c, ans) == [calls EXCEPT ![c].at = "answered", ![c].ans = ans]

\* the await throws: a status outside 2xx, or no answer at all
Reject(calls, c) == [calls EXCEPT ![c].at = "failed", ![c].ans = None]

\* the code after the await has run
End(calls, c) == [calls EXCEPT ![c] = Idle]

\* the connection breaks, before the handler ran or after it answered
CanBreak(calls, c) == calls[c].at \in {"sent", "answered"}
=============================================================================
