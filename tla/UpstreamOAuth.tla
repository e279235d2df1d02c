---------------------------- MODULE UpstreamOAuth ----------------------------
(***************************************************************************)
(* The OAuth credentials of one upstream server: the device flow that      *)
(* connects it (api/oauth.go) and the TokenGuard that hands its token to   *)
(* the proxy and the indexer and refreshes it (auth/upstream/guard.go).    *)
(*                                                                         *)
(* One row holds the token, another the pending sign-in.  A refresh takes  *)
(* the server's lock; the handlers that connect and disconnect, and the    *)
(* poller of a sign-in, write the same rows without it.  The upstream's    *)
(* authorization server rotates refresh tokens: exchanging one issues its  *)
(* successor, and presenting an exchanged one again is what such servers   *)
(* answer by revoking the grant.                                           *)
(***************************************************************************)
EXTENDS Naturals

CONSTANTS
  Callers,    \* bound: requests and indexings that ask for the token at a time
  Signins,    \* bound: oauth_sessions ever started
  MaxTokens,  \* bound: refresh tokens the upstream ever issues
  Nil        \* no row, no refresh token

ASSUME OAuthAssumption == MaxTokens \in Nat /\ Nil \notin Callers \cup Signins \cup Nat

VARIABLES
  tokenRow,  \* the oauth_tokens row; status "none" when there is no row
  pending,   \* the oauth_sessions row: the id of its sign-in
  poll,      \* [Signins -> goroutine]: pollDeviceUntilDone of each sign-in
  guard,     \* [Callers -> call]: tokenFor of each caller
  holder,    \* who holds the server's refresh lock
  issued,    \* refresh tokens 1..issued exist
  exchanged, \* those the upstream has exchanged for a successor
  lost,      \* exchanged ones whose successor was not stored
  replayed   \* those presented when they were exchanged

oauthVars == <<tokenRow, pending, poll, guard, holder, issued, exchanged, lost, replayed>>

Tokens == 1..MaxTokens
NoRow == [status |-> "none", refresh |-> Nil, stale |-> FALSE]
Resting == [at |-> "idle", force |-> FALSE, held |-> Nil, got |-> Nil, gone |-> FALSE]
Off == [at |-> "off", got |-> Nil]

OAuthTypeOK ==
  /\ tokenRow \in [status : {"none", "connected", "expired"}, refresh : Tokens \cup {Nil}, stale : BOOLEAN]
  /\ pending \in Signins \cup {Nil}
  /\ poll \in [Signins -> [at : {"off", "new", "asking", "granted"}, got : Tokens \cup {Nil}]]
  /\ guard \in [Callers -> [at : {"idle", "locking", "locked", "asking", "again", "granted",
                                  "denied", "marking"},
                            force : BOOLEAN, held : Tokens \cup {Nil}, got : Tokens \cup {Nil},
                            gone : BOOLEAN]]
  /\ holder \in Callers \cup {Nil}
  /\ issued \in 0..MaxTokens
  /\ exchanged \subseteq Tokens /\ lost \subseteq Tokens /\ replayed \subseteq Tokens

OAuthInit ==
  /\ tokenRow = NoRow /\ pending = Nil
  /\ poll = [s \in Signins |-> [at |-> "new", got |-> Nil]]
  /\ guard = [c \in Callers |-> Resting]
  /\ holder = Nil
  /\ issued = 0 /\ exchanged = {} /\ lost = {} /\ replayed = {}

idp == <<issued, exchanged, lost, replayed>>

-----------------------------------------------------------------------------
(* Connecting and disconnecting.                                           *)

\* connectServer: the sign-in replaces any earlier one and a goroutine polls it
Connect(s) ==
  /\ poll[s].at = "new"
  /\ pending' = s
  /\ poll' = [poll EXCEPT ![s].at = "asking"]
  /\ UNCHANGED <<tokenRow, guard, holder, idp>>

\* deleteOAuth, and reconnectServer before it connects
Disconnect ==
  /\ tokenRow' = NoRow /\ pending' = Nil
  /\ UNCHANGED <<poll, guard, holder, idp>>

\* the user has approved: the upstream answers the poll with a token set,
\* with or without a refresh token
Approve(s) ==
  /\ poll[s].at = "asking"
  /\ \/ /\ issued < MaxTokens
        /\ issued' = issued + 1
        /\ poll' = [poll EXCEPT ![s] = [at |-> "granted", got |-> issued']]
     \/ /\ poll' = [poll EXCEPT ![s].at = "granted"]
        /\ UNCHANGED issued
  /\ UNCHANGED <<tokenRow, pending, guard, holder, exchanged, lost, replayed>>

\* PersistToken, then DeleteOAuthSession of whatever sign-in is pending by now
Persist(s) ==
  /\ poll[s].at = "granted"
  /\ tokenRow' = [status |-> "connected", refresh |-> poll[s].got, stale |-> FALSE]
  /\ pending' = Nil
  /\ poll' = [poll EXCEPT ![s] = Off]
  /\ UNCHANGED <<guard, holder, idp>>

\* the sign-in has expired, and with it whatever sign-in is pending; or the
\* next round of the loop finds that another took its place
StopPolling(s) ==
  /\ poll[s].at = "asking"
  /\ \/ pending' = Nil
     \/ pending # s /\ UNCHANGED pending
  /\ poll' = [poll EXCEPT ![s] = Off]
  /\ UNCHANGED <<tokenRow, guard, holder, idp>>

-----------------------------------------------------------------------------
(* tokenFor.  Returning the stored token changes nothing.                  *)

Locks(c) == guard[c].at \in {"locked", "asking", "again", "granted", "denied"}

\* ForceRefresh after a 401, TokenFor within a minute of the expiry
AskToken(c, force) ==
  /\ guard[c].at = "idle"
  /\ tokenRow.status = "connected" /\ (force \/ tokenRow.stale)
  /\ guard' = [guard EXCEPT ![c] =
       [at |-> IF tokenRow.refresh = Nil THEN "marking" ELSE "locking",
        force |-> force, held |-> tokenRow.refresh, got |-> Nil, gone |-> FALSE]]
  /\ UNCHANGED <<tokenRow, pending, poll, holder, idp>>

\* MarkOAuthTokenExpired, also when the row is another one by now; no lock
MarkUnrefreshable(c) ==
  /\ guard[c].at = "marking"
  /\ tokenRow' = IF guard[c].gone \/ tokenRow.status = "none" THEN tokenRow
                 ELSE [tokenRow EXCEPT !.status = "expired"]
  /\ guard' = [guard EXCEPT ![c] = Resting]
  /\ UNCHANGED <<pending, poll, holder, idp>>

Lock(c) ==
  /\ guard[c].at = "locking" /\ holder = Nil
  /\ holder' = c
  /\ guard' = [guard EXCEPT ![c].at = "locked"]
  /\ UNCHANGED <<tokenRow, pending, poll, idp>>

\* the caller returns and its defer unlocks
Return(c) ==
  /\ guard' = [guard EXCEPT ![c] = Resting]
  /\ holder' = Nil

NothingToDo(c) == \/ guard[c].gone
                  \/ tokenRow.status # "connected"
                  \/ ~guard[c].force /\ ~tokenRow.stale

(* Mutant: the token read before the lock is the one refreshed. *)
KeepFirstRead(c) ==
  /\ guard[c].at = "locked"
  /\ guard' = [guard EXCEPT ![c].at = "asking"]
  /\ UNCHANGED <<tokenRow, pending, poll, holder, idp>>

\* another caller may have refreshed while this one waited for the lock
Reread(c) ==
  /\ guard[c].at = "locked"
  /\ IF NothingToDo(c)
       THEN Return(c)
       ELSE /\ guard' = [guard EXCEPT ![c].at = "asking", ![c].held = tokenRow.refresh]
            /\ UNCHANGED holder
  /\ UNCHANGED <<tokenRow, pending, poll, idp>>

\* Provider.Refresh presents the token as JSON and, when it is answered with
\* anything but success, once more as a form ("again")
Presents(c) == guard[c].at \in {"asking", "again"}

NotGranted(c) ==
  \E place \in {"again", "denied"} :
    /\ place = "again" => guard[c].at = "asking" /\ guard[c].held # Nil
    /\ guard' = [guard EXCEPT ![c].at = place]

\* the upstream exchanges the token and the answer arrives, with a successor or
\* without one, which keeps the token
Exchange(c) ==
  /\ Presents(c) /\ ~guard[c].gone
  /\ guard[c].held \in Tokens \ exchanged
  /\ \/ /\ issued < MaxTokens
        /\ issued' = issued + 1 /\ exchanged' = exchanged \cup {guard[c].held}
        /\ guard' = [guard EXCEPT ![c].at = "granted", ![c].got = issued']
     \/ /\ guard' = [guard EXCEPT ![c].at = "granted", ![c].got = guard[c].held]
        /\ UNCHANGED <<issued, exchanged>>
  /\ UNCHANGED <<tokenRow, pending, poll, holder, lost, replayed>>

\* the upstream exchanges it, and the answer is lost, or an error, or too late
ExchangeUnheard(c) ==
  /\ Presents(c)
  /\ guard[c].held \in Tokens \ exchanged
  /\ exchanged' = exchanged \cup {guard[c].held} /\ lost' = lost \cup {guard[c].held}
  /\ NotGranted(c)
  /\ UNCHANGED <<tokenRow, pending, poll, holder, issued, replayed>>

\* the upstream refuses, or was not reached, or there is no token to present
Deny(c) ==
  /\ Presents(c)
  /\ replayed' = replayed \cup (exchanged \cap {guard[c].held})
  /\ NotGranted(c)
  /\ UNCHANGED <<tokenRow, pending, poll, holder, issued, exchanged, lost>>

\* UpsertOAuthToken: over whatever the row is by now.  It fails when the
\* caller's context is done, or the database is
StoreRefreshed(c) ==
  /\ guard[c].at = "granted"
  /\ \/ /\ ~guard[c].gone
        /\ tokenRow' = [status |-> "connected", refresh |-> guard[c].got, stale |-> FALSE]
        /\ UNCHANGED lost
     \/ /\ lost' = lost \cup (exchanged \cap {guard[c].held})
        /\ UNCHANGED tokenRow
  /\ Return(c)
  /\ UNCHANGED <<pending, poll, issued, exchanged, replayed>>

\* MarkOAuthTokenExpired, whatever the row is by now; its error is ignored
MarkDenied(c) ==
  /\ guard[c].at = "denied"
  /\ \/ /\ ~guard[c].gone /\ tokenRow.status # "none"
        /\ tokenRow' = [tokenRow EXCEPT !.status = "expired"]
     \/ UNCHANGED tokenRow
  /\ Return(c)
  /\ UNCHANGED <<pending, poll, idp>>

-----------------------------------------------------------------------------
(* The environment.                                                        *)

\* the client of a proxied request hangs up, an indexing reaches its 30 seconds
HangUp(c) ==
  /\ guard[c].at # "idle" /\ ~guard[c].gone
  /\ guard' = [guard EXCEPT ![c].gone = TRUE]
  /\ UNCHANGED <<tokenRow, pending, poll, holder, idp>>

NearExpiry ==
  /\ tokenRow.status = "connected"
  /\ tokenRow' = [tokenRow EXCEPT !.stale = TRUE]
  /\ UNCHANGED <<pending, poll, guard, holder, idp>>

\* the rows survive; no poller is started again
RestartGuard ==
  /\ guard' = [c \in Callers |-> Resting]
  /\ holder' = Nil
  /\ poll' = [s \in Signins |-> IF poll[s].at = "new" THEN poll[s] ELSE Off]
  /\ lost' = lost \cup {t \in exchanged : \E c \in Callers : guard[c].at = "granted" /\ guard[c].held = t}
  /\ UNCHANGED <<tokenRow, pending, issued, exchanged, replayed>>

-----------------------------------------------------------------------------
OAuthNext ==
  \/ Disconnect \/ NearExpiry \/ RestartGuard
  \/ \E s \in Signins : Connect(s) \/ Approve(s) \/ Persist(s) \/ StopPolling(s)
  \/ \E c \in Callers :
       \/ \E force \in BOOLEAN : AskToken(c, force)
       \/ MarkUnrefreshable(c) \/ Lock(c) \/ Reread(c)
       \/ Exchange(c) \/ ExchangeUnheard(c) \/ Deny(c)
       \/ StoreRefreshed(c) \/ MarkDenied(c) \/ HangUp(c)

OAuthSpec == OAuthInit /\ [][OAuthNext]_oauthVars

(* A refresh token is presented again only when its successor never reached  *)
(* the database: concurrent requests, forced refreshes, sign-ins and         *)
(* disconnects in between never make the gateway replay one, which would     *)
(* have the upstream revoke the grant (guard.go: the lock and the re-read    *)
(* after it).                                                                *)
ReplayOnlyAfterLoss == replayed \subseteq lost
=============================================================================
