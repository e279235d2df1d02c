----------------------------- MODULE LoginPage -----------------------------
(***************************************************************************)
(* Signing in with a second factor: pages/LoginPage.tsx, the login and     *)
(* loginMFA handlers, session.MFAGate and the recovery codes.              *)
(*                                                                         *)
(* A right password is answered with a ticket (mfa_token) that lives five  *)
(* minutes; a code presented with the ticket opens a session.  The gate's  *)
(* sections run under its mutex, the recovery codes are read by one        *)
(* statement and written back by another.  Nothing in the signed ticket    *)
(* says that it was used: the gate remembers it, in memory.                *)
(***************************************************************************)
EXTENDS Requests, Naturals

CONSTANTS
  Tickets,        \* bound: mfa_tokens the account can be issued
  RecoveryCodes,  \* recovery codes the user was given at enrolment
  MaxAttempts     \* mfaMaxAttempts: codes that may be tried with one ticket

ASSUME LoginAssumption == MaxAttempts \in Nat

VARIABLES
  loginUI,     \* the page: [ticket, submitting, loading, waiting, signedIn]
  loginCalls,  \* requests to /login and /login/mfa, and their handlers
  valid,       \* tickets issued and not expired
  gate,        \* MFAGate: [used, attempts]
  codesLeft,   \* totp.recovery_codes
  opened,      \* history: sessions opened per ticket since the server started
  spent,       \* history: sign-ins per recovery code, 2 for more than one
  raced        \* history: two recoveries read the codes before either wrote them

loginVars == <<loginUI, loginCalls, valid, gate, codesLeft, opened, spent, raced>>

Codes == RecoveryCodes \cup {"totp"}   \* "totp": six digits, right or wrong
LoginPlaces == Places \cup {"unused", "counted", "read", "verified", "limited"}
FreshPage == [ticket |-> None, submitting |-> FALSE, loading |-> FALSE,
              waiting |-> FALSE, signedIn |-> FALSE]
FreshGate == [used |-> {}, attempts |-> [t \in Tickets |-> 0]]

LoginTypeOK ==
  /\ loginUI \in [ticket : Tickets \cup {None}, submitting : BOOLEAN, loading : BOOLEAN,
                  waiting : BOOLEAN, signedIn : BOOLEAN]
  /\ loginCalls \in [Calls -> [at : LoginPlaces,
                               op : {"login", "mfa", "mfaElsewhere", None},
                               arg : (Tickets \X Codes) \cup {None},
                               ans : Tickets \cup (SUBSET RecoveryCodes) \cup {None}]]
  /\ valid \subseteq Tickets
  /\ gate \in [used : SUBSET Tickets, attempts : [Tickets -> 0..MaxAttempts]]
  /\ codesLeft \subseteq RecoveryCodes
  /\ opened \in [Tickets -> Nat] /\ spent \in [RecoveryCodes -> 0..2] /\ raced \in BOOLEAN

LoginInit ==
  /\ loginUI = FreshPage
  /\ loginCalls = [c \in Calls |-> Idle]
  /\ valid = {}
  /\ gate = FreshGate
  /\ codesLeft = RecoveryCodes
  /\ opened = [t \in Tickets |-> 0]
  /\ spent = [r \in RecoveryCodes |-> 0]
  /\ raced = FALSE

At(c, place) == loginCalls[c].at = place
TicketOf(c) == loginCalls[c].arg[1]
CodeOf(c) == loginCalls[c].arg[2]
GoTo(c, place) == loginCalls' = [loginCalls EXCEPT ![c].at = place]
Elsewhere(c) == loginCalls[c].op = "mfaElsewhere"
\* the page hears an error; for another client's request it is over
Refuse(c) == loginCalls' = IF Elsewhere(c) THEN End(loginCalls, c) ELSE Reject(loginCalls, c)
pageOnly == <<valid, gate, codesLeft, opened, spent, raced>>

-----------------------------------------------------------------------------
(* The page.                                                               *)

\* onSubmit: the password form, its button disabled while loading
SubmitPassword(c) ==
  /\ ~loginUI.signedIn /\ loginUI.ticket = None /\ ~loginUI.loading
  /\ At(c, "idle")
  /\ loginUI' = [loginUI EXCEPT !.loading = TRUE]
  /\ loginCalls' = Send(loginCalls, c, "login", None)
  /\ UNCHANGED pageOnly

SettlePassword(c) ==
  /\ loginCalls[c].op = "login"
  /\ \/ At(c, "answered") /\ loginUI' = [FreshPage EXCEPT !.ticket = loginCalls[c].ans]
     \/ At(c, "failed") /\ loginUI' = [loginUI EXCEPT !.loading = FALSE]
  /\ loginCalls' = End(loginCalls, c)
  /\ UNCHANGED pageOnly

\* submitMFA: the sixth digit and the form both call it; the ref, not the
\* button, keeps two submissions apart
SubmitMFA(c, code) ==
  /\ ~loginUI.signedIn
  /\ loginUI.ticket # None /\ ~loginUI.submitting /\ ~loginUI.waiting
  /\ At(c, "idle")
  /\ loginUI' = [loginUI EXCEPT !.submitting = TRUE, !.loading = TRUE]
  /\ loginCalls' = Send(loginCalls, c, "mfa", <<loginUI.ticket, code>>)
  /\ UNCHANGED pageOnly

\* the answer finds the page as it is now: also after a cancel it signs in
SettleMFA(c) ==
  /\ loginCalls[c].op = "mfa"
  /\ \/ At(c, "answered") /\ loginUI' = [FreshPage EXCEPT !.signedIn = TRUE]
     \/ /\ loginCalls[c].at \in {"failed", "limited"}
        /\ loginUI' = [loginUI EXCEPT !.submitting = FALSE, !.loading = FALSE,
                                      !.waiting = @ \/ At(c, "limited")]
  /\ loginCalls' = End(loginCalls, c)
  /\ UNCHANGED pageOnly

\* cancelMFA: the request in flight is not cancelled
CancelMFA ==
  /\ ~loginUI.signedIn /\ loginUI.ticket # None
  /\ loginUI' = [loginUI EXCEPT !.ticket = None, !.waiting = FALSE]
  /\ UNCHANGED <<loginCalls, pageOnly>>

\* the countdown of Retry-After reaches zero
CountDown ==
  /\ loginUI.waiting
  /\ loginUI' = [loginUI EXCEPT !.waiting = FALSE]
  /\ UNCHANGED <<loginCalls, pageOnly>>

SignOut ==
  /\ loginUI.signedIn
  /\ loginUI' = FreshPage
  /\ UNCHANGED <<loginCalls, pageOnly>>

\* another client of the API that holds the ticket: the page hears no answer
SubmitElsewhere(c, t, code) ==
  /\ At(c, "idle") /\ t \in valid
  /\ loginCalls' = Send(loginCalls, c, "mfaElsewhere", <<t, code>>)
  /\ UNCHANGED <<loginUI, pageOnly>>

-----------------------------------------------------------------------------
(* The handlers.                                                           *)

\* no trace of the ticket anywhere: it can stand for a new one
Unheard(t) ==
  /\ t \notin valid /\ gate.attempts[t] = 0 /\ opened[t] = 0
  /\ loginUI.ticket # t
  /\ \A c \in Calls : loginCalls[c].ans # t /\ (loginCalls[c].arg # None => TicketOf(c) # t)

\* login: the password is right, the user is enrolled; a wrong one is a 401,
\* which the page cannot tell from a broken connection
ServePassword(c) ==
  /\ At(c, "sent") /\ loginCalls[c].op = "login"
  /\ \E t \in Tickets :
       /\ Unheard(t)
       /\ valid' = valid \cup {t}
       /\ loginCalls' = Answer(loginCalls, c, t)
  /\ UNCHANGED <<loginUI, gate, codesLeft, opened, spent, raced>>

BreakLoginCall(c) ==
  /\ CanBreak(loginCalls, c)
  /\ Refuse(c)
  /\ UNCHANGED <<loginUI, pageOnly>>

\* ParseMFA and IsUsed
CheckTicket(c) ==
  /\ At(c, "sent") /\ loginCalls[c].op \in {"mfa", "mfaElsewhere"}
  /\ IF TicketOf(c) \in valid \ gate.used THEN GoTo(c, "unused") ELSE Refuse(c)
  /\ UNCHANGED <<loginUI, pageOnly>>

Limit(c) == IF Elsewhere(c) THEN Refuse(c) ELSE GoTo(c, "limited")

\* CheckAndCountAttempt; the count past the limit says no more
CountAttempt(c) ==
  /\ At(c, "unused")
  /\ IF TicketOf(c) \in valid
       THEN /\ gate' = [gate EXCEPT !.attempts[TicketOf(c)] = IF @ < MaxAttempts THEN @ + 1 ELSE @]
            /\ IF gate.attempts[TicketOf(c)] < MaxAttempts THEN GoTo(c, "counted") ELSE Limit(c)
       ELSE Limit(c) /\ UNCHANGED gate
  /\ UNCHANGED <<loginUI, valid, codesLeft, opened, spent, raced>>

\* the secret and the clock decide
VerifyTotp(c) ==
  /\ At(c, "counted") /\ CodeOf(c) \notin RecoveryCodes
  /\ GoTo(c, "verified") \/ Refuse(c)
  /\ UNCHANGED <<loginUI, pageOnly>>

\* ConsumeRecoveryCode: GetTOTP, then the UPDATE of the list without the code
ReadCodes(c) ==
  /\ At(c, "counted") /\ CodeOf(c) \in RecoveryCodes
  /\ IF CodeOf(c) \in codesLeft
       THEN loginCalls' = [loginCalls EXCEPT ![c].at = "read", ![c].ans = codesLeft]
       ELSE Refuse(c)
  /\ UNCHANGED <<loginUI, pageOnly>>

(* Mutant: the list is written back as it was read. *)
AllOfThem(c) == loginCalls[c].ans

\* the hashes that stay in the list
Remaining(c) == loginCalls[c].ans \ {CodeOf(c)}

WriteCodes(c) ==
  /\ At(c, "read")
  /\ codesLeft' = Remaining(c)
  /\ spent' = [spent EXCEPT ![CodeOf(c)] = IF @ > 1 THEN @ ELSE @ + 1]
  /\ raced' = (raced \/ \E d \in Calls \ {c} : At(d, "read"))
  /\ loginCalls' = [loginCalls EXCEPT ![c].at = "verified", ![c].ans = None]
  /\ UNCHANGED <<loginUI, valid, gate, opened>>

(* Mutant: the last check of the ticket relies on the first one. *)
ClaimableIfValid(t) == t \in valid

\* the gate's second look at the ticket, under its mutex
Claimable(t) == t \in valid \ gate.used

\* MarkUsed, then Issue
MarkUsed(c) ==
  /\ At(c, "verified")
  /\ IF Claimable(TicketOf(c))
       THEN /\ gate' = [gate EXCEPT !.used = @ \cup {TicketOf(c)}]
            /\ opened' = [opened EXCEPT ![TicketOf(c)] = @ + 1]
            /\ loginCalls' = IF Elsewhere(c) THEN End(loginCalls, c) ELSE Answer(loginCalls, c, None)
       ELSE Refuse(c) /\ UNCHANGED <<gate, opened>>
  /\ UNCHANGED <<loginUI, valid, codesLeft, spent, raced>>

\* five minutes pass; purge forgets the tickets that were used
ExpireTicket(t) ==
  /\ t \in valid
  /\ valid' = valid \ {t}
  /\ gate' = [gate EXCEPT !.used = @ \ {t},
                          !.attempts[t] = IF t \in gate.used THEN 0 ELSE @]
  /\ UNCHANGED <<loginUI, loginCalls, codesLeft, opened, spent, raced>>

\* a crash or a restart: the gate starts empty, the tickets are still valid
RestartLogin ==
  /\ gate' = FreshGate
  /\ opened' = [t \in Tickets |-> 0]
  /\ loginCalls' = [c \in Calls |->
       IF At(c, "idle") \/ Elsewhere(c) THEN Idle ELSE [loginCalls[c] EXCEPT !.at = "failed", !.ans = None]]
  /\ UNCHANGED <<loginUI, valid, codesLeft, spent, raced>>

-----------------------------------------------------------------------------
LoginNext ==
  \/ CancelMFA \/ CountDown \/ SignOut \/ RestartLogin
  \/ \E t \in Tickets : ExpireTicket(t)
  \/ \E c \in Calls :
       \/ SubmitPassword(c) \/ SettlePassword(c) \/ SettleMFA(c)
       \/ \E code \in Codes : SubmitMFA(c, code)
       \/ \E t \in Tickets, code \in Codes : SubmitElsewhere(c, t, code)
       \/ ServePassword(c) \/ BreakLoginCall(c)
       \/ CheckTicket(c) \/ CountAttempt(c) \/ VerifyTotp(c)
       \/ ReadCodes(c) \/ WriteCodes(c) \/ MarkUsed(c)

LoginSpec == LoginInit /\ [][LoginNext]_loginVars

(* A ticket opens at most one session while the server runs, however many    *)
(* submissions of it overlap, also when the ticket expires and its record is *)
(* purged between the check and MarkUsed (totp.go: loginMFA, MFAGate).       *)
TicketOpensOneSession == \A t \in Tickets : opened[t] <= 1

(* A recovery code signs in once, whatever happens to the ticket it came     *)
(* with, unless two recoveries overlapped between the read and the write of  *)
(* the list (store/totp.go: ConsumeRecoveryCode).                            *)
RecoveryCodeSpentOnce == raced \/ \A r \in RecoveryCodes : spent[r] <= 1
=============================================================================
