# TokenControlPlane in TLA+

TokenControlPlane is a gateway between AI agents and their MCP servers or LLM
providers. Agents carry a gateway key; the gateway decides whether the key may
pass, forwards the request, meters what it moved and writes the usage to
SQLite. This directory holds TLA+ models of that program, TLC configurations
that check them on small instances, and proofs for every instance.

Run TLC with `tlc -config <cfg> <module>` and the prover with
`tlapm <module>.tla`, from this directory.

## 1. The system

| Component | Code | State it keeps | Operations | Talks to |
|---|---|---|---|---|
| Key gate | `pkg/auth/keys.go` | a copy of every API key (killed, tokens used in total and per target), loop and rate windows | `Middleware`, `Kill`, `Unkill`, `PutKey`, `Reload`, `Add*TokensUsed` | rows through the store; called by every request, by the handlers, by the meter |
| Meter | `pkg/proxy/meter.go`, `accesslog.go` | pending usage per key and target, time of the last flush | `record`, `flushOne`, `Flush` | store, then the copy |
| HTTP proxy, breaker | `pkg/proxy/proxy.go`, `circuit.go`, `toolpolicy.go` | one circuit per server | `ServeHTTP`, `Allow`, `RecordSuccess`, `RecordFailure`, `Reset`, `ForceOpen` | policy cache, token guard, upstream, stdio manager |
| LLM gateway | `pkg/proxy/llm.go` | none | route, one-hop fallback, stream | provider, meter |
| Stdio manager | `pkg/upstream/stdio/` | one process slot per server: client, strikes, status, in-flight semaphore | `Ensure`, `Restart`, `Stop`, `CallTool`, `CloseAll` | breaker, child processes |
| Policy cache | `pkg/policy/cache.go` | grants, modes, budgets per key; enabled tools per server | `Warm`, `Invalidate*`, `Remove*`, `Allowed*` | store |
| Catalog indexer | `pkg/catalog/indexer.go` | none (rows: tools, index error) | `IndexServer`, async and on request | upstream, stdio manager, store |
| Upstream OAuth | `pkg/auth/upstream/`, `pkg/api/oauth.go` | a lock per server; token and session rows | `TokenFor`, `ForceRefresh`, `PersistToken`, `Poll` | authorization server, store |
| Sessions, MFA | `pkg/session/`, `pkg/api/totp.go`, `password.go` | attempts and consumed tickets | `CheckAndCountAttempt`, `MarkUsed` | store |
| Team | `pkg/api/users.go` | user and invite rows | `newInvite`, `join`, `patchUser`, `deleteUser` | store |
| Billing | `pkg/billing/`, `pkg/license/` | webhook, licence, plan rows | `Webhook`, `handleOrderPaid`, `handleOrderRefunded`, `Reissue` | Lemon Squeezy, mail |
| Update, migrations | `pkg/update/`, `pkg/store/migrate.go` | the binary and `.prev`; `schema_migrations` | `DownloadAndApply`, `Rollback`, `migrate` | file system |
| Store | `pkg/store/` | SQLite, one connection | one statement or transaction per method | everybody |
| Lifecycle | `cmd/gateway/main.go` | none | start, SIGTERM | everybody |
| Dashboard | `frontend/src/` | per page: React state and the requests in flight | what a user clicks; the code before and after each `await` | the handlers in `pkg/api`, by `fetch` |
| Mail, snippets, seed, licence signer | `pkg/mail/`, `pkg/snippets/`, `cmd/` | settings and template rows | | SMTP, files |

What is hard in this system, and what must be true all the same:

- **Two copies of the truth.** The gate decides on memory; operators change
  rows and memory in separate steps, and `Reload` takes many statements between
  reading the rows and swapping the maps in. Correct means: the copy and the
  row agree once the operations on a key are over, and nobody passes the kill
  switch of a killed key.
- **Write-behind metering.** Usage waits in memory, is taken out before it is
  written, is put back when the write fails, and is added to the copy after the
  commit. Correct means: charged at most once, lost only with the process.
- **Windows under concurrency.** Loop and rate guard stamp under a lock and act
  outside it. Correct means: a bound per window, whatever overlaps.
- **A breaker fed by late results.** Requests let in before it opened report
  while it is open or half open. Correct means: one probe, a consistent state,
  and recovery.
- **Processes replaced under their users.** A stdio slot is stopped, restarted
  and struck out while callers still hold it. Correct means: no stray child, and
  the cap on calls holds.
- **Rotating refresh tokens.** Concurrent callers queue for a refresh, handlers
  and pollers write the row without the lock. Correct means: an exchanged token
  is presented again only if its successor was lost.
- **Things that may happen once.** Invites, sign-in tickets, recovery codes, the
  one answer that carries a key's plaintext. Correct means: once, with requests
  that overlap, expire, or lose their answer.
- **A browser that knows only the past.** A page acts on what it was last told,
  has several requests in flight, gets their answers in any order and cannot tell
  a request that was lost from an answer that was. Correct means: what it shows
  is what the rows say, and what it promises works.
- **Elsewhere**: check-then-act on counts (caps, founders), and multi-step
  effects with a crash in the middle (webhooks, update, migrations).

`PROJECT.json` lists every one of these hazards at its line.

## 2. The modules

| Module | What it is |
|---|---|
| `KeyGate` | gate, meter, key handlers, key and usage rows, clock and process, composed |
| `UsageLedger` | what metering promises: recorded once, charged at most once, or lost |
| `MeterTokens` | what `flushOne` charges for a batch (exact reports or bytes/4) |
| `MCKeyGate` | TLC's instance of `KeyGate`, and the documented price of a request |
| `Circuit` | the circuit as a record and the effect of each `Breaker` method on it |
| `HttpProxy` | concurrent requests of one HTTP server around its circuit |
| `MCHttpProxy` | TLC's instance of `HttpProxy` |
| `StdioPool` | process slots, children, strikes and the shared circuit of one local server |
| `MCStdioPool` | TLC's instance of `StdioPool` |
| `Requests` | a page's requests: slots that are sent, answered, failed, idle |
| `KeysPage` | gateway keys: create, kill, revive, delete, list |
| `KeyDrawer` | one key's policy: the drawer and other dashboards, the handlers, the policy cache |
| `LoginPage` | password, second factor, `MFAGate`, recovery codes |
| `MembersPage` | roles and removals: one page per admin, and their handlers |
| `JoinPage` | invites, seats, the join form and its handler |
| `SettingsPage` | two-factor enrolment, mail settings, templates |
| `SetupWizard` | the first-run wizard |
| `ProvidersPage` | LLM providers, routes and their fallbacks, on this page and other dashboards |
| `ServersPage` | the table of servers: enable, delete, re-test |
| `SignIn` | adding an OAuth server and signing in to it |
| `ActivityBell` | the bell: polls, badge, toasts |
| `UpstreamOAuth` | token and session rows, `TokenGuard`, the pollers of sign-ins |
| `Dashboard` | the composition of the twelve modules above |
| `MCDashboard` | TLC's instance of `Dashboard` |
| `KeyGateProofs`, `KeyGateKillProofs`, `KeyGateUsageProofs` | the theorems about the gate: types and metering, kills and windows, the usage counter |
| `HttpProxyProofs`, `StdioPoolProofs` | those about the breaker with its two users |
| `AccountProofs` | those about people: members, invites, login, two-factor enrolment |
| `KeyServerProofs` | those about keys, their policies, the servers table and OAuth credentials |
| `DashboardProofs` | those about the bell, the routes, the wizard, the sign-in dialog, and the composition |

### KeyGate

*Granularity.* The store opens one connection (`SetMaxOpenConns(1)`), so one SQL
statement or transaction is one step. A section under `Validator.mu`,
`Validator.rateMu` or `Meter.mu` is one step. Everything else interleaves.
`PeriodStartUTC` is read in the same step as the statement next to it.

*Variables and code.* `row`, `usage`, `usageBy` are the tables; `month` is the
calendar. `cache` is `Validator.cache` and `byID`; `loop` and `rate` are the
stamps inside the windows, as the set of requests that left them. `pending`
holds the requests whose usage is in `Meter.pending`, `hot` the slots flushed
less than `flushEvery` ago. `batch[r]` is the local snapshot of the `record`
call of `r`; `drain` that of `Flush`, and `drained` what `Flush` has just
committed and not yet told the copy. `stale` and `old` are the objects that
requests still hold after a reload or `PutKey` replaced them. `op[a]` holds an
operator's locals. Usage is kept as the set of requests it came from, which is
what the properties tell apart; `BatchTokens` turns a set into tokens where a
number is stored.

*Actions and code.* A request goes through `Lookup`, `RefuseKilled` or
`PassKillSwitch`, `TripAutoKill` or `PassLoopGuard`, `RefuseBudget` or
`PassBudget`, `RefuseRate` or `PassRate` (Middleware in its order), then `Serve`
or a target refusal, then `RecordLater` or `RecordFlush`, `FlushStore` or
`FlushFail`, `FlushCache`. An auto-kill is `AutoKill` or `AutoKillFail`, then
`KillCache`. Operators do `Kill`; `Unkill`, `UnkillReset` (or `UnkillFail`),
`UnkillZero`, `UnkillCache`, `UnkillClear`; `CreateKey`, `PutKey`;
`DeleteKey` and the reload it ends in; `ReloadList`, `ReloadUsage`,
`ReloadUsageBy`, `ReloadSwap` or `ReloadFail`. `FlushAll`, `DrainSlot`,
`DrainCache`, `DrainFail` are the shutdown flush; `Cool`, `Expire`, `NewMonth` the clock;
`Restart` a crash or an exit, and the next start.

Three history variables say when a property may be expected to hold, and no
action reads them in a guard: `dirty[k]` (two operations on `k`'s flags
overlapped, or one failed half-way, since the last undisturbed reload),
`drift[k]` (the same for its counter), and `lost`.

*Abstractions.* `enabled` never changes after creation, so the check that
follows the lookup is merged with it. For an LLM request `TargetOf` is the
provider that finally serves it; the fallback before it is left out. A request
that fails after admission and is not metered (a broken copy to the client, an
LLM call nobody answers) is `Unmetered`. Each request is sent once; a client
that sends again is another member of `Reqs`.

### Circuit and HttpProxy

A `Breaker` method holds the circuit's mutex, so each is an operator on one
record, and a module that uses the breaker applies it within a step of its
own. `cooled` says that `openFor` has passed. `HttpProxy` follows a request
from `Allow` to a recorded result, or to one of the exits that record none:
OAuth 401, a denied tool call, a bad URL, a client that went away. Requests
refused before `Allow` change nothing there. `probing` is a history variable.
`Reset` and `ForceOpen` are there for the stdio manager and are not used by
`HttpProxy`.

### StdioPool

*Variables and code.* `current` is the server's entry in `Manager.procs`;
`slots` are the `process` structs, the ones no longer in the map included;
`alive` are the children that run; `exists` is the server's row; `at[c]` holds
a goroutine's place and locals. Identities of structs and clients are handed
out again once nothing points to them. `Manager.mu` sections are one step. The
mutex of a slot is held over several steps only by `startLocked`, so a slot is
locked exactly while some caller is in `start` or `init`, and its status is
`running` exactly while it has a client whenever the mutex is free. Strikes are
compared with 0 and with the limit only and stop counting there.

*Actions and code.* `Arrive` is the proxy's own `Allow`; a request then goes
through one `Ensure` for each message of its batch: `EnsureAllow`, `RowFound`,
`FindSlot`, then `Reuse` or `Start`, `Spawn`, `Initialize`, with a refusal or a
failure at each point. `LookAgain`, `TakePermit` or `Busy` are `CallTool`'s
second look and its semaphore; `CallFails`, `NoteLook`, `NoteStrike` are
`noteClientError`, whose error may come from the child that died, from a close,
or from a message that merely contains "closed" or "EOF". A re-indexing is
`BeginStop`, `Halt`, `ResetCircuit`, `Replace`, an `Ensure`, then `ListTools`; a
deletion is `BeginStop`, `Halt`, `DropRow`. `Crash` is the child's own end.
`CloseAll` is `Stop` of every server just before the process exits, and is not
an action.

### The dashboard's pages

*Requests.* Every call of `lib/api.ts` is one `fetch` without timeout, abort or
retry. A slot of a page's request variable (`keyCalls`, `provCalls`, ...) holds
one from the click to the end of the code behind its `await`. `Send` is the
code before the `await`; a serving action (`ServeCreate`, `InsertRoute`, ...) is
the handler, in as many steps as it has statements whose order matters; `Break...`
loses the request or its answer, or stands for an error status; a `Settle...` action
is the code after the `await`, its `catch` and `finally` included. `Calls` bounds
what a page has in flight at a time; where the code's own flag (`saving`, `busy`,
`loading`) disables a button, the guard is that flag and nothing else.

*State.* The record of a page (`keysUI`, `loginUI`, ...) has one field per
`useState` or `useRef` that a decision reads; wording and layout are left out.
Rows (`keyRow`, `role`, `invite`, `route`, ...) are what the handlers' tables
hold of it. `gate` is `MFAGate`, `laneCache` one entry of `policy.Cache`.

*Handlers in steps.* `loginMFA` is `CheckTicket`, `CountAttempt`, `VerifyTotp` or
`ReadCodes` and `WriteCodes`, `MarkUsed`; `join` is `CheckInvite`, `CountSeats`,
`CreateUser`, `MarkInviteUsed`; `patchUser` and `deleteUser` are `ReadTarget`,
`CountAdmins`, `WriteRole`; `confirm2FA` is `VerifyCode`, `WriteBatch`;
`newInvite` is `CountInvites`, `CreateInvite`; `createLLMModel` is `CheckRoute`,
`InsertRoute`; a policy save is `Commit`, one `ReadLane` per table, `Install`, or
`ReadFails`, after which the handler answers all the same. `RestartServer` and `RestartLogin` are a crash
or a restart: memory is gone, every request in flight fails.

*Routes.* The schema declares references between routes and providers, but the
connection string never turns SQLite's foreign keys on (`store.go:200`), so in
`ProvidersPage` a deletion deletes one row and an `INSERT` asks nobody. Ids are
uuids, never given twice: the model numbers them, and a route goes on naming the
id of a deleted provider or fallback. `OtherDashboard` sends the same requests
while this page's are in flight. `patchLLMModel`, which no page sends, is left out.

*Credentials.* In `UpstreamOAuth`, `guard[c]` is one `tokenFor`: `AskToken` reads
the row, `Lock` and `Reread` take the server's lock and read it again, `Exchange`
or `Deny` is the upstream's answer (`ExchangeUnheard` when the call is cut off
after it); a refusal of the JSON request is presented once more as a form (place
`again`), and only the second one counts. `StoreRefreshed` and `MarkDenied` write. `Connect`, `Approve`,
`Persist`, `StopPolling` are a sign-in and its poller, `Disconnect` the handler;
they write without the lock. `issued` and `exchanged` are the upstream's side.

*History variables* say when a property may be expected to hold; no action reads
one in a guard. They mark exactly the races the code leaves open: what a property
says is what holds until one of them happens, not that none happens. For the
policy the failing run `policy_enforced` states the promise without the variable;
for the others section 5 quotes what the repository promises, where it does.

| Variable | Set when | Without it |
|---|---|---|
| `overlapped` (Members) | a role is written between another handler's reads and its write | two admins demote each other and the team has none |
| `raced` (Login) | two recoveries read the list of codes before either wrote it | one writes the other's code back, or both use the same one |
| `disturbed` (Drawer) | the latest save met another one, or could not read a table | an older policy, or none, is enforced until the next save or a restart (`policy_enforced`) |
| `crossed` (Wizard) | a request about the server or the key left beside another | the key of one server is shown with another's address |
| `muddled` (Servers) | requests on one server overlap, or an answer is lost | a rollback overwrites a newer state |
| `strayed` (SignIn) | a request for a code meets another one or a poll | the dialog shows another server's code or state |
| `lost` (OAuth) | an exchanged token's successor never reached the row | the old token is all there is, and is presented again |

*Composition.* One page is open at a time. Pages have no React state in common
and each loads what it shows when it is mounted, so a visit to a page is a
behaviour of its module, whatever was visited before; `Dashboard` picks a page
and lets it work on any rows it may find. That a page is open beside another
user's is inside the page modules: `MembersPage` has a page per admin, `JoinPage`
one per person, `LoginPage` submissions from other browsers, `ActivityBell` a log
that others write. The navigation itself, `/me` and the expired-session redirect
keep nothing a property could be about.

## 3. What the runs show

| Run | Instance | Shows |
|---|---|---|
| `key_gate` | 1 key, 2 requests, 1 operator, loop threshold 1 | types; `KillAgrees`; `UsageAgrees`; `KilledKeyRefused`; `LoopBound`, with auto-kills that fail or race an un-kill |
| `key_gate_meter` | 1 key, 3 requests on a server and a provider, rate limit 2, 2 months | `MeteredOnce`, `RateBound`, `UsageAgrees`, and that `KeyGate` implements `UsageLedger` |
| `http_proxy` | 4 callers, threshold 2 | circuit shape, single probe, bounded failures, recovery unless a probe is abandoned |
| `kill_is_immediate` | 2 operators, 1 request | fails: a key killed between the `INSERT` of `createKey` and its entry in the cache is installed alive |
| `budget_is_monthly` | 2 requests, 2 months | fails: last month's counter refuses a key in the new month |
| `charged_as_documented` | 3 LLM requests, one of which reports usage | fails: the two others in its batch cost nothing |
| `stdio_pool` | 3 callers, 2 slots, 2 children, 1 strike, 1 call in flight, circuit threshold 1 | types, circuit shape under `Reset` and `ForceOpen`; no stray child, calls capped, a server whose strikes are used up is cut off |
| `one_process` | 2 callers | fails: a restart overwrites the slot that an `Ensure` filled after its `Stop`, and a child is out of reach |
| `dashboard` | 2 requests per page, pairs of everything, 3 routes, 3 events, 3 tokens | types, and the twelve properties below, page by page |
| `invite_is_single_use` | 1 invite, 2 people, `JoinPage` alone | fails: two joins of one link make two accounts |
| `retry_shortly` | 2 callers | fails: an abandoned probe leaves 503 for ever |
| `policy_enforced` | `KeyDrawer` alone, 2 saves, 2 lanes | fails: a read fails after the commit, the entry is dropped and everything is allowed |

What `dashboard` shows of each page:

| Property | Module | Says |
|---|---|---|
| `RevealBeforeDiscard` | KeysPage | a plaintext key leaves the page only from the open dialog |
| `SaveRepairs` | KeyDrawer | whatever was stale before, a save that meets no other and reads every table leaves the stored policy enforced (until the next `disturbed` one) |
| `TicketOpensOneSession`, `RecoveryCodeSpentOnce` | LoginPage | a ticket opens one session, a code signs in once (unless `raced`) |
| `AdminRemains` | MembersPage | the team keeps an admin (unless `overlapped`) |
| `InviteOpensOneSession` | JoinPage | an invite opens one session, a revoked one none |
| `ShownCodesOpen` | SettingsPage | the recovery codes on the screen are those of the row |
| `ConfigurationWorks` | SetupWizard | the key shown is the server's, and the server is indexed (unless `crossed`) |
| `FallbacksEnd` | ProvidersPage | a route's fallbacks, and those of one about to be inserted, end after two hops |
| `TableAgrees` | ServersPage | with nothing in flight a shown row is right (unless `muddled`) |
| `DialogIsTrue` | SignIn | "connected" and the code are those of the server it is open for (unless `strayed`) |
| `BadgeAgrees` | ActivityBell | the badge counts the unseen events, a kill is announced once |
| `ReplayOnlyAfterLoss` | UpstreamOAuth | no refresh token is presented twice unless its successor was lost |

The runs that fail state what the README, a comment or an answer of the gateway
says; `PROJECT.json` quotes the line beside the code that disagrees.

*Why these bounds.* The gate treats keys independently: only `Reload` touches
several. Two requests, one of whose auto-kills is an operation of its own, and
one operator are pairs of actors that share a key; two operators are in
`kill_is_immediate`, and the proofs of `KillAgrees`, `KilledKeyRefused` and
`UsageAgrees` cover any number of keys, requests and operators. The loop guard trips on the second request when the threshold is 1. Three requests
are what it takes for one to be throttled while a second flush of its slot is
in flight, and for a rate limit of 2 to refuse somebody. Six bytes per request
are one estimated token alone and three in a batch of two, so charging by
batch and by request differ. For `StdioPool` three callers are a restart, a deletion or a second restart
against two requests: one that still starts the slot that was replaced, and one
that uses the new one. With two, a stale start and a used-up slot never
meet, with three they do. Two slots and two children are the current
and the replaced one, and when both are taken the allocator waits; with one
strike a slot is either fresh or used up, which is all the code compares. Four callers and a threshold of 2 leave two late
failures after the circuit opened. `MaxMonth` bounds the months that begin.
For the dashboard two requests in flight are a pair in either order, with a third
answer to come once one of them ended; pairs of keys, servers, lanes, tickets and
people let one request be about another thing than the dialog; one recovery code
is enough to be spent twice; three seats and two pending invites leave the last
seat to be raced for; three routes and a fourth that was checked and not yet
inserted are what a chain of three hops takes, and two requests what it takes
for a row to change between a check and its `INSERT`; three
events, two of them automatic kills, are a list, a longer one and one that comes
late; three refresh tokens are one spent, one current and one that a sign-in
stores over it. `InviteIsSingleUse` needs two people only.
Symmetry is used only where requests or operators are interchangeable and no
temporal property is checked besides box formulas. The view `OpenPage` of
`MCDashboard` leaves out the variables of the pages that are not open: all states
with the same open page agree on them, as `DashboardInit` gives each one value and
`DashboardNext` keeps it. `CHECK_DEADLOCK FALSE` is
set for `KeyGate` because its clients send a finite number of requests and
everything may then be over, and for `StdioPool` because nothing is left to do
with a server once it is deleted. It is set for the dashboard because a user who
has left the wizard, used up the invites or deleted the keys may be finished.

*Fairness.* `KeyGate`, `StdioPool` and the dashboard have none: their properties
are safety, and nothing in a browser makes a request end or a user click. `HttpProxy` assumes
`WF(Cool)`, time passes, and `WF(Progress(c))`, an admitted request ends: the
transport has timeouts and a client that leaves cancels it. No fairness is
assumed of clients (none must call) nor of `Restart`.

## 4. What is proved

All proofs hold for any sets of keys, targets, requests, operators and clients
and any limits, under `GateAssumption` (KeyGate), `ThresholdAssumption`
(Circuit), `ProxyAssumption` (HttpProxy) and `PoolAssumption` (StdioPool). Those
about the dashboard assume what its modules name: that there is an admin, that
limits are natural numbers, that the events of the log are finitely many, and
that `None` is not one of the things it stands for the absence of
(`KeysAssumption`, `LoginAssumption`, `MembersAssumption`, `JoinAssumption`,
`ProvidersAssumption`, `RoutesAssumption`, `BellAssumption`, `OAuthAssumption`,
`TableAssumption`, `SettingsAssumption`, `WizardAssumption`, `SignAssumption`).
The last also says that a verification code is none of the words a poll is
answered with. Every safety property a passing run checks is a theorem; what
is left to TLC is liveness.

| Theorem | Statement |
|---|---|
| `KeyGateProofs!TypeCorrect` | `Spec => []TypeOK` |
| `KeyGateProofs!MeteringConserves` | `Spec => []MeteredOnce` |
| `KeyGateProofs!ImplementsLedger` | `Spec => LedgerSpec` |
| `KeyGateKillProofs!CopyAgrees` | `Spec => []KillAgrees` |
| `KeyGateKillProofs!KillSwitchHolds` | `Spec => KilledKeyRefused` |
| `KeyGateKillProofs!LoopGuardBounds` | `Spec => []LoopBound` |
| `KeyGateKillProofs!RateGuardBounds` | `Spec => []RateBound` |
| `HttpProxyProofs!TypeCorrect` | `Spec => []TypeOK` |
| `HttpProxyProofs!BreakerKeepsShape` | `Spec => []Shape` |
| `HttpProxyProofs!OneProbe` | `Spec => []SingleProbe` |
| `StdioPoolProofs!TypeCorrect` | `Spec => [](TypeOK /\ AllFine)` |
| `StdioPoolProofs!SharedBreakerKeepsShape` | `Spec => []Shape` |
| `StdioPoolProofs!ChildrenOwned` | `Spec => []NoStray` |
| `StdioPoolProofs!CallsCapped` | `Spec => []CurrentCapped` |
| `HttpProxyProofs!LateFailuresBounded` | `Spec => []FailuresBounded` |
| `StdioPoolProofs!StrikesCutOff` | `Spec => StruckOutCutOff` |
| `KeyGateUsageProofs!UsageInAgreement` | `Spec => []UsageAgrees` |
| `AccountProofs!JoinTypeCorrect`, `MembersTypeCorrect` | `JoinSpec => []JoinTypeOK`, `MembersSpec => []MembersTypeOK` |
| `AccountProofs!LoginTypeCorrect`, `SettingsTypeCorrect` | `LoginSpec => []LoginTypeOK`, `SettingsSpec => []SettingsTypeOK` |
| `AccountProofs!OneSessionPerInvite` | `JoinSpec => []InviteOpensOneSession` |
| `AccountProofs!AdminStays` | `MembersSpec => []AdminRemains` |
| `AccountProofs!OneSessionPerTicket` | `LoginSpec => []TicketOpensOneSession` |
| `AccountProofs!RecoveryCodeOnce` | `LoginSpec => []RecoveryCodeSpentOnce` |
| `AccountProofs!CodesOpenAccount` | `SettingsSpec => []ShownCodesOpen` |
| `KeyServerProofs!KeysTypeCorrect`, `DrawerTypeCorrect` | `KeysSpec => []KeysTypeOK`, `DrawerSpec => []DrawerTypeOK` |
| `KeyServerProofs!TableTypeCorrect`, `OAuthTypeCorrect` | `TableSpec => []TableTypeOK`, `OAuthSpec => []OAuthTypeOK` |
| `KeyServerProofs!KeyIsShown` | `KeysSpec => RevealBeforeDiscard` |
| `KeyServerProofs!OneSaveRepairs` | `DrawerSpec => []SaveRepairs` |
| `KeyServerProofs!TableShowsRows` | `TableSpec => []TableAgrees` |
| `KeyServerProofs!NoReplay` | `OAuthSpec => []ReplayOnlyAfterLoss` |
| `DashboardProofs!BadgeIsRight` | `BellSpec => []BadgeAgrees` |
| `DashboardProofs!FallbacksAreShort` | `ProvidersSpec => []FallbacksEnd` |
| `DashboardProofs!WizardTypeCorrect`, `SignInTypeCorrect` | `WizardSpec => []WizardTypeOK`, `SignInSpec => []SignInTypeOK` |
| `DashboardProofs!CopiedConfigurationWorks` | `WizardSpec => []ConfigurationWorks` |
| `DashboardProofs!DialogTellsTruth` | `SignInSpec => []DialogIsTrue` |
| `DashboardProofs!DashboardTypeCorrect` | `DashboardSpec => []DashboardTypeOK` |
| `DashboardProofs!DashboardIsSafe` | `DashboardSpec => []PagesAreSafe`: the twelve page invariants, `FallbacksEnd` among them, of the composition |
| `DashboardProofs!DashboardRevealsKeys` | `DashboardSpec => RevealBeforeDiscard` |

*Metering.* `MeteredOnce` is inductive with the types; the ledger refinement
follows by cases on the action that moves a request between its places:
recording is `Record`, a commit is `Charge`, a restart and a failed drain are
`Lose`, everything else stutters.

*The kill switch.* `KillAgrees` says nothing of a key in the middle of an
operation, so it is not inductive. `KillInv` says of every key that is not
dirty exactly how far its one operation has got (row written, copy not yet;
snapshot listed, still equal to the row; ...) and that the copy otherwise
agrees, together with the fact that a request holding the cache's object holds
a known key. The lemmas show that an operation elsewhere leaves a key alone,
that beginning a second operation makes it dirty, and that each operation's
own steps advance its case. `CopyAgrees` and `KillSwitchHolds` follow.

*The usage counter.* `UsageAgrees` is silent while a flush, a reload or a reset
is under way, so `UsageInv` says what the counter lacks then: of every key that
is not drifting, the copy holds the row minus the sum of the batches that are
committed and not yet added (`Level`), a reload has either still to read the
row or holds what it read (`Apart`, `Counted`), and a key that is just being
created has used nothing (`Early`). The sum is over requests, and this prover
has no recursion: `SumsTo(w, F, n)` says that `n` is in every relation that
holds of 0 and the empty set and is kept by adding a request, and the lemmas
`SumAdd`, `SumRemove`, `SumSame` and `SumEmptyOnly` each choose the relation
that makes the induction.

*The windows.* Each is inductive: only `PassLoopGuard` and `PassRate` add a
stamp and an admission together, under the guard that compares the count.

*The breaker.* `Shape` is inductive over the effect of the three methods the
proxy calls; `OneProbe` adds that a half-open circuit has a prober.
`FailuresBounded` counts a late failure off the requests that are still out as
it goes up by one; a failure that opens the circuit starts from the threshold
with at least its own request in flight no more.

*Used-up strikes.* Of all steps that leave the current slot struck out, or close
the circuit, the ones left to look at are a strike, which forces the circuit
open in the same step, a successful start, which clears the strikes of the slot
it started, and `Reset` and `Replace` of a restart. Between them the slot that
was halted is still the one the restart will replace (`HaltedGone`).

*The children.* `NoStray` needs `Locking`: a slot that is being started in has
no client, was not stopped, and has one starter. `CurrentCapped` needs `Caps`:
a caller about to call the current slot's child holds, or waits for, the permit
of that very slot, because a slot that was replaced never becomes current again
with a client, and a client being initialized is nobody else's.

*An invite, a ticket, a code.* Whoever has a session, or its answer on the way,
has the invite used up for himself: the claim in `MarkInviteUsed` is one
statement, so two cannot hold it. A ticket that has opened a session and can
still be parsed is in the gate's memory (`Remembered`), and the purge forgets it
only after it expired; `MarkUsed` looks once more under the mutex. Until two
recoveries overlap, a handler between its read and its write holds the list as
it is, with its code in it, and a code in the list was never spent
(`ListIsFresh`).

*Recovery codes on the screen.* The `busy` flag stands for the one request a
button waits for (`OnePressed`), loads aside. While the codes are shown that
request can only be the `get2FA` behind them (`CodesAreLast`), and a batch on
its way to the page is the row's (`BatchIsTrue`).

*An admin.* A handler about to take the admin role away has counted another
admin, and nobody wrote a role since, or `overlapped` is set; the admin of the page
never demotes himself.

*A key's plaintext.* A `createKey` is in flight only while `saving` is set, there
is one at a time, and no plaintext is on the page before its answer has come; so
what replaces or clears a plaintext is a click in the open dialog.

*A key's policy.* While `disturbed` is false there is at most one save after its
commit (`SavesAlone`), because a `Commit` that finds another one sets it. What
that save has read, lane by lane, is what the tables still hold
(`ReadsAreTrue`), as only a `Commit` writes them; so what it installs is all the
rows, and neither what the cache held before nor the other lanes matter.

*The servers table.* `RowInv` goes server by server: one request about it at a
time and none beside a reload, or it is `muddled`; in between, the click has
turned the shown flag and the handler turns the row (`HalfDone`).

*The wizard.* Until two requests cross there is one, and `InOrder` says what
each step has behind it: a request about the server is out only before there is
a step that needs one, one about the key is for the server on the screen, and
its answer names a key created for it.

*The sign-in dialog.* A request for a code is alone (`AsksAlone`), or it
strayed; polls may be many. Each is for the dialog's server, and what it brings
is still true (`Faithful`): a token goes only in a reconnect, and a code is
replaced only by another request for one.

*Refresh tokens.* The lock leaves one caller between the re-read and the write.
It holds a token that was not spent, because a connected row holds a spent token
only while its successor is on its way to that row (`TokensFresh`); what a
poller was granted is its own until it is stored. A restart or a cut-off call in
between puts the token into `lost`.

*Fallbacks.* `RoutesInv` says that nothing points at a route that was not created
yet (`OnlyGiven`), that every chain ends after two hops (`ChainsEnd`), and that
what `ValidateFallbackChain` found of a fallback (`ShortIn`) stays true until the
`INSERT`, whatever other dashboards do in between (`BodyFits`): a deletion only
shortens chains (`DeletionShortens`), ids are not given twice, and no page
changes a fallback. A new route is pointed at by none, so only its own chain is
new (`InsertionEnds`). Both would fail with `PATCH`, which can change the fallback
of a route that others point at.

*The bell.* `unread` is recomputed with `seen` in every step that writes either,
and an announced kill is known.

*The composition.* The `Visits...` lemmas show that a behaviour of the dashboard
is a behaviour of each of its twelve modules; the theorems about them, the
types included, then hold of it.

## 5. Only model-checked, and not modelled

- `RecoversUnlessAbandoned` and `RetryShortly` are liveness, outside this
  prover, and checked by TLC only; so are the tokens a batch comes to
  (`MeterTokens` folds over it): the proofs take `BatchTokens` as any function
  into the naturals.
- No run states these disagreements, which the models show when one reads their
  actions:
  - `docs/LLM_ROUTING.md:43` says "**Chain depth max 2** (primary + one hop)";
    `ValidateFallbackChain` takes depth 2 for two hops, as its comment says
    (`store/llm.go:322`), and refuses a third. `FallbacksEnd` is what the code
    holds, not what the document says.
  - `store/llm.go:310` says the chain is at most 2 deep, but `patchLLMModel`
    (`api/llm.go:283`) checks only what the new fallback points at and not who
    points at the route it changes: two routes can fall back on each other.
  - `0009_llm_providers.sql:28` says `ON DELETE CASCADE`; foreign keys are off
    (`store.go:200`), and the routes of a deleted provider stay (`DeleteProvider`).
  - `cache.go:127` says that `InvalidateKey` reloads one key's policy; of two that
    overlap the one with the older reading may install last (`Install`), another
    way into what `policy_enforced` shows.
  - `store/users.go:68` leaves the last-admin invariant to the caller; `patchUser`
    (`users.go:355`) counts and writes in two statements, and two admins can demote
    each other (`WriteRole` of both).
  - `totp_test.go:187` expects a used recovery code to be refused;
    `ConsumeRecoveryCode` (`store/totp.go:105`, `124`) reads the list and writes it in
    two statements, and two sign-ins at once can use one code (`WriteCodes` of both).
  - `docs/TOOL_POLICY.md:53` says the sum over `usage_by_server` is `usage`;
    `ResetUsagePeriod` (`store.go:456`) sets only the latter to 0 (`UnkillReset`).
  - `docs/LLM_ROUTING.md:59` says an exhausted key budget kills the key; the code
    refuses without killing.
- `flushOne` reads the period just before its transaction waits for the one
  connection (`meter.go:254`), `FlushStore` reads it with the commit: a flush
  that straddles the end of a month is charged to the new month in the model
  and to the old one in the code.
- `docs/STDIO.md:31` says that after three strikes the circuit opens. Strikes
  of one `startLocked` open it only when the last attempt fails too
  (`manager.go:295`); several calls in flight on one child that dies strike
  once each; and a start abandoned by its own client strikes as well
  (`manager.go:334`).
- The unlocked read of a key's per-target map (`proxy.go:93`, `llm.go:239`)
  against the meter's locked write is a data race; the model reads in one step,
  and a Go runtime that stops on it is a `Restart`.
- Routes: what the gateway answers for a route whose provider or fallback is gone
  is not modelled, nor is `RemoveProvider` of the policy cache, which the
  deletion of a provider ends with.
- Sign-ins: the poller of a replaced sign-in may delete the newer one's pending
  row (`oauth.go:240`), and a restart loses the poller (`oauth.go:98`); both are
  actions of `UpstreamOAuth`, and the user has to start again. A late refresh
  may overwrite a reconnect; no document says which of the two should stay.
- Pages: a `load` that answers late may put an older list, or older form
  contents, back on the screen (`SettingsPage.tsx:81`, `KeyDetailDrawer.tsx:46`);
  the actions do so, and no property promises otherwise.
- Not modelled: the redirect flow with PKCE and endpoint discovery, password
  resets, registering the first account, the grants of single tools,
  `InvalidateServer`, `RemoveKey` and `RemoveServer` of the policy cache,
  concurrent index runs, the choice of a route for a request and streaming, the
  overview, activity and billing pages, the server drawer and the update banner.
- Billing needs the payment provider's side of every webhook; updates and
  migrations are file-system steps and scripts run once; cryptography, SMTP,
  rendering, snippets and wording stay out. `PROJECT.json` lists every component
  that is `partly` or `not_modelled` with the reason.

## 6. Plan

1. Theorems without the history variables: what still holds of a page after two
   of its requests crossed, for instance that a reload of the servers table
   settles a muddled row.
2. `UsageLedger` for a single lane: the counters per server and provider against
   their rows, as `UsageAgrees` is for the key's.
3. `Orders`: webhooks, licences, refunds, founders, once the provider's
   retries are written down somewhere in the repository.
