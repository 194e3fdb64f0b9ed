# Subumbra in TLA+

Subumbra keeps provider API keys encrypted: applications call a local proxy
with a consumer token, a local service hands the proxy the *encrypted* record
of the key, and a Cloudflare Worker decrypts it inside a Durable Object, calls
the provider and streams the answer back.  A policy may hold a call until an
operator approves it.  SSH keys never leave the Worker: an agent forwards what
is to be signed.  `bootstrap.sh` sets all of this up, and changes it later.
This directory models the parts of that system whose correctness depends on
order, concurrency, failure and time.

1. The system
2. The modules
3. What is checked
4. What is proved
5. Findings
6. Observations
7. Not modelled

## 1. The system

| component | source | state | operations | hard behaviour |
|---|---|---|---|---|
| subumbra-proxy | `subumbra-proxy/app.py` | a coroutine per call; cached Worker health | `/t/...`, `/t/{key}/ssh/sign`, `send_worker_request_with_gate` | the poll loop for an approval, its deadline, the second POST, failures on the wire |
| subumbra-keys | `subumbra-keys/app.py` | SQLite: nonces, authentication attempts, sessions, audit; `endpoint.json` (read only) | `GET /keys/{id}`, reports of signatures, audit, stats | two gunicorn workers with four threads each over one database; replay, quotas and expiry |
| Worker, request path | `worker/src/worker.js` `handleProxy`, `handleSshSign` | none of its own; cached KV reads | authenticate, read the policy, gate, dispatch, scan | entries of KV that were cached at different times |
| `SubumbraJanus` object | `worker/src/worker.js` 1037-1602 | `pending_requests`, `push_subscriptions`, one alarm | submit, decide, consume, subscribe, status, alarm | handlers interleave where they await; one alarm for all rows; eviction |
| `SubumbraVault` object | `worker/src/worker.js` 1608-2673 | custody key, SSH keys, SSH quotas, velocity counters, breakers, audit | execute, ssh-sign, setup, keygen, rotate, reset, rate check | outcomes of concurrent provider calls; the breaker; counters lost on restart |
| Worker, management | `worker/src/worker.js` 2806-3146 | KV `key:` entries | pause, resume, setup, rotate, reset | read-modify-write of a KV entry beside a publication |
| bootstrap: sessions | `bootstrap/subumbra_session.py` | `sessions.db`, KV gates and scopes | start, end, status, list | a table and KV written one after the other; a failure or a kill between any two writes; the undo |
| bootstrap: keys | `bootstrap/subumbra_keys.py`, `subumbra_core.py`, `subumbra_consumers.py`, `subumbra_ssh.py`, `subumbra_npm.py`, part of `subumbra_cf.py` | `endpoint.json`, public keys, `kv-config.json`, `.env`, KV, Worker secrets | bootstrap, nuke, add, rotate, revoke, provision, publish, policies, consumers | several stores written one after the other; keypairs replaced before what they seal is |
| bootstrap: Cloudflare | `bootstrap/subumbra_cf.py` | `cf-resources.json`, secrets in `.env`, objects at Cloudflare | provisioning of Tunnel and Access, `--update-*`, `--nuke-cloudflare` | a saga with compensation; secrets that are shown once; lost answers |
| subumbra-agent | `subumbra-agent/agent.py` | a connection | SSH agent protocol | none of its own |
| UI, probe, scripts, website | `ui`, `subumbra-probe`, `scripts`, `Website` | sessions of the dashboard | display | none that bears on the others |

The interactions are synchronous calls (application -> proxy -> keys, proxy ->
Worker -> object -> provider; ssh -> agent -> proxy -> Worker -> vault), polling
(proxy -> Worker status), a report (proxy -> keys, how many signatures a session
has made), a table that bootstrap writes and the key service reads and updates
(`sessions.db`), and KV entries that bootstrap writes and every Worker isolate
caches.

What makes each correct:

- *Janus*: an approval lets one call through, the one that was approved; what
  an operator was told stands; nothing stays pending for ever.
- *Gated call*: nothing reaches the provider under a gating policy without an
  approval of its own; nothing is executed twice; a caller who is told that the
  gate refused is told the truth; every call is answered.
- *Vault*: the provider sees no more calls than the limits; the breaker opens
  on failures in a row, closes on recovery, and one probe decides.
- *Key service*: a nonce is used once, as far as its slack reaches; a session's
  quota is not exceeded; a request that comes after a session has ended or
  expired gets nothing; no window lets more attempts of an address pass than its
  limit, as far as the slack of the pruning reaches.
- *Sessions*: a consumer's gate stands open only on account of a session; an
  active session with a limit on signatures is metered; active sessions do not
  overlap, unless they were started at the same time; what a row says of signatures was made.
- *Keys*: KV follows `endpoint.json`, a revoked key stays out, a paused one
  stays paused; whatever a command destroys, the secrets on record can be
  opened; the setup token does not outlive the command that needs it.
- *Cloudflare*: every object that exists is on record, but for those that a step
  lost, and a run that reports success has what it was asked for.

## 2. The modules

| module | models | composed of |
|---|---|---|
| `ApprovalLedger` | what the gate promises, abstractly | |
| `JanusDO` | the `SubumbraJanus` object; implements `ApprovalLedger` | |
| `GatedRequest` | proxy coroutine, Worker invocations and policy publication | over `ApprovalLedger` |
| `VaultExecute` | velocity limits and circuit breaker of the vault | |
| `KeyService` | `get_key` of subumbra-keys: nonces and sessions | |
| `AuthLimiter` | the limiter of authentication attempts of subumbra-keys | |
| `SessionLifecycle` | `--session start` and `end` over `sessions.db` and KV | |
| `SshSign` | a signature, from the agent to the vault and its report to the key service | extends `SessionLifecycle` |
| `KeyLifecycle` | the commands that change one key, the publication, the pause toggle | |
| `FullBootstrap` | the full bootstrap and the reset | extends `KeyLifecycle` |
| `EdgeResources` | Tunnel, DNS record and Access objects | |

Each `*_proofs` module holds the theorems about the module it is named for, and
each `MC*` module the instances of one.

### JanusDO

One variable per column of `pending_requests` (`status`, `digest`, `expires`;
`Request` stands for the UUIDs), the storage alarm, the push subscriptions,
and `call`, the handler invocation each caller waits for.  A handler is cut
into steps where it awaits:

| code | actions |
|---|---|
| `_handleSubmit` | `SubmitStart` (await HMAC), `SubmitInsert`, `Push` per subscription, `SubmitAnswer` |
| `_validateToken`, `_handleDecisionPage`, `_handleDecisionAction` | `DecideStart`, `DecideLoad`, `DecideConflict`, `DecideExpired`, `DecideRecord` |
| `_handleConsume` | `ConsumeStart`, `ConsumeMismatch`, `ConsumeGrant` |
| `alarm`, `_scheduleNextAlarm` | `AlarmFires`, `ScheduleNextAlarm` |
| `_handleSubscribe`, constructor | `Subscribe`, `Restart` |

The push notifications are network I/O: any handler may run between two of
them.  The Web Crypto calls are awaits as well.  The runtime that Cloudflare
ships computes these digests synchronously and no other event is delivered
there, but the language does not promise it: `CryptoYields` covers both.  With
`CryptoYields = FALSE` all promises hold.  With `TRUE`, `SingleGrant`,
`DecisionPageTruthful` and the ledger do not (two consume calls may both read
`approved` before either writes `consumed`, since the row count of the UPDATE
is not looked at); it is not listed as a finding, since it depends on the
platform, but the code would be safe in both cases if it did look.

History variables: `linked` (the operator holds the links of a request),
`granted` (204s per request), `told` (what an operator was told), `approvedAt`.

### GatedRequest

`task[t]` is the proxy's coroutine, `job[t][1]` and `job[t][2]` the Worker
invocations that its two POSTs start, `local`, `entry` and `old` the version of
the policy that records are sealed under, that KV holds and that a cache may
still return; `phase`, `bound`, `spends` are the ledger's.  Either side may
lose the other: `GiveUp` leaves an invocation running, `Submit` and `Consume`
may take effect and answer an error.  Bodies and versions stand for what the
request digest covers: the body of the call and the policy hash.  All denials
that precede the gate (authentication, lockdown, allow block) are `Deny`.

### VaultExecute

`Admit` is the synchronous part of `_handleExecute`: limits, breaker, counts.
`Refuse` stands for the answers that leave before the provider is called
(503, 500, 400), `Dispatch` for the fetch, `RecordFailure` and `RecordAnswer`
for the outcome.  `Restart` drops `velocity_counters`, as `VAULT_MIGRATIONS`
does; the code calls that loss acceptable, so `WithinRate` allows it.  A policy
that leaves fields of the velocity block out is not modelled: the limits that
are absent are not checked.

### KeyService

`call[th]` is what a thread of a gunicorn worker serves, cut where it touches
the database or the clock again: a thread may stop before each action, for any
time.

| code | actions |
|---|---|
| signature and timestamp, `_nonce_ok` | `Verify`, `NonceReused` / `NonceRecorded`, pruning included |
| `_get_lockdown_enabled` | `ServeUnlocked`, where an operator has cleared the column by hand (no code does) |
| `_expire_sessions_if_needed`, a transaction of its own | `Refresh`, before the sessions are listed, and `Recount`, before a query is counted |
| `_list_active_session_rows`, scopes | `Match` / `Unmatched` |
| `endpoint.json` | `KeyDenied` |
| `_try_consume_session_query`, its UPDATE | `ConsumeQuery` / `LimitDenied`, or `GrantUnlimited` |
| the answer | `Answer` |

`Die` is a worker that is killed or a statement that fails.  A request is
delivered any number of times.  The session commands of bootstrap appear as the
statements that this service can see: a row becomes active (`OpenSession`) and
is closed or taken back (`CloseSession`).  `Covers` stands for the scopes and the
consumer's keys, and `Pruned` may follow any insertion, where the code prunes on
every 50th of a process.

Two promises are weaker than one might expect, and stated as they are.  The
UPDATE that counts tests status and count and not the time, so a query can be
counted on a row that is overdue by then; what `CountedWhileActive` says is that
the row says active, and that the session was in time when the thread last
expired the table.  And a nonce outlives the tolerance by 5 seconds, while a
thread may wait for the database for 10 (`busy_timeout`) after it has looked at
the time: a delivery that is held up may find its nonce pruned and pass a second
time.  `RepeatsWaited` says that this is the only way.  History: `accepted` (the
requests of which a delivery has passed), `served`, and the sessions that had
ended when a request arrived (`barred`).

### AuthLimiter

What precedes all of that: `_resolve_consumer` records the attempt, counts those
of the address in the last minute, and refuses beyond the limit.  `Arrive` reads
the clock, `Record` is the INSERT, the pruning that may follow it, the count and
the COMMIT, which SQLite lets one worker do at a time (`MayWrite`).  The time of
a row is therefore older than its place in the table, and rows come in another
order than their times.  `Torn` is a statement that fails after the INSERT: the
attempt is answered 503, but nobody rolls back, and the transaction stays open
(`open[w]`) until that worker commits something else on the same connection
(`CommitElsewhere`) or is killed (`Die`).

A pruning is that of another attempt, which may have a later time, and the row it
drops may be one that an attempt still waiting would have to count.  Nothing
bounds the wait to the 5 seconds of slack: an attempt that waits longer may pass
beyond the limit, and `WithinLimit` claims nothing of it.  It claims the limit of
every other attempt, however long those around it have waited.

### SessionLifecycle and SshSign

`row` is the table, `gate[c]` the entry `active_consumer:{c}` with the time at
which it expires, `scope[p]` the session that `ssh_session_scope:{c}:{k}` names,
`op[o]` the command that operator `o` runs, with the loop it is in (`ph`,
`todo`).

| code | actions |
|---|---|
| `run_session_start` | `StartCheck` (scopes, expiry of the table, overlaps), `StartInsert`, `StartClear` and `StartScope` per pair, `StartActivate`, `StartGate` per consumer |
| its `except SystemExit` | `StartFails`, `UndoScope`, `UndoRow`, `UndoGate` |
| `run_session_end` | `EndStart`, `EndGate`, `EndScope`, `EndClose`, and on to the next session with `--all` |
| `die()` in any call to KV, a kill | `Quit` |
| `_expire_sessions_if_needed` of the key service | `Sweep` |
| the commands on keys, as far as scopes depend on them | `ChangeKeys` |

`Reconcile` (`_reconcile_active_consumer_gate`) uses the rows that the command
read (`seen`), not those of the moment.  KV drops an entry some time after it
has expired (`Latency`, `ScopeExpires`).

`SshSign` adds the requests: `Ask` (the agent) or `AskProxy` (a caller that
holds the consumer's token), `ReadGate` and `ReadScope` in the Worker, where the
scope entry may be any that a start ever wrote, or none, since KV is eventually
consistent; `VaultSign` (`_handleSshSign`: refuse at the limit, else sign and
count); `Reflect`, the report of the count to the key service; and `Lose`
anywhere.  The quota is one of a session, a consumer and a key.

History: `raced` (pairs of sessions of which one was checked while the other was
being started), `metered` (the pairs whose entries a start wrote), `dismantled` (a
command began to end or undo the session), `ended`, `strayed` (an undo that has
not come to its last gate).

### KeyLifecycle and FullBootstrap

A secret is abstract: a record says which policy it is sealed under (`pv`, and
`hash`, the part of it that the secret is bound to) and for which keypair
(`key`); a keypair is a number, taken again only when nobody knows it any more.
A policy has an id, which depends on its content and which keys may share: KV
has one `policy:` entry for all of them, with the content of the first of them by
name.  `rec`, `pkFile`, `cfgFile` and `envToken` are the files of the host, `entry` and
`policy` are KV, `vault`, `sshKey` and `token` are the Worker.  `cmd` is the
command that runs:

| code | actions |
|---|---|
| `run_revoke_key`, `run_rotate_wizard`, `run_add_ssh_key`, `run_rotate_ssh_key`, `--provision`, `--publish-policy`, `--add-consumer`, ... | `RevokeKey`, `RevokeAgain`, `Rotate`, `AddSshKey`, `RotateSshKey`, `Provision`, `UpdatePolicy`, `Reencrypt`, `PushRegistry`: the checks, and the record that will be written |
| `_run_with_temporary_setup_token` | `LendToken`, `VaultCall`, `Reclaim` |
| `_write_keys_payload` | `Write`, `WriteAll` |
| `_delete_revoked_key_kv_entries` | `UnlistKey`, `UnlistPolicy` |
| `_publish_structured_kv` | `Publish`, `ReadEntry` per key, the bulk put (`PutEntries`, or `PutFails` half way), `PutAgain` per key that was not found, `Await` |
| the end of bootstrap and of `--provision` | `Clean`, `CleanEnv` |
| `handleManagePauseToggle` | `ToggleRead`, `TogglePut`, `ToggleRevert`, `ToggleDone` |
| the full bootstrap | `Bootstrap`, `Deploy`, `Secrets`, `ReuseKeypair`, `Keygen`, `KeygenFails`, `StorePublicKey`, `Material`, `ProvideSshKey`, `WriteAll` |
| `destructive_nuke` | `ResetVault`, `WipeNamespace`, `ForgetNamespace`, `DeleteFiles` |

`Abort` is a refused call or a kill anywhere.  The history variables say which
claims are off for the moment: `behind` (the record changed since the last
publication), `crossed` (a toggle and a command wrote the entry at the same
time), `torn` (the keypair went before what it seals was written anew), `cut`
(a reset vault whose old public key is still on file), `excused` (a command
could not take the setup token back).

### EdgeResources

`live` is the set of objects at Cloudflare, each with its id and the object it
hangs on; `file` is `cf-resources.json`, `env` the two secrets that Cloudflare
shows once, `cmd` the command with the objects it still has to make, undo or
delete: a set, of which it takes the next one in the order in which the code
makes objects (`Rank`), or the last one when it deletes.  `Reuse`, `Create`,
`Refused`, `AnswerLost`, `CheckFails` and `SecretIsGone` are what may come of a
step of `_provision_cloudflare_resources` and `run_update_gate`; `Delete`,
`DeleteFails`, `Undone`, `WipeEnv` and `WipeFile` of the undo and of
`run_nuke_cloudflare`.  The record is written after the policy and when the gate
has its secrets (`Save`), at the end (`Finish`), and by a teardown that is about to
delete the policy; each time it is truncated first, and `WriteTorn` is a kill that
leaves it so (`torn`): no command can read it any more, and all refuse to run.
`UpdateEnv` is `--update-tunnel` and `--update-access`, `Dashboard` an operator
who deletes something by hand, `Kill` the end of a command anywhere.

`orphans` (history) names the objects, one by one, that a step lost: the answer to
the creation was lost; the run stopped before it wrote the record; the record was
torn; or they are applications and policies of the bypass, which a teardown leaves
while it erases their record.  `Accounted` excuses these objects and no others.

## 3. What is checked

| run | bounds | shows |
|---|---|---|
| `janus_do` | 2 requests, 2 handlers at once, 2 contents, clock 0..4 with 2 units per second, timeouts 2 and 3, 1 endpoint | all safety properties of the object, and that it implements the ledger |
| `janus_yields` | 1 request, 2 handlers, `CryptoYields` | whatever runs while Web Crypto is awaited: an outcome stands, and every pending request comes to one, across restarts |
| `gated_request` | 2 calls with equal bodies, 2 requests, 2 policy versions, the first gating | safety and liveness of a gated call |
| `upstream_accepted` | 1 call, the provider may answer 202 | finding 1 |
| `vault_rates` | 2 keys, 1 consumer, 3 calls, 2 windows, 1 restart | the limits, and what opens and probes the breaker |
| `vault_probe_lost` | 1 key, 1 call | finding 3 |
| `key_service` | 2 requests, 2 threads, a session limited to 1 query and one without a limit, overlapping scopes, tolerance 1, slack 1, clock 0..3 | nonces, limits and the end of sessions |
| `auth_limiter` | 4 attempts, 2 addresses with limits 2 and 3, 2 workers, a window of 2, slack 0, clock 0..4 | the limit of an address in every window |
| `ssh_sessions` | 1 operator, 2 sessions that share a consumer, 2 consumers, 2 keys, 2 requests, clock 0..2 | gates, metering, overlaps and the reported count |
| `two_starts` | 2 operators, 2 sessions that share a consumer and a key, no failure needed | finding 2 |
| `key_lifecycle` | an API key and an SSH key of one vault, 3 contents of policies (two of them of one hash) under 2 ids, one of which the keys may share, 4 commands, 1 request to pause or resume, 3 keypairs | record, KV, custody and setup token |
| `edge_resources` | every object may be made twice, 2 faults | the record of what exists, and what a successful run made |

Why the bounds are enough.  Two handlers on one row are all a race between two
reads and two writes needs, a second request is what makes one alarm serve two
rows, and two units per second make the token's rounding visible.  Two calls
with equal bodies are the worst case for an approval (each fits the other's
digest), and two versions suffice for a change between submission and
consumption, in both directions of staleness.  Three calls fill a limit of two
and let two outcomes come in around a probe.  In `key_service` two threads stand
for the two workers, the second request is what prunes the nonce of the first,
and three units of time are a tolerance, a slack and one more, so that a nonce can
be pruned while a delivery still waits and a session can be overdue when a query
is counted on it.  Four attempts are one more
than the larger limit, with one to prune and one whose row is pruned; the other
address is what must not be counted.  Two sessions that share a consumer are what
`Reconcile` has to tell apart, and the second key is what they must not share.
Four commands are a bootstrap, a change, its interruption and the repair; one
request crosses a publication or a revocation, and puts back what it had read.  Two
of each object are one on record and one beside it, two faults are one of the
command and one of its undo.  Where a bound is a number of actors, a limit or a
duration, a theorem (section 4) covers all others.

Deadlock is checked in `janus_do`, `janus_yields`, `auth_limiter`,
`key_lifecycle` and `edge_resources`.  In the others all calls are answered, or
the clock is at its bound, and the model has nothing left to do.

Fairness.  `JanusDO`: the alarm is delivered (Cloudflare retries a failed one),
time passes, a handler that was started runs on; strong, since the event loop
takes its events in order.  `GatedRequest`: only the proxy's coroutine, whose
sockets and poll loop have timeouts (`Progress`); nothing is assumed of the
Worker, the network, or the operator.  `VaultExecute`: an invocation runs on,
and the provider answers or the connection fails.  The commands of bootstrap
get no fairness: they stop at a failed call, and what is promised of them is
what a stop leaves behind.

## 4. What is proved

Eight modules of proofs.  Every theorem holds for all values of the constants
under the module's own assumption, save for what is said below.  Every invariant
that a run checks is proved.

`JanusDO_proofs`:

- whether or not Web Crypto yields: `JanusTypeOK`, `OutcomesStand`
  (`FirstOutcomeStands`), `AlarmIsSet` (`AlarmCoversPending`), `GrantsStand`
  (`GrantStandsOnApproval`);
- when it does not (`CryptoYields = FALSE`): `OneGrantPerApproval`
  (`SingleGrant`), `ToldIsRecorded` (`DecisionPageTruthful`),
  `JanusImplementsLedger` (`ImplementsLedger`).

The first group needs `RowInv`: beside the types, a request id that is being
minted belongs to one handler and no row (`MintIsFresh`), and a handler that
compares digests does so on a row that was approved (`ComparedIsDecided`).  The
second group needs `LedgerInv`: at most one handler is suspended inside Web
Crypto (`TurnInv`), so the row it read is the row it writes; and a row was
granted exactly when it is consumed (`GrantCount`).

`GatedRequest_proofs`: `TypeCorrect`, `EveryDispatchIsPaid` (`PaidDispatch`),
`OneDispatchPerCall` (`AtMostOnce`), and `RefusalIsTrue`
(`RefusedIsNotExecuted`), the last under `NoAccepted`, that no provider answers
202: finding 1 is what happens otherwise.  None of the properties is inductive.
The invariant follows a call through its two POSTs: which request its
invocations ask about (`Chain`), what the coroutine may conclude from what its
jobs have come to (`Ran`), that a spent approval belongs to one invocation
which then dispatches once (`Paid`), and that no two calls share a request
(`Owned`).

`CallsKeepToTheLedger` is about the composition: whatever a call loses, retries
or leaves running, its steps are steps of `ApprovalLedger` or leave the ledger
alone.  Since the object implements that ledger (`JanusImplementsLedger`), what
the callers ask for and what the object gives are one protocol.

`VaultExecute_proofs`: `VaultTypeOK`, `OpensOnFailuresInARow` (`TripsOnStreak`),
`OpenNeedsProbe` (`OpenUntilProbed`), `OneProbeGoesThrough`
(`OneProbePerOpening`), `RateKept` (`WithinRate`); `Caller` is finite.
`StreakInv`: a closed breaker has counted failures of the current row only.
`ProbeInv`: while the breaker is open no probe is under way that was admitted
since, and a half-open one is marked.  `RateInv`: what a window has sent plus
what it has admitted and not sent (`KeyWaits`, `ConsumerWaits`) is within the
allowances, in the current window within what is counted, and nothing is
counted for a window that is still to come (`Ahead`).

`KeyService_proofs`: `KeyTypeOK`, `NonceRepeatsWaited` (`RepeatsWaited`),
`EndedSessionsServeNothing` (`EndedServesNothing`), `SessionsEndForGood`
(`CountedWhileActive`) and `SessionQuotaKept` (`QuotaKept`).  Nothing is assumed
of slack, skew and waits.  `NonceInv` is needed because an accepted nonce may leave
the table: then its request is out of time by more than the slack leaves beside
the skew, and a thread that still holds it looked at the time before that.
`BarredInv` rests on `EndedStays`: a session that has ended, marked or not, never
counts as active again.  `CountInv` says of a thread that is about to count that
the session was in time when it last looked.  `QuotaInv` adds to the limit that no
answer is under way for a session that was never opened, and `UnderwayStep` says
how the set of answers under way moves with the two counters.

`AuthLimiter_proofs`: `LimiterTypeOK` and `LimitKept` (`WithinLimit`).  The
invariant is that an attempt that passed has its row in the table, committed
or in the transaction of the worker that let it pass, or is too old for any
window of an attempt that has not waited beyond the slack (`Kept`); it rests on
the times of those waiting (`Timed`) and on one writer at a time (`OneWriter`).

`SshSign_proofs`, for any number of operators at the same time: `TypesAreKept`
(`TypeOK`), `ReportsAreTrue` (`ReflectionTruthful`), `OnlyRacingStartsOverlap`
(`OverlapsRaced`) and `SessionsRunTheirCourse`, an action property: a row becomes active once, for no
longer than its `--ttl`, keeps its time, and does not come back when it has
expired, was ended or undone.  That is what `KeyService` takes for granted of
the commands (`OpenSession`, `CloseSession`).  It rests on `Places`: a session
that is being started has not been active, and nobody else is about it.

With `OneOperator`, one command at a time:

- `ActiveSessionsAreMetered` (`MeteredWhileActive`).  `Course` says how far a
  command has come with its pairs, and `Metered` that the entries it has behind it
  name its session.
- `OpenGatesAreBacked` (`GateBacked`).  The invariant is about a command in the
  middle of its gates: those that it has behind it are held by other sessions
  than the one that goes (`HeldWithout` in `Reconciling`), so that this one may
  stop to count at the last of them; the rows that it has read as active
  (`seen`) have not been ended since, and a session that was ended or undone is
  not active (`Lapsed`).

For `OnlyRacingStartsOverlap` a session that is being started is not active yet, so
`RaceInv` says of it what the property says of the active ones, from the check on;
the pairs that it excuses are those of which one was checked while the other was
between its own check and its activation, and finding 2 is one of them.

`OneOperator` is needed in the two others: see section 6.  The gate of a consumer is put for the
longest remaining time of its sessions, the maximum of a set.  That a finite set
of integers has one (`Greatest`) is induction over the set; it is proved from
the well-foundedness of its strict subsets (`WFMin`), with a smallest subset
that has none.

`FullBootstrap_proofs`: `KeysTypeOK`, `TokenIsTakenBack` (`SetupTokenGone`),
`SecretsCanBeOpened` (`CustodyKept`), `PublicationAgrees` (`PublishedAgrees`),
`RevokedNotListed` (`RevokedStaysOut`), `NothingListedUnrecorded`
(`ListedIsRecorded`) and `PausePublished` (`PauseKept`).  Three invariants carry
them.  `TokenHeld`: while the setup token is with the Worker a command is at
the stage that takes it back.  `Custody`: the keypair for which a command will
seal is the one that the vault will have (`Planned`, `Equipped`), and what the
host's public key file says is the vault's key or known to be cut off from it
(`OnFile`, `Lent`).  `Listing`: what the publication has read of an entry is
still so when it writes (`ReadStill`), a revoked key is gone from KV once its
command is past the deletion (`GoneRevoked`), and the pause mark is the one that
was asked for (`PauseMarked`).

`EdgeResources_proofs`: `UndoTakesOnlyItsOwn` (`TypeOK`), `WhatExistsIsOnRecord`
(`Accounted`, with its orphans) and `SuccessIsComplete` (`ProvisionedIsComplete`), for any number
of objects and faults.  `Numbered`: the objects of a kind are numbered as they
are made, so an id on record is that of one object at most.  `Agree`: the record
in memory differs from the one on disk only in what the command has made.
`Traced`: an object that exists is in that record, or among those that the undo
or the teardown has still before it; it needs `Held`, that a policy exists only
under an application that exists, since the deletion of one takes the other
along.  `Advancing`: of what was asked for, what the command has behind it
exists, in the order of `Rank`, and the secrets in `.env` are those of the
objects it made.

Only model-checked: liveness (`PendingResolved`, `EveryCallAnswered`), which is
out of the prover's reach, as ENABLED is.

## 5. Findings

1. `upstream_accepted`: `subumbra-proxy/app.py:531` tells the gate's 202 by the
   status alone, and takes a provider's 202 for it.
2. `two_starts`: of two `--session start` at the same time both pass the check
   (`subumbra_session.py:658`), which looks at active sessions only, and both
   become active.  `docs/releases/1-2-0-alpha.md:182` says that overlapping scopes
   are rejected, `docs/operator-guide.md:57` and `docs/subumbra-install.md:512` that
   open sessions do not overlap.
3. `vault_probe_lost`: `half_open_probe_active` is never cleared when a probe
   is refused or lost (`worker.js:2244`), and the key stays blocked.

## 6. Observations

Met while modelling.  They are outside what the runs promise, either because the
docs do not promise it, or because the property names the exception.

Vault and sessions:

- The outcome of a call that was admitted before the breaker opened is recorded
  against the probe's breaker, with the call's own old start time as `opened_at`
  (`worker.js:2370`, `:2393`, `:2397`).  The breaker then opens anew, and may
  admit another probe beside the first.  `docs/adapter-contract.md:569` says
  "one probe admitted"; `OneProbePerOpening` is how far that holds.
- Two `--session start` at the same time (finding 2) do more than overlap: one
  clears the scope entries of the other.  With two operators TLC violates
  `GateBacked` by a behaviour of 11 states, and `MeteredWhileActive` by one of 9.
- A delivery whose thread waits for the database beyond the slack of 5 seconds may
  find its nonce pruned and be accepted a second time (TLC: a behaviour of 13
  states); an authentication attempt that does so may pass beyond the limit of its
  address (12 states).  `busy_timeout` allows either to wait for 10.
- A query may be counted on a session that has become overdue since the table was
  last expired (`subumbra-keys/app.py:644`; 11 states).
- `key:` and `policy:` entries of different publications may be combined
  (`worker.js:121`, `:137`): nothing compares the policy that is enforced with the
  hash that the record is sealed under.  `docs/operator-guide.md:284` says that the
  Worker would detect a policy that no longer matches the seal; the seal
  covers the hash in the `key:` entry, and not the rules that are read beside it.
- Worker (`worker.js:3207`) and agent read `adapters` of an SSH record, while
  bootstrap writes `consumers` (`subumbra_ssh.py:243`).  `Permitted` stands for
  the list that is read.
- The signing quota is one per session, consumer and key;
  `docs/ssh-ci-cd.md:210` says "per session".

Keys:

- `--rotate` of a revoked key makes it live again, and does not publish.  It takes
  any record that is not an SSH key's, npm tokens without their own checks.
- Keys that share a policy id have one `policy:` entry, that of the first by name;
  when this key is revoked its policy stands for the others until the next
  publication.
- The pause toggle and a publication both read and rewrite an entry; a toggle in
  between is lost (`crossed`), and one that read before a revocation may put the
  entry back.
- A reset that is interrupted leaves the host's public key file beside an empty
  vault (`cut`).  `--nuke` is ignored when `kv-config.json` is missing.
- A setup token that cannot be deleted is reported and left (`excused`), while
  the command ends well (`subumbra_cf.py:1454`).
- `--rotate-ssh` destroys the old key before the record of the new one is
  written (`torn`).
- A vault that made its keypair and was not heard answers 409 from then on,
  until it is reset.
- `--provision` of an SSH key ends in a KeyError.
- Two commands at a time lose one change to `endpoint.json`
  (`subumbra_core.py:308`).

Cloudflare:

- Without any fault: Access is provisioned under the operator's own
  `TUNNEL_TOKEN`; when both secrets are cleared afterwards, the next bootstrap
  makes Tunnel and DNS record and then raises (`subumbra_cf.py:683`), and they
  are on no record.
- After a lost answer or a kill the advice is `--nuke-cloudflare`
  (`subumbra_cf.py:575`), which refuses to run without the record
  (`subumbra_cf.py:754`).
- `--nuke-cloudflare` does not delete the applications and policies that let the
  approval pages bypass Access, and erases their record (`subumbra_cf.py:765-806`).
  `docs/operator-guide.md:376`, `docs/subumbra-install.md:584` and
  `docs/cloudflare-setup.md:845` say that the tracked Access resources are torn
  down.  A bypass that was made when the application after it
  failed is not on record.
- A DNS record on file is taken over without a look at the tunnel it leads to
  (`subumbra_cf.py:602`).
- A teardown that fails half way leaves the Access secrets of a deleted service
  token in `.env`.

Abstractions that the observations rest on: one command at a time; writes of
`.env` and of the record files do not fail; the retries of a tunnel's deletion
are one step; the deletion of an application takes its policies with it; names
of tunnels and DNS records are unique; the
redeployment of the Worker is no command of its own.

## 7. Not modelled

- The cryptography: a digest is what it covers, a sealed record opens under its
  hash and for its keypair.
- HTTP headers, streaming, response scanning, web push encryption.
- Audit rows, statistics and the proxy's cached health: nothing reads them back
  into a decision.
- The consumer tokens, the registry, manifests, prompts and templates of
  bootstrap: parsing and text.
- The credentials of the UI and the host wrapper, the dashboard, the probe, the
  scripts and the website.
- The framing of the SSH agent protocol and the listing of identities.
- More than one command on keys at a time.
