------------------------------- MODULE JanusDO -------------------------------
(***************************************************************************)
(* The SubumbraJanus Durable Object of worker/src/worker.js: the table of  *)
(* approval requests, the alarm that expires them, and the handlers that   *)
(* submit, decide and consume them.                                        *)
(*                                                                         *)
(* One variable stands for one column of pending_requests.  A handler is a *)
(* sequence of steps, cut where it awaits: the push notifications are real *)
(* I/O, between two of which any other handler may run; the Web Crypto     *)
(* calls are awaits too, and CryptoYields says whether the platform may    *)
(* deliver another event there.                                            *)
(***************************************************************************)
EXTENDS Integers, FiniteSets

CONSTANTS
  Request,        \* request ids, one per crypto.randomUUID()
  Owner,          \* (flow, key_id, consumer_id) triples
  Content,        \* the rest of what a request digest covers
  Timeout,        \* values of timeout_seconds, in clock units
  Caller,         \* concurrent invocations of the object's handlers
  Endpoint,       \* push subscription endpoints
  Second,         \* clock units per second
  MaxTime,        \* bound on the clock
  CryptoYields,   \* may another event run while a handler awaits Web Crypto?
  NoRequest, NoFingerprint, NoAlarm

ASSUME JanusAssumption ==
  /\ Timeout \subseteq Nat \ {0}
  /\ Second \in Nat \ {0}
  /\ MaxTime \in Nat
  /\ CryptoYields \in BOOLEAN
  /\ NoRequest \notin Request
  /\ NoAlarm \notin Nat

\* What request_digest hashes: equal digests are equal fingerprints.
Fingerprint == [owner : Owner, content : Content]

Status == {"pending", "approved", "denied", "expired", "consumed"}
Choice == {"approved", "denied"}

VARIABLES
  now,        \* Date.now()
  status,     \* status column; "none" while the row does not exist
  digest,     \* request_digest column
  expires,    \* expires_at column
  alarm,      \* the storage alarm, or NoAlarm
  subs,       \* push_subscriptions
  call,       \* per caller, the handler invocation it waits for
  \* history
  linked,     \* requests whose capability link reached the operator
  granted,    \* how many consume calls were answered 204, per request
  told,       \* decisions the operator was told are recorded, per request
  approvedAt  \* when the row became approved

rowVars     == <<status, digest, expires, alarm>>
historyVars == <<linked, granted, told, approvedAt>>
vars        == <<now, rowVars, subs, call, historyVars>>

-----------------------------------------------------------------------------
(* Handler invocations.                                                    *)

\* Suspended inside Web Crypto.
AtCrypto == {"mint", "mac", "hash", "compare"}
\* Suspended at network I/O, or answered.
Answered == {"accepted", "granted", "refused"}
Op       == {"idle", "notify"} \cup AtCrypto \cup Answered

Call == [ op   : Op,
          req  : Request \cup {NoRequest},
          fp   : Fingerprint \cup {NoFingerprint},
          due  : 0..MaxTime,
          pick : Choice \cup {"view"},
          seen : Status \cup {"none"},
          todo : SUBSET Endpoint ]

Idle == [ op |-> "idle", req |-> NoRequest, fp |-> NoFingerprint, due |-> 0,
          pick |-> "view", seen |-> "none", todo |-> {} ]

\* The single-threaded event loop gives c a turn.
HasTurn(c) == \/ CryptoYields
              \/ \A d \in Caller \ {c} : call[d].op \notin AtCrypto

Quiescent == CryptoYields \/ \A d \in Caller : call[d].op \notin AtCrypto

-----------------------------------------------------------------------------
(* The alarm.                                                              *)

Pending(st) == {r \in Request : st[r] = "pending"}

\* m is SELECT MIN(expires_at) ... WHERE status = 'pending'.
IsNextExpiry(m, st, ex) ==
  /\ \E r \in Pending(st) : m = ex[r]
  /\ \A r \in Pending(st) : m <= ex[r]

\* Mutant: an alarm that is set already is kept.
ScheduleIfUnset(st, ex) ==
  alarm' = IF alarm # NoAlarm \/ Pending(st) = {} THEN alarm
           ELSE CHOOSE m \in 0..MaxTime : IsNextExpiry(m, st, ex)

\* _scheduleNextAlarm: setAlarm to the earliest expiry, or deleteAlarm.
ScheduleNextAlarm(st, ex) ==
  \/ /\ Pending(st) = {}
     /\ alarm' = NoAlarm
  \/ \E m \in 0..MaxTime :
       /\ IsNextExpiry(m, st, ex)
       /\ alarm' = m

\* alarm(): every pending row whose time has come expires.
Expired(st) ==
  [r \in Request |-> IF st[r] = "pending" /\ expires[r] <= now THEN "expired" ELSE st[r]]

AlarmFires ==
  /\ Quiescent
  /\ alarm # NoAlarm /\ now >= alarm
  /\ status' = Expired(status)
  /\ ScheduleNextAlarm(status', expires)
  /\ UNCHANGED <<now, digest, expires, subs, call, historyVars>>

-----------------------------------------------------------------------------
(* _handleSubmit.                                                          *)

\* The request id, the expiry and then, awaiting HMAC, the capability token.
SubmitStart(c, r, f, t) ==
  /\ HasTurn(c)
  /\ call[c].op = "idle"
  /\ status[r] = "none"
  /\ \A d \in Caller : ~(call[d].op = "mint" /\ call[d].req = r)
  /\ now + t <= MaxTime
  /\ call' = [call EXCEPT ![c] = [Idle EXCEPT !.op = "mint", !.req = r, !.fp = f,
                                              !.due = now + t]]
  /\ UNCHANGED <<now, rowVars, subs, historyVars>>

\* The INSERT, the alarm and the list of subscriptions to notify.
SubmitInsert(c) ==
  LET r == call[c].req IN
  /\ HasTurn(c)
  /\ call[c].op = "mint"
  /\ status'  = [status EXCEPT ![r] = "pending"]
  /\ digest'  = [digest EXCEPT ![r] = call[c].fp]
  /\ expires' = [expires EXCEPT ![r] = call[c].due]
  /\ ScheduleNextAlarm(status', expires')
  /\ call' = [call EXCEPT ![c].op = "notify", ![c].todo = subs]
  /\ UNCHANGED <<now, subs, historyVars>>

\* One iteration of _deliverPushNotifications: the endpoint takes the links,
\* is gone (404 or 410) and is forgotten, or fails and is kept.
Push(c, e) ==
  /\ HasTurn(c)
  /\ call[c].op = "notify" /\ e \in call[c].todo
  /\ call' = [call EXCEPT ![c].todo = @ \ {e}]
  /\ \/ /\ linked' = linked \cup {call[c].req}
        /\ UNCHANGED subs
     \/ /\ subs' = subs \ {e}
        /\ UNCHANGED linked
     \/ UNCHANGED <<linked, subs>>
  /\ UNCHANGED <<now, rowVars, granted, told, approvedAt>>

\* The 202 leaves only after every subscription was tried.
SubmitAnswer(c) ==
  /\ HasTurn(c)
  /\ call[c].op = "notify" /\ call[c].todo = {}
  /\ call' = [call EXCEPT ![c].op = "accepted"]
  /\ UNCHANGED <<now, rowVars, subs, historyVars>>

-----------------------------------------------------------------------------
(* _validateToken, _handleDecisionPage and _handleDecisionAction.          *)

\* The token carries its expiry in whole seconds, rounded down.
TokenExpiry(r) == (expires[r] \div Second) * Second

DecideStart(c, r, a) ==
  /\ HasTurn(c)
  /\ call[c].op = "idle"
  /\ r \in linked
  /\ now < TokenExpiry(r)
  /\ call' = [call EXCEPT ![c] = [Idle EXCEPT !.op = "mac", !.req = r, !.pick = a]]
  /\ UNCHANGED <<now, rowVars, subs, historyVars>>

\* The row is read once the token's MAC is verified, and hashed against.
DecideLoad(c) ==
  /\ HasTurn(c)
  /\ call[c].op = "mac"
  /\ call' = [call EXCEPT ![c].op = "hash", ![c].seen = status[call[c].req]]
  /\ UNCHANGED <<now, rowVars, subs, historyVars>>

\* 409: the row, as it was read, is resolved already.
DecideConflict(c) ==
  /\ HasTurn(c)
  /\ call[c].op = "hash"
  /\ call[c].seen \in {"consumed", "approved", "denied"}
  /\ call' = [call EXCEPT ![c].op = "refused"]
  /\ UNCHANGED <<now, rowVars, subs, historyVars>>

\* Mutant: the UPDATE to 'expired' without its status='pending'.
DecideExpiredBlind(c) ==
  LET r == call[c].req IN
  /\ HasTurn(c)
  /\ call[c].op = "hash"
  /\ call[c].seen = "pending" /\ expires[r] <= now
  /\ status' = [status EXCEPT ![r] = "expired"]
  /\ call' = [call EXCEPT ![c].op = "refused"]
  /\ UNCHANGED <<now, digest, expires, alarm, subs, historyVars>>

\* 403: the row is out of time; a row read as pending is marked expired.
DecideExpired(c) ==
  LET r == call[c].req IN
  /\ HasTurn(c)
  /\ call[c].op = "hash"
  /\ \/ call[c].seen = "expired"
     \/ call[c].seen = "pending" /\ expires[r] <= now
  /\ status' = IF call[c].seen = "pending" /\ status[r] = "pending"
               THEN [status EXCEPT ![r] = "expired"] ELSE status
  /\ call' = [call EXCEPT ![c].op = "refused"]
  /\ UNCHANGED <<now, digest, expires, alarm, subs, historyVars>>

\* Mutant: a resolved row is decided again, without status='pending'.
DecideRecordAnew(c) ==
  LET r == call[c].req
      a == call[c].pick
  IN
  /\ HasTurn(c)
  /\ call[c].op = "hash" /\ a # "view" /\ expires[r] > now
  /\ call' = [call EXCEPT ![c].op = "refused"]
  /\ told' = [told EXCEPT ![r] = @ \cup {a}]
  /\ status' = [status EXCEPT ![r] = a]
  /\ approvedAt' = IF a = "approved" THEN [approvedAt EXCEPT ![r] = now] ELSE approvedAt
  /\ UNCHANGED <<now, digest, expires, alarm, subs, linked, granted>>

\* Mutant: opening the GET page already applies the link.
DecideRecordOnView(c) ==
  LET r == call[c].req IN
  /\ HasTurn(c)
  /\ call[c].op = "hash"
  /\ call[c].seen = "pending" /\ expires[r] > now
  /\ call' = [call EXCEPT ![c].op = "refused"]
  /\ told' = [told EXCEPT ![r] = @ \cup {call[c].pick}]
  /\ status' = [status EXCEPT ![r] = call[c].pick]
  /\ UNCHANGED <<now, digest, expires, alarm, subs, linked, granted, approvedAt>>

\* The GET page shows the form; the POST updates the row WHERE status is
\* still 'pending' and tells the operator that the decision is recorded.
DecideRecord(c) ==
  LET r == call[c].req
      a == call[c].pick
  IN
  /\ HasTurn(c)
  /\ call[c].op = "hash"
  /\ call[c].seen = "pending" /\ expires[r] > now
  /\ call' = [call EXCEPT ![c].op = "refused"]
  /\ \/ /\ a = "view"
        /\ UNCHANGED <<status, told, approvedAt>>
     \/ /\ a # "view"
        /\ told' = [told EXCEPT ![r] = @ \cup {a}]
        /\ \/ /\ status[r] = "pending"
              /\ status' = [status EXCEPT ![r] = a]
              /\ approvedAt' = IF a = "approved" THEN [approvedAt EXCEPT ![r] = now]
                                                 ELSE approvedAt
           \/ /\ status[r] # "pending"
              /\ UNCHANGED <<status, approvedAt>>
  /\ UNCHANGED <<now, digest, expires, alarm, subs, linked, granted>>

-----------------------------------------------------------------------------
(* _handleConsume.                                                         *)

\* Mutant: a consumed row is not a replay.
MayCompareReplayed(r, f) == /\ status[r] \in {"approved", "consumed"}
                            /\ digest[r].owner = f.owner

\* The checks on the row that precede the comparison of the digests.
MayCompare(r, f) == /\ status[r] = "approved"
                    /\ digest[r].owner = f.owner

ConsumeStart(c, r, f) ==
  /\ HasTurn(c)
  /\ call[c].op = "idle"
  /\ call' = [call EXCEPT ![c] =
       [Idle EXCEPT !.op  = IF MayCompare(r, f) THEN "compare" ELSE "refused",
                    !.req = r, !.fp = f]]
  /\ UNCHANGED <<now, rowVars, subs, historyVars>>

ConsumeMismatch(c) ==
  /\ HasTurn(c)
  /\ call[c].op = "compare"
  /\ call[c].fp # digest[call[c].req]
  /\ call' = [call EXCEPT ![c].op = "refused"]
  /\ UNCHANGED <<now, rowVars, subs, historyVars>>

\* Mutant: the digests are not compared.
ConsumeGrantUncompared(c) ==
  LET r == call[c].req IN
  /\ HasTurn(c)
  /\ call[c].op = "compare"
  /\ status' = IF status[r] = "approved" THEN [status EXCEPT ![r] = "consumed"]
                                         ELSE status
  /\ granted' = [granted EXCEPT ![r] = @ + 1]
  /\ call' = [call EXCEPT ![c].op = "granted"]
  /\ UNCHANGED <<now, digest, expires, alarm, subs, linked, told, approvedAt>>

\* The UPDATE ... WHERE status = 'approved', whose row count is not looked
\* at, and the 204 that lets the Worker dispatch to the vault.
ConsumeGrant(c) ==
  LET r == call[c].req IN
  /\ HasTurn(c)
  /\ call[c].op = "compare"
  /\ call[c].fp = digest[r]
  /\ status' = IF status[r] = "approved" THEN [status EXCEPT ![r] = "consumed"]
                                         ELSE status
  /\ granted' = [granted EXCEPT ![r] = @ + 1]
  /\ call' = [call EXCEPT ![c].op = "granted"]
  /\ UNCHANGED <<now, digest, expires, alarm, subs, linked, told, approvedAt>>

-----------------------------------------------------------------------------
(* _handleSubscribe, the environment and the object's restart.             *)

Subscribe(e) ==
  /\ Quiescent
  /\ subs' = subs \cup {e}
  /\ UNCHANGED <<now, rowVars, call, historyVars>>

\* The caller has the answer.
Return(c) ==
  /\ call[c].op \in Answered
  /\ call' = [call EXCEPT ![c] = Idle]
  /\ UNCHANGED <<now, rowVars, subs, historyVars>>

\* Mutant: the alarm is a timer in memory.
RestartForgetful ==
  /\ \E c \in Caller : call[c].op # "idle"
  /\ call' = [c \in Caller |-> Idle]
  /\ alarm' = NoAlarm
  /\ UNCHANGED <<now, status, digest, expires, subs, historyVars>>

\* Eviction or a deploy: what is in memory is lost, storage and alarm stay.
Restart ==
  /\ \E c \in Caller : call[c].op # "idle"
  /\ call' = [c \in Caller |-> Idle]
  /\ UNCHANGED <<now, rowVars, subs, historyVars>>

Tick ==
  /\ Quiescent
  /\ now < MaxTime
  /\ now' = now + 1
  /\ UNCHANGED <<rowVars, subs, call, historyVars>>

-----------------------------------------------------------------------------
Init ==
  /\ now = 0
  /\ status     = [r \in Request |-> "none"]
  /\ digest     = [r \in Request |-> NoFingerprint]
  /\ expires    = [r \in Request |-> 0]
  /\ alarm      = NoAlarm
  /\ subs       = {}
  /\ call       = [c \in Caller |-> Idle]
  /\ linked     = {}
  /\ granted    = [r \in Request |-> 0]
  /\ told       = [r \in Request |-> {}]
  /\ approvedAt = [r \in Request |-> MaxTime]

\* The steps of the invocation that c waits for.
Handler(c) ==
  \/ SubmitInsert(c)
  \/ \E e \in Endpoint : Push(c, e)
  \/ SubmitAnswer(c)
  \/ DecideLoad(c)
  \/ DecideConflict(c)
  \/ DecideExpired(c)
  \/ DecideRecord(c)
  \/ ConsumeMismatch(c)
  \/ ConsumeGrant(c)
  \/ Return(c)

\* A new event for the object.
Arrival(c) ==
  \/ \E r \in Request, f \in Fingerprint, t \in Timeout : SubmitStart(c, r, f, t)
  \/ \E r \in Request, a \in Choice \cup {"view"} : DecideStart(c, r, a)
  \/ \E r \in Request, f \in Fingerprint : status[r] # "none" /\ ConsumeStart(c, r, f)

Next ==
  \/ \E c \in Caller : Handler(c) \/ Arrival(c)
  \/ \E e \in Endpoint : Subscribe(e)
  \/ AlarmFires
  \/ Restart
  \/ Tick

Spec == Init /\ [][Next]_vars

(***************************************************************************)
(* Time passes, the platform delivers a due alarm (Cloudflare retries it   *)
(* until the handler succeeds) and a handler that has begun is run on.     *)
(* The event loop takes its events in order, so that none waits forever    *)
(* behind later ones: fairness is strong.                                  *)
(***************************************************************************)
Fairness ==
  /\ SF_vars(Tick)
  /\ SF_vars(AlarmFires)
  /\ \A c \in Caller : SF_vars(Handler(c))

FairSpec == Spec /\ Fairness

-----------------------------------------------------------------------------
TypeOK ==
  /\ now \in 0..MaxTime
  /\ status \in [Request -> Status \cup {"none"}]
  /\ digest \in [Request -> Fingerprint \cup {NoFingerprint}]
  /\ expires \in [Request -> 0..MaxTime]
  /\ alarm \in (0..MaxTime) \cup {NoAlarm}
  /\ subs \in SUBSET Endpoint
  /\ call \in [Caller -> Call]
  /\ \A c \in Caller : call[c].op # "idle" => call[c].req \in Request
  /\ linked \in SUBSET Request
  /\ granted \in [Request -> Nat]
  /\ told \in [Request -> SUBSET Choice]
  /\ approvedAt \in [Request -> 0..MaxTime]

(***************************************************************************)
(* Properties.                                                             *)
(***************************************************************************)

\* An approval lets at most one request through: however the consume calls
\* of retried and concurrent Workers interleave with each other and with
\* restarts, _handleConsume answers 204 at most once per request id.
SingleGrant == \A r \in Request : granted[r] <= 1

\* A grant stands on a decision made in time: the row was approved strictly
\* before its expires_at, no handler or alarm has touched it since, and the
\* call that got the 204 presented the digest that was submitted.
GrantStandsOnApproval ==
  \A r \in Request :
    /\ granted[r] > 0 => status[r] = "consumed"
    /\ \A c \in Caller : call[c].op = "granted" /\ call[c].req = r => call[c].fp = digest[r]
    /\ status[r] \in {"approved", "consumed"} =>
         "approved" \in told[r] /\ approvedAt[r] < expires[r]

\* The page "Request ... is now approved" (or denied) tells the truth, and
\* goes on telling it: the row holds that decision, and two operators who
\* follow both links are never both told that theirs is recorded.
DecisionPageTruthful ==
  \A r \in Request :
    /\ "approved" \in told[r] => status[r] \in {"approved", "consumed"}
    /\ "denied" \in told[r] => status[r] = "denied"

\* A pending row never waits for an alarm that is missing or too late, in
\* whatever order submissions, decisions and earlier alarms rescheduled it.
AlarmCoversPending ==
  \A r \in Request : status[r] = "pending" => alarm # NoAlarm /\ alarm <= expires[r]

\* The first outcome stands: no step takes a decided row back, overrules a
\* denial or an expiry, or revives what was consumed.
FirstOutcomeStands ==
  [][\A r \in Request :
       /\ status[r] # "none" => digest'[r] = digest[r] /\ expires'[r] = expires[r]
       /\ status'[r] # status[r] =>
            \/ status[r] = "none" /\ status'[r] = "pending"
            \/ status[r] = "pending" /\ status'[r] \in {"approved", "denied", "expired"}
            \/ status[r] = "approved" /\ status'[r] = "consumed"]_vars

\* Nobody polls forever: a submitted request leaves the pending state, with
\* or without an operator, across restarts of the object.
PendingResolved ==
  \A r \in Request : status[r] = "pending" ~> status[r] # "pending"

-----------------------------------------------------------------------------
(* The abstract ledger that the object implements.                         *)

PhaseOf(st) ==
  CASE st = "none"                  -> "unused"
    [] st = "pending"               -> "waiting"
    [] st = "approved"              -> "approved"
    [] st \in {"denied", "expired"} -> "refused"
    [] st = "consumed"              -> "spent"

Ledger == INSTANCE ApprovalLedger
            WITH phase  <- [r \in Request |-> PhaseOf(status[r])],
                 bound  <- digest,
                 spends <- granted

\* Every run of the object is a run of the ledger: its awaits, stale reads
\* and restarts show only as stuttering.
ImplementsLedger == Ledger!LedgerSpec
=============================================================================
