------------------------------ MODULE KeyService ------------------------------
(***************************************************************************)
(* GET /keys/{key_id} of subumbra-keys: the answer is the encrypted record *)
(* of a key.  Two gunicorn workers with four threads each serve it over    *)
(* one SQLite database, and the session commands of bootstrap write the    *)
(* same tables from a process of their own.                                *)
(*                                                                         *)
(* A request is signed once, with a nonce and a time.  It may be delivered *)
(* more than once, and late.  Every statement on the database commits on   *)
(* its own, and a thread may stop before each for any time: _stats_lock    *)
(* has no bound, and the lock of SQLite is waited for up to 10 s.          *)
(***************************************************************************)
EXTENDS Integers, FiniteSets

CONSTANTS
  Request,      \* signed requests, with a nonce each
  Thread,       \* threads of the workers
  Session,      \* session rows
  Covers,       \* requests whose consumer and key are in the scope of a session
  MaxQueries,   \* --max-queries of a session, or Unlimited
  Unlimited,
  Ttl,          \* --ttl of a session
  Tolerance,    \* TIMESTAMP_TOLERANCE
  PruneSlack,   \* by how much a nonce outlives it (5 s in the code)
  Skew,         \* how far the clock of the proxy is off, either way
  MaxTime       \* bound on the clock

ASSUME KeyServiceAssumption ==
  /\ {Tolerance, PruneSlack, Skew, MaxTime} \subseteq Nat
  /\ IsFiniteSet(Thread)
  /\ Covers \in [Session -> SUBSET Request]
  /\ MaxQueries \in [Session -> (Nat \ {0}) \cup {Unlimited}]
  /\ Unlimited \notin Nat
  /\ Ttl \in [Session -> Nat \ {0}]

VARIABLES
  now,        \* int(time.time())
  stamp,      \* X-Subumbra-Timestamp of the requests signed so far
  nonces,     \* subumbra_nonces: created_at per nonce
  row,        \* sessions
  call,       \* what each thread serves
  \* history
  accepted,   \* requests of which a delivery passed the nonce check
  served      \* 200s per session with a limit

historyVars == <<accepted, served>>
vars == <<now, stamp, nonces, row, call, historyVars>>

None   == -(MaxTime + Skew + 1)     \* no timestamp, no row
Time   == 0..MaxTime
Status == {"none", "active", "expired", "closed"}
Row    == [st : Status, expires : Nat, used : Nat]

\* barred: the sessions that had ended when the request arrived (history).
Idle == [ph |-> "idle"]
Call == {Idle}
  \cup [ph : {"verified"}, req : Request, barred : SUBSET Session, at : Time]
  \cup [ph : {"fresh", "refreshed"}, req : Request, barred : SUBSET Session]
  \cup [ph : {"matched", "granted"}, req : Request, barred : SUBSET Session,
        session : Session]
  \cup [ph : {"counting"}, req : Request, barred : SUBSET Session,
        session : Session, at : Time]

-----------------------------------------------------------------------------
(* Sessions.                                                               *)

Overdue(s) == row[s].st = "active" /\ row[s].expires < now

\* Mutant: the table is read as it stands.
Unrefreshed == row

\* The table after UPDATE ... WHERE status = 'active' AND expires_at < now.
\* It is committed before the statement that it is there for.
Refreshed == [s \in Session |->
                IF Overdue(s) THEN [row[s] EXCEPT !.st = "expired"] ELSE row[s]]

Ended(s) == row[s].st \in {"expired", "closed"} \/ Overdue(s)

Limited(s) == MaxQueries[s] # Unlimited

-----------------------------------------------------------------------------
(* The request and its nonce.                                              *)

\* The proxy signs a request by its own clock.
Sign(r) ==
  /\ stamp[r] = None
  /\ \E t \in (now - Skew)..(now + Skew) : stamp' = [stamp EXCEPT ![r] = t]
  /\ UNCHANGED <<now, nonces, row, call, historyVars>>

WithinTolerance(r) == stamp[r] \in (now - Tolerance)..(now + Tolerance)

\* One delivery: consumer and signature are right, the time is looked at.
\* A delivery out of tolerance is answered 401 and leaves nothing behind.
Verify(th, r) ==
  /\ call[th] = Idle
  /\ stamp[r] # None
  /\ WithinTolerance(r)
  /\ call' = [call EXCEPT ![th] = [ph |-> "verified", req |-> r,
                barred |-> {s \in Session : Ended(s)}, at |-> now]]
  /\ UNCHANGED <<now, stamp, nonces, row, historyVars>>

\* INSERT OR IGNORE inserted no row: 401 nonce_reused.
NonceReused(th) ==
  /\ call[th].ph = "verified"
  /\ nonces[call[th].req] # None
  /\ call' = [call EXCEPT ![th] = Idle]
  /\ UNCHANGED <<now, stamp, nonces, row, historyVars>>

\* Mutant: a nonce is kept for the tolerance alone.
PrunedEarly(rows, created) ==
  [r \in Request |-> IF rows[r] < created - Tolerance THEN None ELSE rows[r]]

Pruned(rows, created) ==
  [r \in Request |-> IF rows[r] < created - Tolerance - PruneSlack THEN None ELSE rows[r]]

\* The nonce is recorded under the time the thread read before it waited for
\* the locks, however long it did.  Every 50th insertion of a worker prunes the table.
NonceRecorded(th) ==
  LET k == call[th] IN
  /\ k.ph = "verified"
  /\ nonces[k.req] = None
  /\ \E created \in k.at..now :
       LET rows == [nonces EXCEPT ![k.req] = created]
       IN  nonces' \in {rows, Pruned(rows, created)}
  /\ accepted' = accepted \cup {k.req}
  /\ call' = [call EXCEPT ![th] = [ph |-> "fresh", req |-> k.req, barred |-> k.barred]]
  /\ UNCHANGED <<now, stamp, row, served>>

-----------------------------------------------------------------------------
(* The session that admits it.                                             *)

\* lockdown_enabled = 0, which no code writes and an operator may, by hand and
\* at any time: no session is read and nothing is counted.  Whether the key is
\* served or refused, nothing of it is kept.
ServeUnlocked(th) ==
  /\ call[th].ph = "fresh"
  /\ call' = [call EXCEPT ![th] = Idle]
  /\ UNCHANGED <<now, stamp, nonces, row, historyVars>>

\* Lockdown is on, or could not be read, which counts as on.  The overdue
\* sessions are expired, and that is committed.
Refresh(th) ==
  /\ call[th].ph = "fresh"
  /\ row' = Refreshed
  /\ call' = [call EXCEPT ![th].ph = "refreshed"]
  /\ UNCHANGED <<now, stamp, nonces, historyVars>>

\* The SELECT of _list_active_session_rows, and the scopes of its rows.
Matching(r) == {s \in Session : row[s].st = "active" /\ r \in Covers[s]}

\* No session, or more than one: 403 or 500.
Unmatched(th) ==
  /\ call[th].ph = "refreshed"
  /\ \A s \in Session : Matching(call[th].req) # {s}
  /\ call' = [call EXCEPT ![th] = Idle]
  /\ UNCHANGED <<now, stamp, nonces, row, historyVars>>

Match(th) ==
  LET k == call[th] IN
  /\ k.ph = "refreshed"
  /\ \E s \in Session :
       /\ Matching(k.req) = {s}
       /\ call' = [call EXCEPT ![th] =
            [ph |-> "matched", req |-> k.req, barred |-> k.barred, session |-> s]]
  /\ UNCHANGED <<now, stamp, nonces, row, historyVars>>

\* endpoint.json does not hold the key, or says revoked or paused: 403.
KeyDenied(th) ==
  /\ call[th].ph = "matched"
  /\ call' = [call EXCEPT ![th] = Idle]
  /\ UNCHANGED <<now, stamp, nonces, row, historyVars>>

\* A session without a limit is not looked at again.
GrantUnlimited(th) ==
  /\ call[th].ph = "matched"
  /\ ~Limited(call[th].session)
  /\ call' = [call EXCEPT ![th].ph = "granted"]
  /\ UNCHANGED <<now, stamp, nonces, row, historyVars>>

\* _try_consume_session_query expires the overdue sessions first.
Recount(th) ==
  LET k == call[th] IN
  /\ k.ph = "matched"
  /\ Limited(k.session)
  /\ row' = Refreshed
  /\ call' = [call EXCEPT ![th] = [ph |-> "counting", req |-> k.req,
                barred |-> k.barred, session |-> k.session, at |-> now]]
  /\ UNCHANGED <<now, stamp, nonces, historyVars>>

\* Mutant: the UPDATE does not compare queries_used.
HasSession(s) == row[s].st = "active"

\* Mutant: the UPDATE does not look at the status.
HasCount(s) == row[s].used < MaxQueries[s]

\* The condition of the UPDATE that counts.  It does not look at the time.
HasQuery(s) == row[s].st = "active" /\ row[s].used < MaxQueries[s]

\* The thread of a counting record goes on with its answer.
Granted(k) == [ph |-> "granted", req |-> k.req, barred |-> k.barred, session |-> k.session]

ConsumeQuery(th) ==
  LET k == call[th] IN
  /\ k.ph = "counting"
  /\ HasQuery(k.session)
  /\ row' = [row EXCEPT ![k.session].used = @ + 1]
  /\ call' = [call EXCEPT ![th] = Granted(k)]
  /\ UNCHANGED <<now, stamp, nonces, historyVars>>

\* rowcount = 0: 403 session_query_limit_reached, whatever the reason.
LimitDenied(th) ==
  /\ call[th].ph = "counting"
  /\ ~HasQuery(call[th].session)
  /\ call' = [call EXCEPT ![th] = Idle]
  /\ UNCHANGED <<now, stamp, nonces, row, historyVars>>

\* 200 with the record.
Answer(th) ==
  /\ call[th].ph = "granted"
  /\ LET s == call[th].session
     IN  served' = [served EXCEPT ![s] = IF Limited(s) THEN @ + 1 ELSE @]
  /\ call' = [call EXCEPT ![th] = Idle]
  /\ UNCHANGED <<now, stamp, nonces, row, accepted>>

\* The worker dies or the database reports an error: what was committed stays.
Die(th) ==
  /\ call[th] # Idle
  /\ call' = [call EXCEPT ![th] = Idle]
  /\ UNCHANGED <<now, stamp, nonces, row, historyVars>>

-----------------------------------------------------------------------------
(* What bootstrap writes into the sessions table.                          *)

\* --session start activates the row that it inserted some time ago.
OpenSession(s) ==
  /\ row[s].st = "none"
  /\ \E inserted \in Time :
       /\ inserted <= now
       /\ row' = [row EXCEPT ![s] = [st |-> "active", expires |-> inserted + Ttl[s], used |-> 0]]
  /\ UNCHANGED <<now, stamp, nonces, call, historyVars>>

\* Mutant: a status that no reader knows.
CloseMisspelt(s) ==
  /\ row[s].st = "active"
  /\ row' = [row EXCEPT ![s].st = "ended"]
  /\ UNCHANGED <<now, stamp, nonces, call, historyVars>>

\* --session end, a start that fails after the activation and takes its row
\* back, or a reflected signature that reached the limit.
CloseSession(s) ==
  /\ row[s].st = "active"
  /\ row' = [row EXCEPT ![s].st = "closed"]
  /\ UNCHANGED <<now, stamp, nonces, call, historyVars>>

Tick ==
  /\ now < MaxTime
  /\ now' = now + 1
  /\ UNCHANGED <<stamp, nonces, row, call, historyVars>>

-----------------------------------------------------------------------------
Init ==
  /\ now = 0
  /\ stamp = [r \in Request |-> None]
  /\ nonces = [r \in Request |-> None]
  /\ row = [s \in Session |-> [st |-> "none", expires |-> 0, used |-> 0]]
  /\ call = [th \in Thread |-> Idle]
  /\ accepted = {}
  /\ served = [s \in Session |-> 0]

GetKey(th) ==
  \/ \E r \in Request : Verify(th, r)
  \/ NonceReused(th) \/ NonceRecorded(th)
  \/ ServeUnlocked(th) \/ Refresh(th) \/ Unmatched(th) \/ Match(th)
  \/ KeyDenied(th) \/ GrantUnlimited(th)
  \/ Recount(th) \/ ConsumeQuery(th) \/ LimitDenied(th)
  \/ Answer(th) \/ Die(th)

Next ==
  \/ Tick
  \/ \E r \in Request : Sign(r)
  \/ \E th \in Thread : GetKey(th)
  \/ \E s \in Session : OpenSession(s) \/ CloseSession(s)

Spec == Init /\ [][Next]_vars

-----------------------------------------------------------------------------
(* Properties.                                                             *)

\* Every column, call record and history variable keeps its type.
TypeOK ==
  /\ now \in Time
  /\ stamp \in [Request -> (-Skew..(MaxTime + Skew)) \cup {None}]
  /\ nonces \in [Request -> Time \cup {None}]
  /\ row \in [Session -> Row]
  /\ call \in [Thread -> Call]
  /\ accepted \subseteq Request
  /\ served \in [Session -> Nat]

\* A nonce is accepted a second time only by a delivery whose thread looked at
\* the time and was then held up, by more than the slack leaves beside the
\* skew of the clocks: however often a request is delivered and however the
\* prunings of the workers fall between.
RepeatsWaited ==
  [][\A th \in Thread :
       /\ call[th].ph = "verified" /\ call'[th].ph = "fresh"
       /\ call[th].req \in accepted
       => now - call[th].at > PruneSlack - Skew]_vars

\* 200s under a session that are about to be sent.
Underway(s) == {th \in Thread : call[th].ph = "granted" /\ call[th].session = s}

\* The answers under a session with a limit, with those on their way, never
\* exceed what it has counted, and that never exceeds the limit.
QuotaKept ==
  \A s \in Session : Limited(s) =>
    /\ served[s] + Cardinality(Underway(s)) <= row[s].used
    /\ row[s].used <= MaxQueries[s]

\* A request that arrived after a session had ended is not answered under it,
\* whether it was closed, or only its time was over.
EndedServesNothing ==
  \A th \in Thread : call[th].ph = "granted" => call[th].session \notin call[th].barred

\* A session that has ended stays so.  A query is counted only while the row
\* says active, by a thread that found the session in time when it last
\* expired the table; it may be overdue by the time it counts.
CountedWhileActive ==
  [][\A s \in Session :
       /\ row[s].st \in {"expired", "closed"} => row'[s] = row[s]
       /\ row'[s].used > row[s].used =>
            /\ row[s].st = "active"
            /\ \E th \in Thread : /\ call[th].ph = "counting" /\ call[th].session = s
                                 /\ call[th].at <= row[s].expires]_vars
=============================================================================
