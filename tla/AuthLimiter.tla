----------------------------- MODULE AuthLimiter -----------------------------
(***************************************************************************)
(* The limiter of authentication attempts in subumbra-keys: a window that  *)
(* slides with the time, over rows in SQLite that two gunicorn workers     *)
(* share.  An attempt takes its time first and waits for its worker's lock *)
(* and for the lock of the database then, for any time; a worker whose     *)
(* statement fails answers 503 and leaves its transaction open, with what  *)
(* it holds so far.                                                        *)
(***************************************************************************)
EXTENDS Integers, FiniteSets

CONSTANTS
  Attempt,      \* requests with a consumer token, good or not
  Remote,       \* addresses
  From,         \* the address of an attempt
  Limit,        \* RPM of an address, internal or not
  Worker,       \* gunicorn workers, with a connection each
  Window,       \* _RATE_LIMIT_WINDOW_SECONDS
  PruneSlack,   \* _RATE_LIMIT_PRUNE_SLACK_SECONDS
  MaxTime       \* bound on the clock

ASSUME AuthLimiterAssumption ==
  /\ IsFiniteSet(Attempt)
  /\ From \in [Attempt -> Remote]
  /\ Limit \in [Remote -> Nat \ {0}]
  /\ {Window, PruneSlack, MaxTime} \subseteq Nat

VARIABLES
  now,       \* int(time.time()), the same for all workers
  att,       \* the attempts: phase, now_ts and the worker that serves it
  rows,      \* auth_attempts as committed; a row is named by its attempt
  open       \* the table inside the open transaction of a worker, if any

vars == <<now, att, rows, open>>

Phase == {"new", "waiting", "counted", "limited", "unavailable"}
NoTransaction == [state |-> "none"]
Transaction   == [state : {"open"}, table : SUBSET Attempt]

-----------------------------------------------------------------------------
\* The table as the connection of a worker sees it.
Seen(w) == IF open[w] = NoTransaction THEN rows ELSE open[w].table

\* SQLite has one writer at a time.
MayWrite(w) == \A v \in Worker \ {w} : open[v] = NoTransaction

\* now_ts is read before the lock.
Arrive(a) ==
  /\ att[a].ph = "new"
  /\ att' = [att EXCEPT ![a].ph = "waiting", ![a].ts = now]
  /\ UNCHANGED <<now, rows, open>>

\* DELETE ... WHERE ts < prune_before, on every 20th row of a worker.
Unpruned(table, ts) == {b \in table : att[b].ts >= ts - Window - PruneSlack}

\* The table after the INSERT, pruned or not.
Inserted(a) ==
  LET table == Seen(att[a].by) \cup {a}
  IN  {table, Unpruned(table, att[a].ts)}

\* Mutant: the time of the last row is left out.
CountedSince(table, a) ==
  {b \in table : From[b] = From[a] /\ att[b].ts > att[a].ts - Window + 1}

\* SELECT COUNT(*) ... WHERE remote = ? AND ts >= window_start.
Counted(table, a) ==
  {b \in table : From[b] = From[a] /\ att[b].ts >= att[a].ts - Window + 1}

Verdict(table, a) ==
  IF Cardinality(Counted(table, a)) <= Limit[From[a]] THEN "counted" ELSE "limited"

\* INSERT, DELETE, SELECT and COMMIT: from the first on the worker holds the
\* write lock.
Record(a) ==
  LET w == att[a].by IN
  /\ att[a].ph = "waiting"
  /\ MayWrite(w)
  /\ \E table \in Inserted(a) :
       /\ rows' = table
       /\ att' = [att EXCEPT ![a].ph = Verdict(table, a)]
  /\ open' = [open EXCEPT ![w] = NoTransaction]
  /\ UNCHANGED now

\* The INSERT fails, or waits for longer than busy_timeout: 503.
StoreError(a) ==
  /\ att[a].ph = "waiting"
  /\ att' = [att EXCEPT ![a].ph = "unavailable"]
  /\ UNCHANGED <<now, rows, open>>

\* Mutant: the attempt is tried again.
TornTriedAgain(a) ==
  LET w == att[a].by IN
  /\ att[a].ph = "waiting"
  /\ MayWrite(w)
  /\ \E table \in Inserted(a) :
       open' = [open EXCEPT ![w] = [state |-> "open", table |-> table]]
  /\ UNCHANGED <<now, att, rows>>

\* A later statement fails: 503, and nothing rolls the INSERT back.
Torn(a) ==
  LET w == att[a].by IN
  /\ att[a].ph = "waiting"
  /\ MayWrite(w)
  /\ \E table \in Inserted(a) :
       open' = [open EXCEPT ![w] = [state |-> "open", table |-> table]]
  /\ att' = [att EXCEPT ![a].ph = "unavailable"]
  /\ UNCHANGED <<now, rows>>

\* A nonce or an audit event is committed on the same connection.
CommitElsewhere(w) ==
  /\ open[w] # NoTransaction
  /\ rows' = open[w].table
  /\ open' = [open EXCEPT ![w] = NoTransaction]
  /\ UNCHANGED <<now, att>>

\* The worker is killed: its transaction is rolled back, nobody is answered.
Die(w) ==
  /\ att' = [a \in Attempt |->
               IF att[a].ph = "waiting" /\ att[a].by = w
               THEN [att[a] EXCEPT !.ph = "unavailable"] ELSE att[a]]
  /\ open' = [open EXCEPT ![w] = NoTransaction]
  /\ UNCHANGED <<now, rows>>

Tick ==
  /\ now < MaxTime
  /\ now' = now + 1
  /\ UNCHANGED <<att, rows, open>>

-----------------------------------------------------------------------------
\* Either worker may be the one that accepts the connection.
Init ==
  /\ now = 0
  /\ att \in [Attempt -> [ph : {"new"}, ts : {0}, by : Worker]]
  /\ rows = {}
  /\ open = [w \in Worker |-> NoTransaction]

Next ==
  \/ Tick
  \/ \E a \in Attempt :
       \/ Arrive(a) \/ Record(a) \/ StoreError(a) \/ Torn(a)
  \/ \E w \in Worker : CommitElsewhere(w) \/ Die(w)

Spec == Init /\ [][Next]_vars

-----------------------------------------------------------------------------
(* Properties.                                                             *)

\* The rows and the transactions keep their types, and an attempt that has a
\* row somewhere has its answer: it is not recorded a second time.
TypeOK ==
  /\ now \in 0..MaxTime
  /\ att \in [Attempt -> [ph : Phase, ts : 0..MaxTime, by : Worker]]
  /\ rows \in SUBSET Attempt
  /\ open \in [Worker -> {NoTransaction} \cup Transaction]
  /\ \A w \in Worker : \A a \in rows \cup Seen(w) : att[a].ph \notin {"new", "waiting"}

\* Attempts of an address whose token was looked at, by the time they took.
Passed(r, from, to) ==
  {a \in Attempt : att[a].ph = "counted" /\ From[a] = r /\ att[a].ts \in from..to}

\* In whatever window of that length, and whichever workers an address comes
\* to, an attempt that was not held up passes only if with it no more have
\* passed than the limit: with rows that are pruned early, rolled back or left
\* in an open transaction, and attempts that are recorded in another order than
\* that of their times.  One that was held up longer may find the rows of its
\* window pruned.
WithinLimit ==
  [][\A a \in Attempt :
       /\ att[a].ph = "waiting" /\ att'[a].ph = "counted"
       /\ now - att[a].ts <= PruneSlack + 1
       => \A t \in 0..MaxTime : att[a].ts \in t..(t + Window - 1) =>
            Cardinality(Passed(From[a], t, t + Window - 1)') <= Limit[From[a]]]_vars
=============================================================================
