-------------------------- MODULE AuthLimiter_proofs --------------------------
(***************************************************************************)
(* The limit of AuthLimiter for every number of attempts, addresses and    *)
(* workers, and waits for the locks of any length.  What has to be shown   *)
(* is that a row which still counts is in every table that an attempt may  *)
(* be counted in, unless the attempt was held up.                          *)
(***************************************************************************)
EXTENDS AuthLimiter, FiniteSetTheorems, TLAPS

Typed ==
  /\ now \in 0..MaxTime
  /\ att \in [Attempt -> [ph : Phase, ts : 0..MaxTime, by : Worker]]
  /\ rows \in SUBSET Attempt
  /\ open \in [Worker -> {NoTransaction} \cup Transaction]

\* Where a row is, an answer was given.
Answered(table) == \A a \in table : att[a].ph \notin {"new", "waiting"}

\* Times are not ahead of the clock.
Timed == \A a \in Attempt : att[a].ph # "new" => att[a].ts <= now

\* One worker has a transaction open.
OneWriter ==
  \A v, w \in Worker :
    open[v] # NoTransaction /\ open[w] # NoTransaction => v = w

\* An attempt that passed has its row, or is too old for the window of any
\* attempt that was not held up.
Kept(table) ==
  \A a \in Attempt :
    att[a].ph = "counted" => a \in table \/ att[a].ts + Window + PruneSlack < now

Inv ==
  /\ Typed
  /\ Timed
  /\ OneWriter
  /\ Answered(rows) /\ Kept(rows)
  /\ \A w \in Worker : open[w] # NoTransaction =>
       Answered(open[w].table) /\ Kept(open[w].table)

-----------------------------------------------------------------------------
(* The tables.                                                             *)

\* Whatever a worker sees is typed, answered and kept.
LEMMA SeenIsKept ==
  ASSUME Inv, NEW w \in Worker
  PROVE  Seen(w) \in SUBSET Attempt /\ Answered(Seen(w)) /\ Kept(Seen(w))
  <1>1. CASE open[w] = NoTransaction
    BY <1>1 DEF Inv, Typed, Seen
  <1>2. CASE open[w] # NoTransaction
    <2>1. open[w] \in Transaction
      BY <1>2 DEF Inv, Typed
    <2>2. Seen(w) = open[w].table /\ open[w].table \in SUBSET Attempt
      BY <1>2, <2>1 DEF Seen, Transaction
    <2> QED
      BY <1>2, <2>2 DEF Inv
  <1> QED
    BY <1>1, <1>2

\* What an attempt that waits writes: typed, with its own row, and without
\* the loss of a row that the window of a prompt attempt may still reach.
LEMMA InsertedIsKept ==
  ASSUME Inv, NEW a \in Attempt, att[a].ph = "waiting", NEW table \in Inserted(a)
  PROVE  /\ table \in SUBSET Attempt
         /\ a \in table
         /\ \A b \in table \ {a} : att[b].ph \notin {"new", "waiting"}
         /\ Kept(table)
  <1> DEFINE w == att[a].by
             all == Seen(w) \cup {a}
  <1>1. w \in Worker
    BY DEF Inv, Typed
  <1>2. Seen(w) \in SUBSET Attempt /\ Answered(Seen(w)) /\ Kept(Seen(w))
    BY <1>1, SeenIsKept
  <1>3. table = all \/ table = Unpruned(all, att[a].ts)
    BY DEF Inserted
  <1>4. table \subseteq all
    BY <1>3 DEF Unpruned
  <1>5. a \in table
    BY <1>3, AuthLimiterAssumption DEF Unpruned, Inv, Typed
  <1>6. ASSUME NEW b \in Attempt, att[b].ph = "counted"
        PROVE  b \in table \/ att[b].ts + Window + PruneSlack < now
    <2>1. b \in all \/ att[b].ts + Window + PruneSlack < now
      BY <1>2, <1>6 DEF Kept
    <2>2. ASSUME b \in all, b \notin table
          PROVE  att[b].ts + Window + PruneSlack < now
      <3>1. att[a].ts <= now /\ {att[a].ts, att[b].ts, now} \subseteq Int
        BY AuthLimiterAssumption DEF Inv, Timed, Typed
      <3>2. table = Unpruned(all, att[a].ts)
        BY <2>2, <1>3
      <3>3. ~(att[b].ts >= att[a].ts - Window - PruneSlack)
        BY <2>2, <3>2 DEF Unpruned
      <3> QED
        BY <3>1, <3>3, AuthLimiterAssumption
    <2> QED
      BY <2>1, <2>2
  <1> QED
    BY <1>2, <1>4, <1>5, <1>6 DEF Answered, Kept


-----------------------------------------------------------------------------
(* The steps.                                                              *)

LEMMA InvInit == Init => Inv
  BY AuthLimiterAssumption DEF Init, Inv, Typed, Phase, Timed, OneWriter, Answered, Kept

\* An attempt arrives, or is answered without a pass.
Moves(b) ==
  \/ att'[b] = att[b]
  \/ att[b].ph = "new" /\ att'[b].ph = "waiting"
  \/ att[b].ph = "waiting" /\ att'[b].ph = "unavailable"

\* Such steps leave in a table what has to be in it.
LEMMA TableStands ==
  ASSUME NEW table, Answered(table), Kept(table), table \subseteq Attempt,
         now' = now, \A b \in Attempt : Moves(b)
  PROVE  /\ \A b \in table : att'[b].ph \notin {"new", "waiting"}
         /\ \A b \in Attempt : att'[b].ph = "counted" =>
              b \in table \/ att'[b].ts + Window + PruneSlack < now'
  <1>1. \A b \in table : att'[b].ph \notin {"new", "waiting"}
    BY DEF Answered, Moves
  <1>2. \A b \in Attempt : att'[b].ph = "counted" => att'[b] = att[b]
    BY DEF Moves
  <1> QED
    BY <1>1, <1>2 DEF Kept

\* They leave the tables of the workers as they are, too.
LEMMA TablesStand ==
  ASSUME Inv, rows' = rows, open' = open, now' = now, \A b \in Attempt : Moves(b)
  PROVE  /\ Answered(rows)' /\ Kept(rows)'
         /\ \A w \in Worker : open'[w] # NoTransaction =>
              Answered(open[w].table)' /\ Kept(open[w].table)'
  <1>1. Answered(rows)' /\ Kept(rows)'
    BY TableStands DEF Inv, Typed, Answered, Kept
  <1>2. ASSUME NEW w \in Worker, open'[w] # NoTransaction
        PROVE  Answered(open[w].table)' /\ Kept(open[w].table)'
    <2>1. open[w].table \in SUBSET Attempt
      BY <1>2 DEF Inv, Typed, Transaction
    <2> QED
      BY <1>2, <2>1, TableStands DEF Inv, Answered, Kept
  <1> QED
    BY <1>1, <1>2

LEMMA InvStep == Inv /\ [Next]_vars => Inv'
  <1> SUFFICES ASSUME Inv, [Next]_vars PROVE Inv'
    OBVIOUS
  <1> USE AuthLimiterAssumption
  <1>1. ASSUME NEW a \in Attempt, Arrive(a) PROVE Inv'
    <2>1. Typed'
      BY <1>1 DEF Arrive, Inv, Typed, Phase
    <2>2. Timed'
      BY <1>1 DEF Arrive, Inv, Typed, Timed
    <2>3. OneWriter'
      BY <1>1 DEF Arrive, Inv, OneWriter
    <2>4. \A b \in Attempt : Moves(b)
      BY <1>1 DEF Arrive, Inv, Typed, Moves
    <2> QED
      BY <1>1, <2>1, <2>2, <2>3, <2>4, TablesStand DEF Arrive, Inv
  <1>2. ASSUME NEW a \in Attempt, Record(a) PROVE Inv'
    <2> DEFINE w == att[a].by
    <2>1. PICK table \in Inserted(a) :
            rows' = table /\ att' = [att EXCEPT ![a].ph = Verdict(table, a)]
      BY <1>2 DEF Record
    <2>2. /\ table \in SUBSET Attempt
          /\ a \in table
          /\ \A b \in table \ {a} : att[b].ph \notin {"new", "waiting"}
          /\ Kept(table)
      BY <1>2, <2>1, InsertedIsKept DEF Record
    <2>3. Verdict(table, a) \in {"counted", "limited"}
      BY DEF Verdict
    <2>4. w \in Worker /\ att[a].ph = "waiting" /\ now' = now
      BY <1>2 DEF Record, Inv, Typed
    <2>5. \A v \in Worker : open'[v] = NoTransaction
      BY <1>2, <2>4 DEF Record, MayWrite, Inv, Typed
    <2>6. Typed'
      BY <1>2, <2>1, <2>2, <2>3, <2>4 DEF Record, Inv, Typed, Phase
    <2>7. Timed'
      BY <2>1, <2>3, <2>4 DEF Inv, Typed, Timed
    <2>8. /\ \A b \in Attempt : b # a => att'[b] = att[b]
          /\ att'[a].ph \in {"counted", "limited"} /\ att'[a].ts = att[a].ts
      BY <2>1, <2>3 DEF Inv, Typed
    <2>9. Answered(rows)' /\ Kept(rows)'
      BY <2>1, <2>2, <2>4, <2>8 DEF Answered, Kept
    <2> QED
      BY <2>5, <2>6, <2>7, <2>9 DEF Inv, OneWriter
  <1>3. ASSUME NEW a \in Attempt, StoreError(a) PROVE Inv'
    <2>1. Typed' /\ Timed' /\ OneWriter'
      BY <1>3 DEF StoreError, Inv, Typed, Phase, Timed, OneWriter
    <2>2. \A b \in Attempt : Moves(b)
      BY <1>3 DEF StoreError, Inv, Typed, Moves
    <2> QED
      BY <1>3, <2>1, <2>2, TablesStand DEF StoreError, Inv
  <1>4. ASSUME NEW a \in Attempt, Torn(a) PROVE Inv'
    <2> DEFINE w == att[a].by
    <2>1. PICK table \in Inserted(a) :
            open' = [open EXCEPT ![w] = [state |-> "open", table |-> table]]
      BY <1>4 DEF Torn
    <2>2. /\ table \in SUBSET Attempt
          /\ a \in table
          /\ \A b \in table \ {a} : att[b].ph \notin {"new", "waiting"}
          /\ Kept(table)
      BY <1>4, <2>1, InsertedIsKept DEF Torn
    <2>3. /\ w \in Worker /\ att[a].ph = "waiting" /\ now' = now /\ rows' = rows
          /\ open'[w] = [state |-> "open", table |-> table]
          /\ \A v \in Worker \ {w} : open'[v] = open[v] /\ open[v] = NoTransaction
      BY <1>4, <2>1 DEF Torn, MayWrite, Inv, Typed
    <2>4. Typed'
      BY <1>4, <2>1, <2>2, <2>3 DEF Torn, Inv, Typed, Phase, Transaction
    <2>5. Timed'
      BY <1>4 DEF Torn, Inv, Typed, Timed
    <2>6. /\ att'[a].ph = "unavailable"
          /\ \A b \in Attempt : b # a => att'[b] = att[b]
      BY <1>4 DEF Torn, Inv, Typed
    <2>7. Answered(rows)' /\ Kept(rows)'
      <3>1. \A b \in Attempt : Moves(b)
        BY <2>3, <2>6 DEF Moves
      <3> QED
        BY <2>3, <3>1, TableStands DEF Inv, Typed, Answered, Kept
    <2>8. (\A b \in table : att'[b].ph \notin {"new", "waiting"})
          /\ \A b \in Attempt : att'[b].ph = "counted" =>
               b \in table \/ att'[b].ts + Window + PruneSlack < now'
      BY <2>2, <2>3, <2>6 DEF Kept
    <2>9. \A v \in Worker : open'[v] # NoTransaction =>
            Answered(open[v].table)' /\ Kept(open[v].table)'
      BY <2>3, <2>8 DEF Answered, Kept
    <2>10. OneWriter'
      BY <2>3 DEF OneWriter
    <2> QED
      BY <2>4, <2>5, <2>7, <2>9, <2>10 DEF Inv
  <1>5. ASSUME NEW w \in Worker, CommitElsewhere(w) PROVE Inv'
    <2>1. open[w].table \in SUBSET Attempt
      BY <1>5 DEF CommitElsewhere, Inv, Typed, Transaction
    <2>2. \A v \in Worker : open'[v] = NoTransaction
      BY <1>5 DEF CommitElsewhere, Inv, Typed, OneWriter
    <2>3. Typed' /\ Timed' /\ OneWriter'
      BY <1>5, <2>1, <2>2 DEF CommitElsewhere, Inv, Typed, Timed, OneWriter
    <2>4. Answered(rows)' /\ Kept(rows)'
      BY <1>5 DEF CommitElsewhere, Inv, Answered, Kept
    <2> QED
      BY <2>2, <2>3, <2>4 DEF Inv
  <1>6. ASSUME NEW w \in Worker, Die(w) PROVE Inv'
    <2>1. Typed' /\ Timed' /\ OneWriter'
      BY <1>6 DEF Die, Inv, Typed, Phase, Timed, OneWriter
    <2>2. \A b \in Attempt : Moves(b)
      BY <1>6 DEF Die, Inv, Typed, Moves
    <2>3. Answered(rows)' /\ Kept(rows)'
      BY <1>6, <2>2, TableStands DEF Die, Inv, Typed, Answered, Kept
    <2>4. ASSUME NEW v \in Worker, open'[v] # NoTransaction
          PROVE  Answered(open[v].table)' /\ Kept(open[v].table)'
      <3>1. open'[v] = open[v] /\ open[v].table \in SUBSET Attempt
        BY <1>6, <2>4 DEF Die, Inv, Typed, Transaction
      <3> QED
        BY <1>6, <2>2, <2>4, <3>1, TableStands DEF Die, Inv, Answered, Kept
    <2> QED
      BY <2>1, <2>3, <2>4 DEF Inv
  <1>7. CASE Tick
    <2>1. Typed' /\ Timed' /\ OneWriter'
      BY <1>7 DEF Tick, Inv, Typed, Timed, OneWriter
    <2>2. ASSUME NEW b \in Attempt, att[b].ts + Window + PruneSlack < now
          PROVE  att[b].ts + Window + PruneSlack < now'
      BY <1>7, <2>2 DEF Tick, Inv, Typed
    <2>3. Answered(rows)' /\ Kept(rows)'
      BY <1>7, <2>2 DEF Tick, Inv, Answered, Kept
    <2>4. ASSUME NEW w \in Worker, open'[w] # NoTransaction
          PROVE  Answered(open[w].table)' /\ Kept(open[w].table)'
      BY <1>7, <2>2, <2>4 DEF Tick, Inv, Answered, Kept
    <2> QED
      BY <2>1, <2>3, <2>4 DEF Inv
  <1>8. CASE UNCHANGED vars
    BY <1>8 DEF vars, Inv, Typed, Timed, OneWriter, Answered, Kept
  <1> QED
    BY <1>1, <1>2, <1>3, <1>4, <1>5, <1>6, <1>7, <1>8 DEF Next

LEMMA Invariance == Spec => []Inv
  BY InvInit, InvStep, PTL DEF Spec

-----------------------------------------------------------------------------
(* The limit.                                                              *)

\* A verdict that lets a prompt attempt pass has counted all others that
\* passed in any window the attempt is in.
LEMMA RecordWithinLimit ==
  ASSUME Inv, NEW a \in Attempt, Record(a), att'[a].ph = "counted",
         now - att[a].ts <= PruneSlack + 1,
         NEW t \in 0..MaxTime, att[a].ts \in t..(t + Window - 1)
  PROVE  Cardinality(Passed(From[a], t, t + Window - 1)') <= Limit[From[a]]
  <1> USE AuthLimiterAssumption
  <1>1. PICK table \in Inserted(a) :
          rows' = table /\ att' = [att EXCEPT ![a].ph = Verdict(table, a)]
    BY DEF Record
  <1>2. table \in SUBSET Attempt /\ a \in table /\ Kept(table)
    BY <1>1, InsertedIsKept DEF Record
  <1>3. /\ \A b \in Attempt : b # a => att'[b] = att[b]
        /\ att'[a].ph = Verdict(table, a) /\ att'[a].ts = att[a].ts
        /\ \A b \in Attempt : att'[b].ts \in Int /\ att[b].ts \in Int
    BY <1>1 DEF Inv, Typed
  <1> DEFINE after == Passed(From[a], t, t + Window - 1)'
  <1>4. Cardinality(Counted(table, a)) <= Limit[From[a]]
    BY <1>3 DEF Verdict
  <1>5. ASSUME NEW b \in after PROVE b \in Counted(table, a)
    <2>1. /\ b \in Attempt /\ From[b] = From[a] /\ att[b].ts \in t..(t + Window - 1)
          /\ b = a \/ att[b].ph = "counted"
      BY <1>3, <1>5 DEF Passed
    <2>2. att[b].ts >= att[a].ts - Window + 1
      BY <1>3, <2>1
    <2>3. now \in Int
      BY DEF Inv, Typed
    <2>4. ~(att[b].ts + Window + PruneSlack < now)
      BY <1>3, <2>1, <2>2, <2>3
    <2>5. b \in table
      BY <1>2, <2>1, <2>4 DEF Kept
    <2> QED
      BY <2>1, <2>2, <2>5 DEF Counted
  <1>6. IsFiniteSet(Counted(table, a))
    BY <1>2, FS_Subset DEF Counted
  <1>7. Cardinality(after) <= Cardinality(Counted(table, a)) /\ IsFiniteSet(after)
    BY <1>5, <1>6, FS_Subset
  <1> QED
    BY <1>4, <1>6, <1>7, FS_CardinalityType

\* Nothing else lets an attempt pass.
LEMMA OnlyRecordPasses ==
  ASSUME Inv, [Next]_vars, NEW a \in Attempt,
         att[a].ph = "waiting", att'[a].ph = "counted"
  PROVE  Record(a)
  <1>1. ASSUME NEW b \in Attempt, Arrive(b) \/ StoreError(b) \/ Torn(b) PROVE FALSE
    BY <1>1 DEF Arrive, StoreError, Torn, Inv, Typed
  <1>2. ASSUME NEW b \in Attempt, Record(b) PROVE Record(a)
    BY <1>2 DEF Record, Inv, Typed
  <1>3. ASSUME NEW w \in Worker, CommitElsewhere(w) \/ Die(w) PROVE FALSE
    BY <1>3 DEF CommitElsewhere, Die, Inv, Typed
  <1>4. CASE Tick
    BY <1>4 DEF Tick
  <1>5. CASE UNCHANGED vars
    BY <1>5 DEF vars
  <1> QED
    BY <1>1, <1>2, <1>3, <1>4, <1>5 DEF Next

\* The type invariant of the limiter (TypeOK): an attempt whose row was
\* written, be it in a transaction that is still open, has its answer.
THEOREM LimiterTypeOK == Spec => []TypeOK
  <1>1. Inv => TypeOK
    <2> SUFFICES ASSUME Inv PROVE TypeOK
      OBVIOUS
    <2>1. \A w \in Worker : Answered(Seen(w)) /\ Answered(rows)
      BY SeenIsKept DEF Inv
    <2> QED
      BY <2>1 DEF TypeOK, Inv, Typed, Answered
  <1> QED
    BY <1>1, Invariance, PTL

\* An attempt that was held up for no longer than the slack of the pruning
\* passes only if its windows of _RATE_LIMIT_WINDOW_SECONDS hold no more than
\* the limit with it (WithinLimit), for any number of workers and attempts,
\* and however long others were held up.
THEOREM LimitKept == Spec => WithinLimit
  <1>1. ASSUME Inv, [Next]_vars, NEW a \in Attempt,
               att[a].ph = "waiting", att'[a].ph = "counted",
               now - att[a].ts <= PruneSlack + 1,
               NEW t \in 0..MaxTime, att[a].ts \in t..(t + Window - 1)
        PROVE  Cardinality(Passed(From[a], t, t + Window - 1)') <= Limit[From[a]]
    BY <1>1, OnlyRecordPasses, RecordWithinLimit
  <1>2. Inv /\ [Next]_vars =>
          [\A a \in Attempt :
             /\ att[a].ph = "waiting" /\ att'[a].ph = "counted"
             /\ now - att[a].ts <= PruneSlack + 1
             => \A t \in 0..MaxTime : att[a].ts \in t..(t + Window - 1) =>
                  Cardinality(Passed(From[a], t, t + Window - 1)') <= Limit[From[a]]]_vars
    BY <1>1
  <1> QED
    BY <1>2, Invariance, PTL DEF Spec, WithinLimit
=============================================================================
