--------------------------- MODULE KeyService_proofs ---------------------------
(***************************************************************************)
(* Proofs about KeyService for every set of requests, threads and          *)
(* sessions, every scope, limit and duration, every tolerance, slack and   *)
(* skew of the clocks, and waits of any length.                            *)
(***************************************************************************)
EXTENDS KeyService, FiniteSetTheorems, TLAPS

-----------------------------------------------------------------------------
(* Type correctness.                                                       *)

\* The constants of the clock are numbers, and None is below every time.
LEMMA Numbers ==
  /\ Tolerance \in Nat /\ PruneSlack \in Nat /\ Skew \in Nat /\ MaxTime \in Nat
  /\ None \in Int /\ None < 0 /\ None < -Skew
BY KeyServiceAssumption DEF None

\* The UPDATE that expires sessions keeps the type of the table.
LEMMA RefreshedType ==
  ASSUME TypeOK
  PROVE  Refreshed \in [Session -> Row]
<1>1. ASSUME NEW s \in Session PROVE [row[s] EXCEPT !.st = "expired"] \in Row
  BY DEF TypeOK, Row, Status
<1> QED
  BY <1>1 DEF Refreshed, TypeOK

\* Pruning keeps the type of the table of nonces.
LEMMA PrunedType ==
  ASSUME NEW rows \in [Request -> Time \cup {None}], NEW t
  PROVE  Pruned(rows, t) \in [Request -> Time \cup {None}]
BY DEF Pruned

\* Setting a thread's record to a call record keeps call well typed.
LEMMA CallStep ==
  ASSUME TypeOK, NEW th \in Thread, NEW k \in Call, call' = [call EXCEPT ![th] = k]
  PROVE  call' \in [Thread -> Call]
BY DEF TypeOK

LEMMA IdleCall == Idle \in Call
BY DEF Call

\* Every step keeps the types.
LEMMA TypeStep == TypeOK /\ [Next]_vars => TypeOK'
<1> SUFFICES ASSUME TypeOK, [Next]_vars PROVE TypeOK'
  OBVIOUS
<1>1. CASE UNCHANGED vars
  BY <1>1 DEF vars, historyVars, TypeOK
<1>2. CASE Tick
  BY <1>2, Numbers DEF Tick, historyVars, TypeOK, Time
<1>3. ASSUME NEW r \in Request, Sign(r) PROVE TypeOK'
  <2>1. PICK t \in (now - Skew)..(now + Skew) : stamp' = [stamp EXCEPT ![r] = t]
    BY <1>3 DEF Sign
  <2>2. t \in -Skew..(MaxTime + Skew)
    BY Numbers DEF TypeOK, Time
  <2>3. stamp' \in [Request -> (-Skew..(MaxTime + Skew)) \cup {None}]
    BY <2>1, <2>2 DEF TypeOK
  <2> QED
    BY <1>3, <2>3 DEF Sign, historyVars, TypeOK
<1>4. ASSUME NEW th \in Thread, NEW r \in Request, Verify(th, r) PROVE TypeOK'
  <2> DEFINE k == [ph |-> "verified", req |-> r,
                   barred |-> {s \in Session : Ended(s)}, at |-> now]
  <2>1. k \in Call
    BY DEF Call, TypeOK
  <2>2. call' = [call EXCEPT ![th] = k]
    BY <1>4 DEF Verify
  <2>3. call' \in [Thread -> Call]
    BY <2>1, <2>2, CallStep
  <2> QED
    BY <1>4, <2>3 DEF Verify, historyVars, TypeOK
<1>5. ASSUME NEW th \in Thread,
             \/ NonceReused(th) \/ ServeUnlocked(th) \/ Unmatched(th)
             \/ KeyDenied(th) \/ LimitDenied(th) \/ Die(th)
      PROVE  TypeOK'
  <2>1. /\ call' = [call EXCEPT ![th] = Idle]
        /\ UNCHANGED <<now, stamp, nonces, row, accepted, served>>
    BY <1>5 DEF NonceReused, ServeUnlocked, Unmatched, KeyDenied, LimitDenied, Die,
                historyVars
  <2>2. call' \in [Thread -> Call]
    BY <2>1, CallStep, IdleCall
  <2> QED
    BY <2>1, <2>2 DEF TypeOK
<1>6. ASSUME NEW th \in Thread, NonceRecorded(th) PROVE TypeOK'
  <2> DEFINE c == call[th]
             k == [ph |-> "fresh", req |-> c.req, barred |-> c.barred]
  <2>1. c \in Call /\ c.ph = "verified"
    BY <1>6 DEF NonceRecorded, TypeOK
  <2>2. c.req \in Request /\ c.barred \in SUBSET Session /\ c.at \in Time
    BY <2>1 DEF Call, Idle
  <2>3. k \in Call
    BY <2>2 DEF Call
  <2>4. call' = [call EXCEPT ![th] = k]
    BY <1>6 DEF NonceRecorded
  <2>5. call' \in [Thread -> Call]
    BY <2>3, <2>4, CallStep
  <2>6. PICK t \in c.at..now :
          nonces' \in {[nonces EXCEPT ![c.req] = t], Pruned([nonces EXCEPT ![c.req] = t], t)}
    BY <1>6 DEF NonceRecorded
  <2>7. t \in Time
    BY <2>2, <2>6, Numbers DEF TypeOK, Time
  <2>8. [nonces EXCEPT ![c.req] = t] \in [Request -> Time \cup {None}]
    BY <2>7 DEF TypeOK
  <2>9. nonces' \in [Request -> Time \cup {None}]
    <3> DEFINE rows == [nonces EXCEPT ![c.req] = t]
    <3>1. rows \in [Request -> Time \cup {None}]
      BY <2>8
    <3>2. Pruned(rows, t) \in [Request -> Time \cup {None}]
      BY <3>1, PrunedType
    <3> QED
      BY <2>6, <3>1, <3>2
  <2>10. accepted' \subseteq Request
    BY <1>6, <2>2 DEF NonceRecorded, TypeOK
  <2> QED
    BY <1>6, <2>5, <2>9, <2>10 DEF NonceRecorded, TypeOK
<1>7. ASSUME NEW th \in Thread, Match(th) PROVE TypeOK'
  <2> DEFINE c == call[th]
  <2>1. PICK s \in Session : call' = [call EXCEPT ![th] =
               [ph |-> "matched", req |-> c.req, barred |-> c.barred, session |-> s]]
    BY <1>7 DEF Match
  <2>2. c \in Call /\ c.ph = "refreshed"
    BY <1>7 DEF Match, TypeOK
  <2>3. c.req \in Request /\ c.barred \in SUBSET Session
    BY <2>2 DEF Call, Idle
  <2>4. [ph |-> "matched", req |-> c.req, barred |-> c.barred, session |-> s] \in Call
    BY <2>3 DEF Call
  <2>5. call' \in [Thread -> Call]
    BY <2>1, <2>4, CallStep
  <2> QED
    BY <1>7, <2>5 DEF Match, historyVars, TypeOK
<1>8. ASSUME NEW th \in Thread, Refresh(th) \/ GrantUnlimited(th) PROVE TypeOK'
  <2> DEFINE c == call[th]
             k == [c EXCEPT !.ph = IF Refresh(th) THEN "refreshed" ELSE "granted"]
  <2>1. c \in Call /\ c.ph = IF Refresh(th) THEN "fresh" ELSE "matched"
    BY <1>8 DEF GrantUnlimited, Refresh, TypeOK
  <2>2. k \in Call
    BY <2>1 DEF Call, Idle
  <2>3. call' = [call EXCEPT ![th] = k]
    <3>1. CASE Refresh(th)
      BY <3>1 DEF Refresh, TypeOK
    <3>2. CASE ~Refresh(th)
      BY <1>8, <3>2 DEF GrantUnlimited, TypeOK
    <3> QED
      BY <3>1, <3>2
  <2>4. call' \in [Thread -> Call]
    BY <2>2, <2>3, CallStep
  <2> QED
    BY <1>8, <2>4, RefreshedType DEF Refresh, GrantUnlimited, historyVars, TypeOK
<1>12. ASSUME NEW th \in Thread, Recount(th) PROVE TypeOK'
  <2> DEFINE c == call[th]
             k == [ph |-> "counting", req |-> c.req, barred |-> c.barred,
                   session |-> c.session, at |-> now]
  <2>1. c \in Call /\ c.ph = "matched" /\ now \in Time
    BY <1>12 DEF Recount, TypeOK
  <2>2. k \in Call
    BY <2>1 DEF Call, Idle
  <2>3. call' = [call EXCEPT ![th] = k]
    BY <1>12 DEF Recount
  <2>4. call' \in [Thread -> Call]
    BY <2>2, <2>3, CallStep
  <2> QED
    BY <1>12, <2>4, RefreshedType DEF Recount, historyVars, TypeOK
<1>13. ASSUME NEW th \in Thread, ConsumeQuery(th) PROVE TypeOK'
  <2> DEFINE c == call[th]
  <2>1. c \in Call /\ c.ph = "counting"
    BY <1>13 DEF ConsumeQuery, TypeOK
  <2>2. Granted(c) \in Call /\ c.session \in Session
    BY <2>1 DEF Granted, Call, Idle
  <2>3. call' = [call EXCEPT ![th] = Granted(c)]
    BY <1>13 DEF ConsumeQuery
  <2>4. call' \in [Thread -> Call]
    BY <2>2, <2>3, CallStep
  <2>5. [row[c.session] EXCEPT !.used = @ + 1] \in Row
    BY <2>2 DEF TypeOK, Row
  <2>6. row' \in [Session -> Row]
    BY <1>13, <2>2, <2>5 DEF ConsumeQuery, TypeOK
  <2> QED
    BY <1>13, <2>4, <2>6 DEF ConsumeQuery, historyVars, TypeOK
<1>9. ASSUME NEW th \in Thread, Answer(th) PROVE TypeOK'
  <2>1. call' \in [Thread -> Call]
    BY <1>9, CallStep, IdleCall DEF Answer
  <2>2. call[th] \in Call /\ call[th].ph = "granted"
    BY <1>9 DEF Answer, TypeOK
  <2>3. call[th].session \in Session
    BY <2>2 DEF Call, Idle
  <2>4. served' \in [Session -> Nat]
    BY <1>9, <2>3 DEF Answer, TypeOK
  <2> QED
    BY <1>9, <2>1, <2>4 DEF Answer, TypeOK
<1>10. ASSUME NEW s \in Session, OpenSession(s) PROVE TypeOK'
  <2>1. PICK t \in Time : row' = [row EXCEPT ![s] = [st |-> "active",
                                    expires |-> t + Ttl[s], used |-> 0]]
    BY <1>10 DEF OpenSession
  <2>2. t + Ttl[s] \in Nat
    BY KeyServiceAssumption, Numbers DEF Time
  <2>3. [st |-> "active", expires |-> t + Ttl[s], used |-> 0] \in Row
    BY <2>2 DEF Row, Status
  <2>4. row' \in [Session -> Row]
    BY <2>1, <2>3 DEF TypeOK
  <2> QED
    BY <1>10, <2>4 DEF OpenSession, historyVars, TypeOK
<1>11. ASSUME NEW s \in Session, CloseSession(s) PROVE TypeOK'
  <2>1. [row[s] EXCEPT !.st = "closed"] \in Row
    BY DEF TypeOK, Row, Status
  <2>2. row' \in [Session -> Row]
    BY <1>11, <2>1 DEF CloseSession, TypeOK
  <2> QED
    BY <1>11, <2>2 DEF CloseSession, historyVars, TypeOK
<1> QED
  BY <1>1, <1>2, <1>3, <1>4, <1>5, <1>6, <1>7, <1>8, <1>9, <1>10, <1>11, <1>12, <1>13
     DEF Next, GetKey

\* The initial state has the types.
LEMMA TypeInit == Init => TypeOK
BY Numbers, IdleCall DEF Init, TypeOK, Time, Row, Status

\* Every column, call record and history variable keeps its type.
THEOREM KeyTypeOK == Spec => []TypeOK
<1>1. Init => TypeOK
  BY TypeInit
<1>2. TypeOK /\ [Next]_vars => TypeOK'
  BY TypeStep
<1> QED
  BY <1>1, <1>2, PTL DEF Spec

-----------------------------------------------------------------------------
(* A nonce that is accepted again was held up.                             *)

\* A nonce that was accepted and is no longer in the table was pruned, which
\* takes a slack beyond the time at which its request was last good.
PrunedLong(r) ==
  nonces[r] = None => stamp[r] # None /\ stamp[r] + Tolerance + PruneSlack - Skew < now

\* A thread about to record a nonce found its request in time.
InTime(th) ==
  LET k == call[th] IN
  /\ stamp[k.req] # None
  /\ stamp[k.req] <= k.at + Skew
  /\ k.at <= stamp[k.req] + Tolerance

NonceInv ==
  /\ \A r \in Request : stamp[r] # None => stamp[r] <= now + Skew
  /\ \A r \in Request : nonces[r] # None => stamp[r] # None /\ stamp[r] <= nonces[r] + Skew
  /\ \A th \in Thread : call[th].ph = "verified" => InTime(th)
  /\ \A r \in accepted : PrunedLong(r)

\* A call that goes on, or ends, without touching the nonces keeps NonceInv.
LEMMA NonceKept ==
  ASSUME NonceInv, NEW th \in Thread, NEW k, k.ph # "verified", TypeOK,
         call' = [call EXCEPT ![th] = k],
         UNCHANGED <<now, stamp, nonces, accepted>>
  PROVE  NonceInv'
<1>1. \A u \in Thread : call'[u].ph = "verified" => call'[u] = call[u]
  BY DEF TypeOK
<1> QED
  BY <1>1 DEF NonceInv, InTime, PrunedLong

\* A prune removes only nonces of requests whose time has long been over.
LEMMA PruneSpares ==
  ASSUME TypeOK, NonceInv, NEW r \in Request, nonces[r] # None,
         NEW t \in Time, t <= now, nonces[r] < t - Tolerance - PruneSlack
  PROVE  stamp[r] # None /\ stamp[r] + Tolerance + PruneSlack - Skew < now
<1>1. /\ stamp[r] # None /\ stamp[r] <= nonces[r] + Skew
      /\ stamp[r] \in Int /\ nonces[r] \in Int /\ now \in Int
  BY Numbers DEF NonceInv, TypeOK, Time
<1> QED
  BY <1>1, Numbers DEF Time

\* Every step keeps NonceInv.
LEMMA NonceStep == TypeOK /\ NonceInv /\ [Next]_vars => NonceInv'
<1> SUFFICES ASSUME TypeOK, NonceInv, [Next]_vars PROVE NonceInv'
  OBVIOUS
<1>1. ASSUME UNCHANGED <<now, stamp, nonces, call, accepted>> PROVE NonceInv'
  BY <1>1 DEF NonceInv, InTime, PrunedLong
<1>2. CASE Tick
  <2>1. now' = now + 1 /\ UNCHANGED <<stamp, nonces, call, accepted>>
    BY <1>2 DEF Tick, historyVars
  <2>2. now \in Int /\ \A r \in Request : stamp[r] \in Int
    BY Numbers DEF TypeOK, Time
  <2>3. \A r \in Request : stamp'[r] # None => stamp'[r] <= now' + Skew
    BY <2>1, <2>2, Numbers DEF NonceInv
  <2>4. ASSUME NEW r \in accepted PROVE PrunedLong(r)'
    <3>1. r \in Request
      BY <2>4 DEF TypeOK
    <3> QED
      BY <2>1, <2>2, <2>4, <3>1, Numbers DEF NonceInv, PrunedLong
  <2> QED
    BY <2>1, <2>3, <2>4 DEF NonceInv, InTime
<1>3. ASSUME NEW r \in Request, Sign(r) PROVE NonceInv'
  <2>1. PICK t \in (now - Skew)..(now + Skew) : stamp' = [stamp EXCEPT ![r] = t]
    BY <1>3 DEF Sign
  <2>2. /\ stamp[r] = None
        /\ UNCHANGED <<now, nonces, call, accepted>>
    BY <1>3 DEF Sign, historyVars
  <2>3. t \in Int /\ t <= now + Skew
    BY Numbers DEF TypeOK, Time
  <2>4. \A q \in Request : stamp[q] # None => stamp'[q] = stamp[q]
    BY <2>1, <2>2 DEF TypeOK
  <2>5. \A q \in Request : stamp'[q] # None => stamp'[q] <= now' + Skew
    BY <2>1, <2>2, <2>3 DEF NonceInv, TypeOK
  <2>6. ASSUME NEW th \in Thread, call[th].ph = "verified" PROVE InTime(th)'
    <3>1. call[th].req \in Request
      BY <2>6 DEF TypeOK, Call, Idle
    <3> QED
      BY <2>2, <2>4, <2>6, <3>1 DEF NonceInv, InTime
  <2>7. ASSUME NEW q \in accepted PROVE PrunedLong(q)'
    <3>1. q \in Request
      BY <2>7 DEF TypeOK
    <3> QED
      BY <2>2, <2>4, <2>7, <3>1 DEF NonceInv, PrunedLong
  <2> QED
    BY <2>2, <2>4, <2>5, <2>6, <2>7 DEF NonceInv
<1>4. ASSUME NEW th \in Thread, NEW r \in Request, Verify(th, r) PROVE NonceInv'
  <2>1. /\ stamp[r] # None /\ WithinTolerance(r)
        /\ UNCHANGED <<now, stamp, nonces, accepted>>
        /\ call'[th].ph = "verified" /\ call'[th].req = r /\ call'[th].at = now
        /\ \A u \in Thread : u # th => call'[u] = call[u]
    BY <1>4 DEF Verify, historyVars, TypeOK
  <2>2. now \in Int /\ stamp[r] \in Int
    BY Numbers DEF TypeOK, Time
  <2>3. now <= stamp[r] + Tolerance /\ stamp[r] <= now + Skew
    BY <2>1, <2>2, Numbers DEF WithinTolerance, NonceInv
  <2>4. InTime(th)'
    BY <2>1, <2>2, <2>3, Numbers DEF InTime
  <2>5. \A u \in Thread : call'[u].ph = "verified" => InTime(u)'
    BY <2>1, <2>4 DEF NonceInv, InTime
  <2> QED
    BY <2>1, <2>5 DEF NonceInv, PrunedLong
<1>5. ASSUME NEW th \in Thread, NonceRecorded(th) PROVE NonceInv'
  <2> DEFINE c == call[th]
             r == c.req
  <2>1. c \in Call /\ c.ph = "verified"
    BY <1>5 DEF NonceRecorded, TypeOK
  <2>2. r \in Request /\ c.at \in Time
    BY <2>1 DEF Call, Idle
  <2>3. InTime(th)
    BY <2>1 DEF NonceInv
  <2>4. /\ accepted' = accepted \cup {r}
        /\ UNCHANGED <<now, stamp>>
        /\ call'[th].ph = "fresh"
        /\ \A u \in Thread : u # th => call'[u] = call[u]
    BY <1>5 DEF NonceRecorded, TypeOK
  <2>5. PICK t \in c.at..now :
          nonces' \in {[nonces EXCEPT ![r] = t], Pruned([nonces EXCEPT ![r] = t], t)}
    BY <1>5 DEF NonceRecorded
  <2>6. t \in Time /\ t # None /\ t <= now /\ c.at <= t
    BY <2>2, <2>5, Numbers DEF TypeOK, Time
  <2>7. nonces'[r] = t
    BY <2>2, <2>5, <2>6, Numbers DEF Pruned, TypeOK, Time
  <2>8. ASSUME NEW q \in Request, q # r
        PROVE  \/ nonces'[q] = nonces[q]
               \/ /\ nonces'[q] = None
                  /\ nonces[q] # None =>
                       stamp[q] # None /\ stamp[q] + Tolerance + PruneSlack - Skew < now
    <3>1. CASE nonces' = [nonces EXCEPT ![r] = t]
      BY <2>8, <3>1 DEF TypeOK
    <3>2. CASE nonces' = Pruned([nonces EXCEPT ![r] = t], t)
      <4>1. nonces'[q] = IF nonces[q] < t - Tolerance - PruneSlack THEN None ELSE nonces[q]
        BY <2>8, <3>2 DEF Pruned, TypeOK
      <4> QED
        BY <2>6, <4>1, PruneSpares
    <3> QED
      BY <2>5, <3>1, <3>2
  <2>9. stamp[r] # None /\ stamp[r] <= t + Skew
    <3>1. stamp[r] \in Int /\ c.at \in Int /\ t \in Int
      BY <2>2, <2>6, Numbers DEF TypeOK, Time
    <3> QED
      BY <2>3, <2>6, <3>1, Numbers DEF InTime
  <2>10. \A q \in Request : nonces'[q] # None =>
            stamp'[q] # None /\ stamp'[q] <= nonces'[q] + Skew
    BY <2>4, <2>7, <2>8, <2>9 DEF NonceInv
  <2>11. ASSUME NEW q \in accepted' PROVE PrunedLong(q)'
    <3>1. CASE q = r
      BY <2>6, <2>7, <3>1 DEF PrunedLong
    <3>2. CASE q # r
      <4>1. q \in accepted /\ q \in Request
        BY <2>4, <2>11, <3>2 DEF TypeOK
      <4> QED
        BY <2>4, <2>8, <3>2, <4>1 DEF NonceInv, PrunedLong
    <3> QED
      BY <3>1, <3>2
  <2>12. \A u \in Thread : call'[u].ph = "verified" => InTime(u)'
    BY <2>4 DEF NonceInv, InTime
  <2> QED
    BY <2>4, <2>10, <2>11, <2>12 DEF NonceInv
<1>6. ASSUME NEW th \in Thread,
             \/ NonceReused(th) \/ ServeUnlocked(th) \/ Unmatched(th) \/ KeyDenied(th)
             \/ LimitDenied(th) \/ Die(th) \/ Answer(th)
      PROVE  NonceInv'
  <2>1. call' = [call EXCEPT ![th] = Idle] /\ UNCHANGED <<now, stamp, nonces, accepted>>
    BY <1>6 DEF NonceReused, ServeUnlocked, Unmatched, KeyDenied, LimitDenied, Die, Answer,
                historyVars
  <2> QED
    BY <2>1, NonceKept DEF Idle
<1>7. ASSUME NEW th \in Thread, Match(th) PROVE NonceInv'
  <2>1. PICK s \in Session : call' = [call EXCEPT ![th] =
               [ph |-> "matched", req |-> call[th].req, barred |-> call[th].barred,
                session |-> s]]
    BY <1>7 DEF Match
  <2> QED
    BY <1>7, <2>1, NonceKept DEF Match, historyVars
<1>8. ASSUME NEW th \in Thread, Refresh(th) \/ GrantUnlimited(th) PROVE NonceInv'
  <2>1. PICK p \in {"refreshed", "granted"} : call' = [call EXCEPT ![th].ph = p]
    BY <1>8 DEF GrantUnlimited, Refresh
  <2> DEFINE k == [call[th] EXCEPT !.ph = p]
  <2>2. call[th] \in Call /\ call[th].ph \in {"fresh", "matched"}
    BY <1>8 DEF GrantUnlimited, Refresh, TypeOK
  <2>3. k.ph # "verified"
    BY <2>2 DEF Call, Idle
  <2>4. call' = [call EXCEPT ![th] = k] /\ UNCHANGED <<now, stamp, nonces, accepted>>
    BY <1>8, <2>1 DEF GrantUnlimited, Refresh, historyVars, TypeOK
  <2> QED
    BY <2>3, <2>4, NonceKept
<1>9. ASSUME NEW th \in Thread, Recount(th) \/ ConsumeQuery(th) PROVE NonceInv'
  <2>1. PICK k : k.ph # "verified" /\ call' = [call EXCEPT ![th] = k]
    <3>1. CASE Recount(th)
      BY <3>1 DEF Recount
    <3>2. CASE ConsumeQuery(th)
      BY <3>2 DEF ConsumeQuery, Granted
    <3> QED
      BY <1>9, <3>1, <3>2
  <2>2. UNCHANGED <<now, stamp, nonces, accepted>>
    BY <1>9 DEF Recount, ConsumeQuery, historyVars
  <2> QED
    BY <2>1, <2>2, NonceKept
<1> QED
  BY <1>1, <1>2, <1>3, <1>4, <1>5, <1>6, <1>7, <1>8, <1>9
     DEF Next, GetKey, OpenSession, CloseSession, vars, historyVars

\* A step of one thread leaves the others' calls alone.
LEMMA OthersKept ==
  ASSUME TypeOK, [Next]_vars, NEW th \in Thread, ~GetKey(th)
  PROVE  call'[th] = call[th]
<1>1. ASSUME NEW u \in Thread, GetKey(u), u # th PROVE call'[th] = call[th]
  BY <1>1 DEF GetKey, Verify, NonceReused, NonceRecorded, ServeUnlocked, Refresh, Unmatched,
     Match, KeyDenied, GrantUnlimited, Recount, ConsumeQuery, LimitDenied, Answer, Die, TypeOK
<1> QED
  BY <1>1 DEF Next, Tick, Sign, OpenSession, CloseSession, vars

\* The step from "verified" to "fresh" is the recording of the nonce.
LEMMA OnlyRecorded ==
  ASSUME TypeOK, [Next]_vars, NEW th \in Thread,
         call[th].ph = "verified", call'[th].ph = "fresh"
  PROVE  NonceRecorded(th)
<1>1. GetKey(th)
  BY OthersKept
<1>2. ~(\E r \in Request : Verify(th, r))
  BY DEF Verify, Idle
<1>3. ~(NonceReused(th) \/ Die(th))
  BY DEF NonceReused, Die, TypeOK, Idle
<1>4. ~(\/ ServeUnlocked(th) \/ Refresh(th) \/ Unmatched(th) \/ Match(th) \/ KeyDenied(th)
        \/ GrantUnlimited(th) \/ Recount(th) \/ ConsumeQuery(th) \/ LimitDenied(th)
        \/ Answer(th))
  BY DEF ServeUnlocked, Refresh, Unmatched, Match, KeyDenied, GrantUnlimited, Recount,
         ConsumeQuery, LimitDenied, Answer
<1> QED
  BY <1>1, <1>2, <1>3, <1>4 DEF GetKey

\* A delivery of a request that was accepted before passes the nonce check
\* only if its thread was held up for longer than the slack covers.
THEOREM NonceRepeatsWaited == Spec => RepeatsWaited
<1>1. Init => TypeOK /\ NonceInv
  BY TypeInit DEF Init, NonceInv, Idle
<1>2. TypeOK /\ NonceInv /\ [Next]_vars => (TypeOK /\ NonceInv)'
  BY TypeStep, NonceStep
<1>3. ASSUME TypeOK, NonceInv, [Next]_vars, NEW th \in Thread,
             call[th].ph = "verified", call'[th].ph = "fresh", call[th].req \in accepted
      PROVE  now - call[th].at > PruneSlack - Skew
  <2> DEFINE r == call[th].req
  <2>1. NonceRecorded(th)
    BY <1>3, OnlyRecorded
  <2>2. nonces[r] = None
    BY <2>1 DEF NonceRecorded
  <2>3. /\ stamp[r] + Tolerance + PruneSlack - Skew < now
        /\ call[th].at <= stamp[r] + Tolerance
    BY <1>3, <2>2 DEF NonceInv, PrunedLong, InTime
  <2>4. r \in Request /\ call[th].at \in Int /\ now \in Int
    BY <1>3, Numbers DEF TypeOK, Call, Idle, Time
  <2>5. stamp[r] \in Int
    <3>1. \A q \in Request : stamp[q] \in Int
      BY <1>3, Numbers DEF TypeOK, Time
    <3> QED
      BY <2>4, <3>1
  <2> HIDE DEF r
  <2> QED
    BY <2>3, <2>4, <2>5, Numbers DEF r
<1>4. TypeOK /\ NonceInv /\ [Next]_vars =>
        [\A th \in Thread :
           /\ call[th].ph = "verified" /\ call'[th].ph = "fresh"
           /\ call[th].req \in accepted
           => now - call[th].at > PruneSlack - Skew]_vars
  BY <1>3
<1> QED
  BY <1>1, <1>2, <1>4, PTL DEF Spec, RepeatsWaited
-----------------------------------------------------------------------------
(* A session that has ended stays so, and serves nothing.                  *)

\* A session that has ended never becomes active again.
LEMMA EndedStays ==
  ASSUME TypeOK, [Next]_vars, NEW s \in Session, Ended(s)
  PROVE  Ended(s)'
<1>1. now \in Int /\ row[s] \in Row /\ row[s].expires \in Int
  BY Numbers DEF TypeOK, Time, Row
<1>2. row[s].st # "none"
  BY DEF Ended, Overdue
<1>3. CASE row' = row /\ now' \in {now, now + 1}
  BY <1>1, <1>3 DEF Ended, Overdue
<1>4. CASE row' = Refreshed /\ now' = now
  BY <1>1, <1>4 DEF Ended, Overdue, Refreshed, TypeOK, Row
<1>5. CASE \E th \in Thread : ConsumeQuery(th)
  <2>1. PICK th \in Thread : ConsumeQuery(th)
    BY <1>5
  <2>2. row' = [row EXCEPT ![call[th].session].used = @ + 1] /\ now' = now
    BY <2>1 DEF ConsumeQuery
  <2>3. row'[s].st = row[s].st /\ row'[s].expires = row[s].expires
    BY <1>1, <2>2 DEF TypeOK, Row
  <2> QED
    BY <1>1, <2>2, <2>3 DEF Ended, Overdue
<1>6. CASE \E q \in Session : OpenSession(q)
  <2>1. row'[s] = row[s] /\ now' = now
    BY <1>2, <1>6 DEF OpenSession, TypeOK
  <2> QED
    BY <2>1 DEF Ended, Overdue
<1>7. CASE \E q \in Session : CloseSession(q)
  <2>1. (row'[s] = row[s] \/ row'[s].st = "closed") /\ now' = now
    BY <1>1, <1>7 DEF CloseSession, TypeOK, Row
  <2> QED
    BY <2>1 DEF Ended, Overdue
<1>8. CASE \E th \in Thread :
             \/ \E r \in Request : Verify(th, r)
             \/ NonceReused(th) \/ NonceRecorded(th) \/ ServeUnlocked(th)
             \/ Unmatched(th) \/ Match(th) \/ KeyDenied(th) \/ GrantUnlimited(th)
             \/ LimitDenied(th) \/ Answer(th) \/ Die(th)
  BY <1>3, <1>8 DEF Verify, NonceReused, NonceRecorded, ServeUnlocked, Unmatched, Match,
                    KeyDenied, GrantUnlimited, LimitDenied, Answer, Die
<1>9. CASE \E th \in Thread : Refresh(th) \/ Recount(th)
  BY <1>4, <1>9 DEF Refresh, Recount
<1>10. CASE Tick \/ (\E r \in Request : Sign(r)) \/ UNCHANGED vars
  BY <1>3, <1>10 DEF Tick, Sign, vars
<1> QED
  BY <1>5, <1>6, <1>7, <1>8, <1>9, <1>10 DEF Next, GetKey

\* The sessions that had ended when a request arrived have ended, the table
\* says so once the thread has refreshed it, and the session it was matched
\* with is not among them.
Barred(k) ==
  /\ k.ph # "idle" => \A s \in k.barred : s \in Session /\ Ended(s)
  /\ k.ph \in {"refreshed", "matched", "counting", "granted"} =>
       \A s \in k.barred : row[s].st \in {"expired", "closed"}
  /\ k.ph \in {"matched", "counting", "granted"} => k.session \notin k.barred

BarredInv == \A th \in Thread : Barred(call[th])

\* A session that the table says has ended keeps its row.
LEMMA EndedRowKept ==
  ASSUME TypeOK, [Next]_vars, NEW s \in Session, row[s].st \in {"expired", "closed"}
  PROVE  row'[s] = row[s]
<1>1. Refreshed[s] = row[s]
  BY DEF Refreshed, Overdue
<1>2. ASSUME NEW th \in Thread, ConsumeQuery(th) PROVE row'[s] = row[s]
  <2>1. call[th].session # s
    BY <1>2 DEF ConsumeQuery, HasQuery
  <2> QED
    BY <1>2, <2>1 DEF ConsumeQuery, TypeOK
<1>3. ASSUME NEW q \in Session, OpenSession(q) \/ CloseSession(q) PROVE row'[s] = row[s]
  BY <1>3 DEF OpenSession, CloseSession, TypeOK
<1>4. CASE \E th \in Thread : Refresh(th) \/ Recount(th)
  BY <1>1, <1>4 DEF Refresh, Recount
<1>5. CASE \E th \in Thread :
             \/ \E r \in Request : Verify(th, r)
             \/ NonceReused(th) \/ NonceRecorded(th) \/ ServeUnlocked(th)
             \/ Unmatched(th) \/ Match(th) \/ KeyDenied(th) \/ GrantUnlimited(th)
             \/ LimitDenied(th) \/ Answer(th) \/ Die(th)
  BY <1>5 DEF Verify, NonceReused, NonceRecorded, ServeUnlocked, Unmatched, Match,
              KeyDenied, GrantUnlimited, LimitDenied, Answer, Die
<1>6. CASE Tick \/ (\E r \in Request : Sign(r)) \/ UNCHANGED vars
  BY <1>6 DEF Tick, Sign, vars
<1> QED
  BY <1>2, <1>3, <1>4, <1>5, <1>6 DEF Next, GetKey

\* The session of a match is active, so that it has no row that has ended.
LEMMA BarredStep == TypeOK /\ BarredInv /\ [Next]_vars => BarredInv'
<1> SUFFICES ASSUME TypeOK, BarredInv, [Next]_vars PROVE BarredInv'
  OBVIOUS
<1> DEFINE After(k) ==
      /\ k.ph # "idle" => \A s \in k.barred : s \in Session /\ Ended(s)'
      /\ k.ph \in {"refreshed", "matched", "counting", "granted"} =>
           \A s \in k.barred : row'[s].st \in {"expired", "closed"}
      /\ k.ph \in {"matched", "counting", "granted"} => k.session \notin k.barred
<1>1. ASSUME NEW k, Barred(k) PROVE After(k)
  <2>1. \A s \in Session : Ended(s) => Ended(s)'
    BY EndedStays
  <2>2. \A s \in Session : row[s].st \in {"expired", "closed"} => row'[s] = row[s]
    BY EndedRowKept
  <2> QED
    BY <1>1, <2>1, <2>2 DEF Barred
<1>2. ASSUME NEW th \in Thread, NEW k, call' = [call EXCEPT ![th] = k], After(k)
      PROVE  BarredInv'
  <2>1. call'[th] = k /\ \A u \in Thread : u # th => call'[u] = call[u]
    BY <1>2 DEF TypeOK
  <2>2. \A u \in Thread : After(call[u])
    BY <1>1 DEF BarredInv
  <2>3. \A u \in Thread : After(call'[u])
    BY <1>2, <2>1, <2>2
  <2> QED
    BY <2>3 DEF BarredInv, Barred
<1>3. CASE call' = call
  <2>1. \A u \in Thread : After(call'[u])
    BY <1>1, <1>3 DEF BarredInv
  <2> QED
    BY <2>1 DEF BarredInv, Barred
<1> HIDE DEF After
<1>4. ASSUME NEW th \in Thread, NEW r \in Request, Verify(th, r) PROVE BarredInv'
  <2> DEFINE k == [ph |-> "verified", req |-> r,
                   barred |-> {s \in Session : Ended(s)}, at |-> now]
  <2>1. call' = [call EXCEPT ![th] = k]
    BY <1>4 DEF Verify
  <2>2. Barred(k)
    BY DEF Barred
  <2> HIDE DEF k
  <2> QED
    BY <1>1, <1>2, <2>1, <2>2
<1>5. ASSUME NEW th \in Thread, NonceRecorded(th) PROVE BarredInv'
  <2> DEFINE k == [ph |-> "fresh", req |-> call[th].req, barred |-> call[th].barred]
  <2>1. call[th].ph = "verified" /\ call' = [call EXCEPT ![th] = k]
    BY <1>5 DEF NonceRecorded
  <2>2. Barred(k)
    BY <2>1 DEF BarredInv, Barred
  <2> HIDE DEF k
  <2> QED
    BY <1>1, <1>2, <2>1, <2>2
<1>6. ASSUME NEW th \in Thread, Refresh(th) PROVE BarredInv'
  <2> DEFINE k == [call[th] EXCEPT !.ph = "refreshed"]
  <2>1. /\ call[th] \in Call /\ call[th].ph = "fresh" /\ row' = Refreshed
        /\ call' = [call EXCEPT ![th] = k]
    BY <1>6 DEF Refresh, TypeOK
  <2>2. k.ph = "refreshed" /\ k.barred = call[th].barred
    BY <2>1 DEF Call, Idle
  <2>3. \A s \in k.barred : s \in Session /\ Ended(s)
    BY <2>1, <2>2 DEF BarredInv, Barred
  <2>4. \A s \in k.barred : Ended(s)' /\ row'[s].st \in {"expired", "closed"}
    <3> SUFFICES ASSUME NEW s \in k.barred
                 PROVE  Ended(s)' /\ row'[s].st \in {"expired", "closed"}
      OBVIOUS
    <3>1. s \in Session /\ Ended(s) /\ row[s] \in Row
      BY <2>3 DEF TypeOK
    <3>2. Refreshed[s].st \in {"expired", "closed"}
      BY <3>1 DEF Refreshed, Ended, Overdue, Row
    <3> QED
      BY <2>1, <3>1, <3>2, EndedStays
  <2>5. After(k)
    BY <2>2, <2>3, <2>4 DEF After
  <2> HIDE DEF k
  <2> QED
    BY <1>2, <2>1, <2>5
<1>7. ASSUME NEW th \in Thread, Match(th) PROVE BarredInv'
  <2>1. PICK s \in Session :
          /\ Matching(call[th].req) = {s}
          /\ call' = [call EXCEPT ![th] =
               [ph |-> "matched", req |-> call[th].req, barred |-> call[th].barred,
                session |-> s]]
    BY <1>7 DEF Match
  <2> DEFINE k == [ph |-> "matched", req |-> call[th].req, barred |-> call[th].barred,
                   session |-> s]
  <2>2. call[th].ph = "refreshed" /\ row[s].st = "active"
    BY <1>7, <2>1 DEF Match, Matching
  <2>3. Barred(k)
    BY <2>2 DEF BarredInv, Barred
  <2> HIDE DEF k
  <2> QED
    BY <1>1, <1>2, <2>1, <2>3 DEF k
<1>8. ASSUME NEW th \in Thread, GrantUnlimited(th) PROVE BarredInv'
  <2> DEFINE k == [call[th] EXCEPT !.ph = "granted"]
  <2>1. /\ call[th] \in Call /\ call[th].ph = "matched"
        /\ call' = [call EXCEPT ![th] = k]
    BY <1>8 DEF GrantUnlimited, TypeOK
  <2>2. k.ph = "granted" /\ k.barred = call[th].barred /\ k.session = call[th].session
    BY <2>1 DEF Call, Idle
  <2>3. Barred(k)
    BY <2>1, <2>2 DEF BarredInv, Barred
  <2> HIDE DEF k
  <2> QED
    BY <1>1, <1>2, <2>1, <2>3
<1>9. ASSUME NEW th \in Thread, Recount(th) PROVE BarredInv'
  <2> DEFINE k == [ph |-> "counting", req |-> call[th].req, barred |-> call[th].barred,
                   session |-> call[th].session, at |-> now]
  <2>1. call[th].ph = "matched" /\ call' = [call EXCEPT ![th] = k]
    BY <1>9 DEF Recount
  <2>2. Barred(k)
    BY <2>1 DEF BarredInv, Barred
  <2> HIDE DEF k
  <2> QED
    BY <1>1, <1>2, <2>1, <2>2
<1>10. ASSUME NEW th \in Thread, ConsumeQuery(th) PROVE BarredInv'
  <2> DEFINE k == Granted(call[th])
  <2>1. call[th].ph = "counting" /\ call' = [call EXCEPT ![th] = k]
    BY <1>10 DEF ConsumeQuery
  <2>2. Barred(k)
    BY <2>1 DEF BarredInv, Barred, Granted
  <2> HIDE DEF k
  <2> QED
    BY <1>1, <1>2, <2>1, <2>2
<1>11. ASSUME NEW th \in Thread,
              \/ NonceReused(th) \/ ServeUnlocked(th) \/ Unmatched(th) \/ KeyDenied(th)
              \/ LimitDenied(th) \/ Die(th) \/ Answer(th)
       PROVE  BarredInv'
  <2>1. call' = [call EXCEPT ![th] = Idle]
    BY <1>11 DEF NonceReused, ServeUnlocked, Unmatched, KeyDenied, LimitDenied, Die, Answer
  <2>2. After(Idle)
    BY DEF After, Idle
  <2> QED
    BY <1>2, <2>1, <2>2
<1> QED
  BY <1>3, <1>4, <1>5, <1>6, <1>7, <1>8, <1>9, <1>10, <1>11
     DEF Next, GetKey, Tick, Sign, OpenSession, CloseSession, vars

\* A request that arrived after a session had ended is not answered under it.
THEOREM EndedSessionsServeNothing == Spec => []EndedServesNothing
<1>1. Init => TypeOK /\ BarredInv
  BY TypeInit DEF Init, BarredInv, Barred, Idle
<1>2. TypeOK /\ BarredInv /\ [Next]_vars => (TypeOK /\ BarredInv)'
  BY TypeStep, BarredStep
<1>3. BarredInv => EndedServesNothing
  BY DEF BarredInv, Barred, EndedServesNothing
<1> QED
  BY <1>1, <1>2, <1>3, PTL DEF Spec

\* Rows change only as the statements allow: an ended row stays, and a query
\* is counted on a row that says active and has not reached its limit.
LEMMA RowStep ==
  ASSUME TypeOK, [Next]_vars, NEW s \in Session
  PROVE  \/ row'[s].used = row[s].used /\ row'[s].st = row[s].st /\ row'[s] = row[s]
         \/ row[s].st = "active" /\ row'[s].used = row[s].used /\ row'[s].st # "none"
         \/ row[s].st = "none" /\ row'[s].used = 0 /\ row'[s].st = "active"
         \/ /\ row[s].st = "active" /\ row'[s].st = "active"
            /\ row[s].used < MaxQueries[s]
            /\ row'[s].used = row[s].used + 1 /\ row'[s].expires = row[s].expires
            /\ \E th \in Thread : ConsumeQuery(th) /\ call[th].session = s
<1> DEFINE Goal == \/ row'[s].used = row[s].used /\ row'[s].st = row[s].st /\ row'[s] = row[s]
                   \/ row[s].st = "active" /\ row'[s].used = row[s].used /\ row'[s].st # "none"
                   \/ row[s].st = "none" /\ row'[s].used = 0 /\ row'[s].st = "active"
                   \/ /\ row[s].st = "active" /\ row'[s].st = "active"
                      /\ row[s].used < MaxQueries[s]
                      /\ row'[s].used = row[s].used + 1 /\ row'[s].expires = row[s].expires
                      /\ \E th \in Thread : ConsumeQuery(th) /\ call[th].session = s
<1> SUFFICES Goal
  OBVIOUS
<1>1. row[s] \in Row /\ Refreshed \in [Session -> Row]
  BY RefreshedType DEF TypeOK
<1>2. Refreshed[s] = row[s] \/
        (Overdue(s) /\ row[s].st = "active" /\ Refreshed[s].used = row[s].used
         /\ Refreshed[s].st = "expired")
  BY <1>1 DEF Refreshed, Overdue, Row
<1>3. CASE row' = row
  BY <1>3
<1>4. CASE row' = Refreshed
  BY <1>2, <1>4
<1>5. ASSUME NEW th \in Thread, ConsumeQuery(th) PROVE Goal
  <2> DEFINE q == call[th].session
  <2>1. row' = [row EXCEPT ![q].used = @ + 1] /\ HasQuery(q)
    BY <1>5 DEF ConsumeQuery
  <2>2. CASE q = s
    <3>1. row[s].st = "active" /\ row[s].used < MaxQueries[s]
      BY <2>1, <2>2 DEF HasQuery
    <3>2. /\ row'[s].used = row[s].used + 1 /\ row'[s].st = "active"
          /\ row'[s].expires = row[s].expires
      BY <1>1, <2>1, <2>2, <3>1 DEF Row, TypeOK
    <3>3. \E u \in Thread : ConsumeQuery(u) /\ call[u].session = s
      BY <1>5, <2>2
    <3> QED
      BY <3>1, <3>2, <3>3
  <2>3. CASE q # s
    <3>1. row'[s] = row[s]
      BY <2>1, <2>3 DEF TypeOK
    <3> QED
      BY <3>1
  <2> QED
    BY <2>2, <2>3
<1>6. ASSUME NEW q \in Session, OpenSession(q) PROVE Goal
  <2>1. PICK t \in Time : row' = [row EXCEPT ![q] = [st |-> "active",
                                    expires |-> t + Ttl[q], used |-> 0]]
    BY <1>6 DEF OpenSession
  <2>2. CASE q = s
    <3>1. row[s].st = "none" /\ row'[s].used = 0 /\ row'[s].st = "active"
      BY <1>6, <2>1, <2>2 DEF OpenSession, TypeOK
    <3> QED
      BY <3>1
  <2>3. CASE q # s
    <3>1. row'[s] = row[s]
      BY <2>1, <2>3 DEF TypeOK
    <3> QED
      BY <3>1
  <2> QED
    BY <2>2, <2>3
<1>7. ASSUME NEW q \in Session, CloseSession(q) PROVE Goal
  <2>1. CASE q = s
    <3>1. row[s].st = "active" /\ row'[s].used = row[s].used /\ row'[s].st # "none"
      BY <1>1, <1>7, <2>1 DEF CloseSession, TypeOK, Row
    <3> QED
      BY <3>1
  <2>2. CASE q # s
    <3>1. row'[s] = row[s]
      BY <1>7, <2>2 DEF CloseSession, TypeOK
    <3> QED
      BY <3>1
  <2> QED
    BY <2>1, <2>2
<1>8. CASE \E th \in Thread :
             \/ \E r \in Request : Verify(th, r)
             \/ NonceReused(th) \/ NonceRecorded(th) \/ ServeUnlocked(th)
             \/ Unmatched(th) \/ Match(th) \/ KeyDenied(th) \/ GrantUnlimited(th)
             \/ LimitDenied(th) \/ Answer(th) \/ Die(th)
  BY <1>3, <1>8 DEF Verify, NonceReused, NonceRecorded, ServeUnlocked, Unmatched, Match,
                    KeyDenied, GrantUnlimited, LimitDenied, Answer, Die
<1>9. CASE \E th \in Thread : Refresh(th) \/ Recount(th)
  BY <1>4, <1>9 DEF Refresh, Recount
<1>10. CASE Tick \/ (\E r \in Request : Sign(r)) \/ UNCHANGED vars
  BY <1>3, <1>10 DEF Tick, Sign, vars
<1> HIDE DEF Goal
<1> QED
  BY <1>5, <1>6, <1>7, <1>8, <1>9, <1>10 DEF Next, GetKey

\* A call comes to a session by Match, keeps the session it was matched with,
\* and comes to count by Recount.
LEMMA CallMoves ==
  ASSUME TypeOK, [Next]_vars, NEW th \in Thread,
         call'[th].ph \in {"matched", "counting", "granted"}
  PROVE  \/ call'[th] = call[th] /\ ~GetKey(th)
         \/ /\ GetKey(th) /\ call[th].ph \in {"matched", "counting"}
            /\ call'[th].session = call[th].session
            /\ call'[th].ph = "counting" => Recount(th)
         \/ Match(th)
<1>1. CASE ~GetKey(th)
  BY <1>1, OthersKept
<1>2. ~(\/ \E r \in Request : Verify(th, r)
        \/ NonceReused(th) \/ NonceRecorded(th) \/ ServeUnlocked(th) \/ Unmatched(th)
        \/ KeyDenied(th) \/ LimitDenied(th) \/ Die(th) \/ Answer(th))
  <2>1. call'[th].ph \notin {"idle", "verified", "fresh"}
    OBVIOUS
  <2> QED
    BY <2>1 DEF Verify, NonceReused, NonceRecorded, ServeUnlocked, Unmatched, KeyDenied,
       LimitDenied, Answer, Die, TypeOK, Idle
<1>3. ~Refresh(th)
  <2> SUFFICES ASSUME Refresh(th) PROVE FALSE
    OBVIOUS
  <2>1. /\ call[th] \in Call /\ call[th].ph = "fresh"
        /\ call'[th] = [call[th] EXCEPT !.ph = "refreshed"]
    BY DEF Refresh, TypeOK
  <2> QED
    BY <2>1 DEF Call, Idle
<1>4. ASSUME GrantUnlimited(th)
      PROVE  /\ call[th].ph = "matched" /\ call'[th].ph = "granted"
             /\ call'[th].session = call[th].session
  <2>1. /\ call[th] \in Call /\ call[th].ph = "matched"
        /\ call'[th] = [call[th] EXCEPT !.ph = "granted"]
    BY <1>4 DEF GrantUnlimited, TypeOK
  <2> QED
    BY <2>1 DEF Call, Idle
<1>5. ASSUME Recount(th)
      PROVE  call[th].ph = "matched" /\ call'[th].session = call[th].session
  BY <1>5 DEF Recount, TypeOK
<1>6. ASSUME ConsumeQuery(th)
      PROVE  /\ call[th].ph = "counting" /\ call'[th].ph = "granted"
             /\ call'[th].session = call[th].session
  BY <1>6 DEF ConsumeQuery, Granted, TypeOK
<1> QED
  BY <1>1, <1>2, <1>3, <1>4, <1>5, <1>6 DEF GetKey

\* A call has a session that was opened, and one that counts found it in time,
\* as long as the table says that it is active.
CountInv ==
  \A th \in Thread :
    /\ call[th].ph \in {"matched", "counting", "granted"} =>
         row[call[th].session].st # "none"
    /\ call[th].ph = "counting" /\ row[call[th].session].st = "active" =>
         call[th].at <= row[call[th].session].expires

\* The time of a session does not change once it is open.
LEMMA OpenKept ==
  ASSUME TypeOK, [Next]_vars, NEW s \in Session, row[s].st # "none"
  PROVE  /\ row'[s].st # "none"
         /\ row'[s].st = "active" => row[s].st = "active" /\ row'[s].expires = row[s].expires
<1>1. row[s] \in Row
  BY DEF TypeOK
<1>2. CASE row[s].st = "active"
  <2>1. ASSUME NEW q \in Session, OpenSession(q) \/ CloseSession(q)
        PROVE  row'[s].st # "none" /\ (row'[s].st = "active" => row'[s] = row[s])
    BY <1>1, <1>2, <2>1 DEF OpenSession, CloseSession, TypeOK, Row
  <2>2. CASE row' \in {row, Refreshed}
    BY <1>1, <1>2, <2>2 DEF Refreshed, Row
  <2>3. ASSUME NEW th \in Thread, ConsumeQuery(th)
        PROVE  row'[s].st = row[s].st /\ row'[s].expires = row[s].expires
    BY <1>1, <2>3 DEF ConsumeQuery, TypeOK, Row
  <2>4. CASE ~(\E q \in Session : OpenSession(q) \/ CloseSession(q))
             /\ ~(\E th \in Thread : ConsumeQuery(th))
    <3>1. row' \in {row, Refreshed}
      BY <2>4 DEF Next, GetKey, Tick, Sign, Verify, NonceReused, NonceRecorded,
         ServeUnlocked, Refresh, Unmatched, Match, KeyDenied, GrantUnlimited, Recount,
         LimitDenied, Answer, Die, vars
    <3> QED
      BY <2>2, <3>1
  <2> QED
    BY <1>2, <2>1, <2>3, <2>4
<1>3. CASE row[s].st # "active"
  <2>1. row[s].st \in {"expired", "closed"}
    BY <1>1, <1>3 DEF Row, Status
  <2> QED
    BY <2>1, EndedRowKept
<1> QED
  BY <1>2, <1>3

LEMMA CountStep == TypeOK /\ CountInv /\ [Next]_vars => CountInv'
<1> SUFFICES ASSUME TypeOK, CountInv, [Next]_vars, NEW th \in Thread,
                    call'[th].ph \in {"matched", "counting", "granted"}
             PROVE  /\ row'[call'[th].session].st # "none"
                    /\ call'[th].ph = "counting" /\ row'[call'[th].session].st = "active"
                       => call'[th].at <= row'[call'[th].session].expires
  BY DEF CountInv
<1> DEFINE s == call[th].session
<1>1. call[th] \in Call
  BY DEF TypeOK
<1>2. CASE call'[th] = call[th] /\ ~GetKey(th)
  <2>1. s \in Session /\ row[s].st # "none"
    BY <1>1, <1>2 DEF CountInv, Call, Idle
  <2>2. /\ row'[s].st # "none"
        /\ row'[s].st = "active" => row[s].st = "active" /\ row'[s].expires = row[s].expires
    BY <2>1, OpenKept
  <2> QED
    BY <1>2, <2>2 DEF CountInv
<1>3. CASE /\ GetKey(th) /\ call[th].ph \in {"matched", "counting"} /\ call'[th].session = s
           /\ call'[th].ph = "counting" => Recount(th)
  <2>1. s \in Session /\ row[s].st # "none"
    BY <1>1, <1>3 DEF CountInv, Call, Idle
  <2>2. row'[s].st # "none"
    BY <2>1, OpenKept
  <2>3. ASSUME Recount(th), row'[s].st = "active" PROVE call'[th].at <= row'[s].expires
    <3>1. call'[th].at = now /\ row' = Refreshed
      BY <2>3 DEF Recount, TypeOK
    <3>2. row[s] \in Row /\ now \in Int /\ row[s].expires \in Int
      BY <2>1, Numbers DEF TypeOK, Row, Time
    <3>3. ~Overdue(s) /\ row'[s] = row[s]
      BY <2>1, <2>3, <3>1, <3>2 DEF Refreshed, Row, Overdue
    <3>4. row[s].st = "active"
      BY <2>3, <3>3
    <3> QED
      BY <3>1, <3>2, <3>3, <3>4 DEF Overdue
  <2> QED
    BY <1>3, <2>2, <2>3
<1>4. CASE Match(th)
  <2>1. PICK q \in Session : /\ Matching(call[th].req) = {q}
                             /\ call'[th].session = q /\ call'[th].ph = "matched"
    BY <1>4 DEF Match, TypeOK
  <2>2. row[q].st = "active"
    BY <2>1 DEF Matching
  <2> QED
    BY <2>1, <2>2, OpenKept
<1> QED
  BY <1>2, <1>3, <1>4, CallMoves

LEMMA CountInit == Init => CountInv
BY DEF Init, CountInv, Idle

\* A session that has ended stays as it is, and a query is counted only on a
\* row that says active, by a thread that found it in time.
THEOREM SessionsEndForGood == Spec => CountedWhileActive
<1>1. ASSUME TypeOK, CountInv, [Next]_vars, NEW s \in Session
      PROVE  /\ row[s].st \in {"expired", "closed"} => row'[s] = row[s]
             /\ row'[s].used > row[s].used =>
                  /\ row[s].st = "active"
                  /\ \E th \in Thread : /\ call[th].ph = "counting" /\ call[th].session = s
                                       /\ call[th].at <= row[s].expires
  <2>1. row[s] \in Row /\ row[s].used \in Nat
    BY <1>1 DEF TypeOK, Row
  <2>2. ASSUME row'[s].used > row[s].used
        PROVE  row[s].st = "active" /\ \E th \in Thread : ConsumeQuery(th) /\ call[th].session = s
    BY <1>1, <2>1, <2>2, RowStep
  <2>3. ASSUME NEW th \in Thread, ConsumeQuery(th), call[th].session = s, row[s].st = "active"
        PROVE  call[th].ph = "counting" /\ call[th].at <= row[s].expires
    BY <1>1, <2>3 DEF ConsumeQuery, CountInv
  <2> QED
    BY <1>1, <2>2, <2>3, EndedRowKept
<1>2. TypeOK /\ CountInv /\ [Next]_vars =>
        [\A s \in Session :
           /\ row[s].st \in {"expired", "closed"} => row'[s] = row[s]
           /\ row'[s].used > row[s].used =>
                /\ row[s].st = "active"
                /\ \E th \in Thread : /\ call[th].ph = "counting" /\ call[th].session = s
                                     /\ call[th].at <= row[s].expires]_vars
  BY <1>1
<1>3. Init => TypeOK /\ CountInv
  BY TypeInit, CountInit
<1>4. TypeOK /\ CountInv /\ [Next]_vars => (TypeOK /\ CountInv)'
  BY TypeStep, CountStep
<1> QED
  BY <1>2, <1>3, <1>4, PTL DEF Spec, CountedWhileActive

-----------------------------------------------------------------------------
(* The limit of a session.                                                 *)

\* QuotaKept, and: nothing was answered under a session that was never opened.
QuotaInv ==
  /\ QuotaKept
  /\ CountInv
  /\ \A s \in Session : row[s].st = "none" => served[s] = 0

\* The sets of answers under way are finite.
LEMMA UnderwayFinite ==
  ASSUME NEW s \in Session
  PROVE  IsFiniteSet(Underway(s)) /\ Cardinality(Underway(s)) \in Nat
<1>1. Underway(s) \subseteq Thread
  BY DEF Underway
<1>2. IsFiniteSet(Underway(s))
  BY <1>1, KeyServiceAssumption, FS_Subset
<1> QED
  BY <1>2, FS_CardinalityType

\* What a step does to a session's answers: they shrink, or one is granted and
\* counted, or one is sent.
LEMMA UnderwayStep ==
  ASSUME TypeOK, [Next]_vars, NEW s \in Session, Limited(s)
  PROVE  \/ Underway(s)' \subseteq Underway(s) /\ served'[s] = served[s]
         \/ \E th \in Thread : /\ ConsumeQuery(th) /\ call[th].session = s
                               /\ Underway(s)' = Underway(s) \cup {th}
                               /\ served'[s] = served[s]
         \/ \E th \in Underway(s) : /\ Underway(s)' = Underway(s) \ {th}
                                    /\ served'[s] = served[s] + 1
                                    /\ row'[s] = row[s]
<1> DEFINE Goal == \/ Underway(s)' \subseteq Underway(s) /\ served'[s] = served[s]
                   \/ \E th \in Thread : /\ ConsumeQuery(th) /\ call[th].session = s
                                         /\ Underway(s)' = Underway(s) \cup {th}
                                         /\ served'[s] = served[s]
                   \/ \E th \in Underway(s) : /\ Underway(s)' = Underway(s) \ {th}
                                              /\ served'[s] = served[s] + 1
                                              /\ row'[s] = row[s]
<1> SUFFICES Goal
  OBVIOUS
<1>1. CASE call' = call /\ served' = served
  BY <1>1 DEF Underway
<1>2. ASSUME NEW th \in Thread, NEW k, call' = [call EXCEPT ![th] = k],
             k.ph # "granted", served' = served
      PROVE  Goal
  <2>1. call'[th] = k /\ \A u \in Thread : u # th => call'[u] = call[u]
    BY <1>2 DEF TypeOK
  <2> QED
    BY <1>2, <2>1 DEF Underway
<1>3. ASSUME NEW th \in Thread, NEW r \in Request, Verify(th, r) PROVE Goal
  <2> DEFINE k == [ph |-> "verified", req |-> r,
                   barred |-> {q \in Session : Ended(q)}, at |-> now]
  <2>1. call' = [call EXCEPT ![th] = k] /\ k.ph # "granted" /\ served' = served
    BY <1>3 DEF Verify, historyVars
  <2> HIDE DEF k, Goal
  <2> QED
    BY <1>2, <2>1
<1>4. ASSUME NEW th \in Thread, NonceRecorded(th) PROVE Goal
  <2> DEFINE k == [ph |-> "fresh", req |-> call[th].req, barred |-> call[th].barred]
  <2>1. call' = [call EXCEPT ![th] = k] /\ k.ph # "granted" /\ served' = served
    BY <1>4 DEF NonceRecorded
  <2> HIDE DEF k, Goal
  <2> QED
    BY <1>2, <2>1
<1>5. ASSUME NEW th \in Thread, Match(th) PROVE Goal
  <2>1. PICK q \in Session : call' = [call EXCEPT ![th] =
               [ph |-> "matched", req |-> call[th].req, barred |-> call[th].barred,
                session |-> q]]
    BY <1>5 DEF Match
  <2> DEFINE k == [ph |-> "matched", req |-> call[th].req, barred |-> call[th].barred,
                   session |-> q]
  <2>2. call' = [call EXCEPT ![th] = k] /\ k.ph # "granted" /\ served' = served
    BY <1>5, <2>1 DEF Match, historyVars
  <2> HIDE DEF k, Goal
  <2> QED
    BY <1>2, <2>2
<1>6. ASSUME NEW th \in Thread,
             \/ NonceReused(th) \/ ServeUnlocked(th) \/ Unmatched(th) \/ KeyDenied(th)
             \/ LimitDenied(th) \/ Die(th)
      PROVE  Goal
  <2>1. call' = [call EXCEPT ![th] = Idle] /\ served' = served
    BY <1>6 DEF NonceReused, ServeUnlocked, Unmatched, KeyDenied, LimitDenied, Die,
                historyVars
  <2>2. Idle.ph # "granted"
    BY DEF Idle
  <2> HIDE DEF Goal
  <2> QED
    BY <1>2, <2>1, <2>2
<1>10. ASSUME NEW th \in Thread, Refresh(th) PROVE Goal
  <2> DEFINE k == [call[th] EXCEPT !.ph = "refreshed"]
  <2>1. /\ call[th] \in Call /\ call[th].ph = "fresh" /\ served' = served
        /\ call' = [call EXCEPT ![th] = k]
    BY <1>10 DEF Refresh, TypeOK, historyVars
  <2>2. k.ph # "granted"
    BY <2>1 DEF Call, Idle
  <2> HIDE DEF k, Goal
  <2> QED
    BY <1>2, <2>1, <2>2
<1>11. ASSUME NEW th \in Thread, Recount(th) PROVE Goal
  <2> DEFINE k == [ph |-> "counting", req |-> call[th].req, barred |-> call[th].barred,
                   session |-> call[th].session, at |-> now]
  <2>1. call' = [call EXCEPT ![th] = k] /\ k.ph # "granted" /\ served' = served
    BY <1>11 DEF Recount, historyVars
  <2> HIDE DEF k, Goal
  <2> QED
    BY <1>2, <2>1
<1>12. ASSUME NEW th \in Thread, GrantUnlimited(th) PROVE Goal
  <2> DEFINE k == [call[th] EXCEPT !.ph = "granted"]
  <2>1. /\ call[th] \in Call /\ call[th].ph = "matched" /\ served' = served
        /\ call' = [call EXCEPT ![th] = k] /\ ~Limited(call[th].session)
    BY <1>12 DEF GrantUnlimited, TypeOK, historyVars
  <2>2. k.session = call[th].session
    BY <2>1 DEF Call, Idle
  <2>3. call'[th] = k /\ \A u \in Thread : u # th => call'[u] = call[u]
    BY <2>1 DEF TypeOK
  <2>4. call[th].session # s
    BY <2>1
  <2> HIDE DEF k
  <2> QED
    BY <2>1, <2>2, <2>3, <2>4 DEF Underway
<1>7. ASSUME NEW th \in Thread, ConsumeQuery(th) PROVE Goal
  <2> DEFINE k == Granted(call[th])
  <2>1. call[th].ph = "counting" /\ served' = served /\ call' = [call EXCEPT ![th] = k]
    BY <1>7 DEF ConsumeQuery, historyVars
  <2>2. k.ph = "granted" /\ k.session = call[th].session
    BY DEF Granted
  <2>3. call'[th] = k /\ \A u \in Thread : u # th => call'[u] = call[u]
    BY <2>1 DEF TypeOK
  <2> HIDE DEF k
  <2>4. CASE call[th].session # s
    BY <2>1, <2>2, <2>3, <2>4 DEF Underway
  <2>5. CASE call[th].session = s
    <3>1. Underway(s)' = Underway(s) \cup {th}
      BY <2>2, <2>3, <2>5 DEF Underway
    <3> QED
      BY <1>7, <2>1, <2>5, <3>1
  <2> QED
    BY <2>4, <2>5
<1>8. ASSUME NEW th \in Thread, Answer(th) PROVE Goal
  <2>1. /\ call[th].ph = "granted" /\ row' = row
        /\ served' = [served EXCEPT ![call[th].session] =
                         IF Limited(call[th].session) THEN @ + 1 ELSE @]
        /\ call' = [call EXCEPT ![th] = Idle]
    BY <1>8 DEF Answer
  <2>2. call'[th].ph = "idle" /\ \A u \in Thread : u # th => call'[u] = call[u]
    BY <2>1 DEF TypeOK, Idle
  <2>3. CASE call[th].session # s
    <3>1. served'[s] = served[s]
      BY <2>1, <2>3 DEF TypeOK
    <3>2. Underway(s)' \subseteq Underway(s)
      BY <2>2 DEF Underway
    <3> QED
      BY <3>1, <3>2
  <2>4. CASE call[th].session = s
    <3>1. served'[s] = served[s] + 1
      BY <2>1, <2>4 DEF TypeOK
    <3>2. th \in Underway(s) /\ Underway(s)' = Underway(s) \ {th}
      BY <2>1, <2>2, <2>4 DEF Underway
    <3> QED
      BY <2>1, <3>1, <3>2
  <2> QED
    BY <2>3, <2>4
<1>9. CASE \/ Tick \/ (\E r \in Request : Sign(r)) \/ UNCHANGED vars
          \/ \E q \in Session : OpenSession(q) \/ CloseSession(q)
  BY <1>1, <1>9 DEF Tick, Sign, OpenSession, CloseSession, vars, historyVars
<1> HIDE DEF Goal
<1> QED
  BY <1>3, <1>4, <1>5, <1>6, <1>7, <1>8, <1>9, <1>10, <1>11, <1>12 DEF Next, GetKey

\* The limit is kept by every step.
LEMMA QuotaStep == TypeOK /\ QuotaInv /\ [Next]_vars => QuotaInv'
<1> SUFFICES ASSUME TypeOK, QuotaInv, [Next]_vars PROVE QuotaInv'
  OBVIOUS
<1>1. ASSUME NEW s \in Session, row[s].st # "none" PROVE row'[s].st # "none"
  BY <1>1, OpenKept
<1>2. CountInv'
  BY CountStep DEF QuotaInv
<1>3. ASSUME NEW s \in Session, row[s].st = "none" PROVE Underway(s) = {}
  BY <1>3 DEF Underway, QuotaInv, CountInv
<1>4. ASSUME NEW s \in Session, row'[s].st = "none" PROVE served'[s] = 0
  <2>1. row[s].st = "none" /\ served[s] = 0
    BY <1>1, <1>4 DEF QuotaInv
  <2>2. ASSUME NEW th \in Thread, Answer(th) PROVE call[th].session # s
    BY <2>1, <2>2 DEF Answer, QuotaInv, CountInv
  <2>3. ASSUME NEW th \in Thread, Answer(th) PROVE served'[s] = served[s]
    BY <2>2, <2>3 DEF Answer, TypeOK
  <2>4. CASE ~\E th \in Thread : Answer(th)
    BY <2>1, <2>4 DEF Next, GetKey, Verify, NonceReused, NonceRecorded, ServeUnlocked,
       Refresh, Unmatched, Match, KeyDenied, GrantUnlimited, Recount, ConsumeQuery,
       LimitDenied, Die, Tick, Sign, OpenSession, CloseSession, vars, historyVars
  <2> QED
    BY <2>1, <2>3, <2>4
<1>5. ASSUME NEW s \in Session, Limited(s)
      PROVE  /\ served'[s] + Cardinality(Underway(s)') <= row'[s].used
             /\ row'[s].used <= MaxQueries[s]
  <2> DEFINE n == Cardinality(Underway(s))
             m == Cardinality(Underway(s)')
  <2>1. /\ MaxQueries[s] \in Nat /\ served[s] \in Nat
        /\ row[s].used \in Nat /\ n \in Nat /\ IsFiniteSet(Underway(s))
        /\ served[s] + n <= row[s].used /\ row[s].used <= MaxQueries[s]
    BY <1>5, KeyServiceAssumption, UnderwayFinite DEF Limited, QuotaInv, QuotaKept, TypeOK, Row
  <2>2. CASE row[s].st = "none" /\ row'[s].used = 0
    <3>1. Underway(s) = {} /\ served[s] = 0
      BY <1>3, <2>2 DEF QuotaInv
    <3>2. ~\E th \in Thread : ConsumeQuery(th) /\ call[th].session = s
      BY <2>2 DEF ConsumeQuery, QuotaInv, CountInv
    <3>3. Underway(s)' = {} /\ served'[s] = 0
      BY <1>5, <3>1, <3>2, UnderwayStep
    <3> QED
      BY <2>1, <2>2, <3>3, FS_EmptySet
  <2>3. CASE row'[s].used = row[s].used \/
             (row'[s].used = row[s].used + 1 /\ row[s].used < MaxQueries[s])
    <3>1. CASE Underway(s)' \subseteq Underway(s) /\ served'[s] = served[s]
      <4>1. m <= n /\ m \in Nat
        BY <2>1, <3>1, FS_Subset, FS_CardinalityType
      <4> QED
        BY <2>1, <2>3, <3>1, <4>1
    <3>2. CASE \E th \in Thread : /\ ConsumeQuery(th) /\ call[th].session = s
                                  /\ Underway(s)' = Underway(s) \cup {th}
                                  /\ served'[s] = served[s]
      <4>1. PICK th \in Thread : /\ ConsumeQuery(th) /\ call[th].session = s
                                 /\ Underway(s)' = Underway(s) \cup {th}
                                 /\ served'[s] = served[s]
        BY <3>2
      <4>2. m \in Nat /\ m <= n + 1
        <5>1. /\ IsFiniteSet(Underway(s) \cup {th})
              /\ Cardinality(Underway(s) \cup {th}) \in {n, n + 1}
          BY <2>1, FS_AddElement
        <5> QED
          BY <2>1, <4>1, <5>1
      <4>3. row'[s].used = row[s].used + 1
        <5>1. row' = [row EXCEPT ![s].used = @ + 1]
          BY <4>1 DEF ConsumeQuery
        <5>2. row \in [Session -> Row] /\ row[s] \in Row
          BY DEF TypeOK
        <5> QED
          BY <5>1, <5>2 DEF Row
      <4> QED
        BY <2>1, <2>3, <4>1, <4>2, <4>3
    <3>3. CASE \E th \in Underway(s) : /\ Underway(s)' = Underway(s) \ {th}
                                       /\ served'[s] = served[s] + 1
                                       /\ row'[s] = row[s]
      <4>1. PICK th \in Underway(s) : /\ Underway(s)' = Underway(s) \ {th}
                                      /\ served'[s] = served[s] + 1
                                      /\ row'[s] = row[s]
        BY <3>3
      <4>2. m = n - 1
        BY <2>1, <4>1, FS_RemoveElement
      <4> QED
        BY <2>1, <4>1, <4>2
    <3> QED
      BY <1>5, <3>1, <3>2, <3>3, UnderwayStep
  <2> QED
    BY <1>5, <2>2, <2>3, RowStep
<1> QED
  BY <1>2, <1>4, <1>5 DEF QuotaInv, QuotaKept, Limited

\* A session with a limit answers no more requests than the limit, whatever
\* threads and processes do meanwhile.
THEOREM SessionQuotaKept == Spec => []QuotaKept
<1>1. Init => TypeOK /\ QuotaInv
  <2> SUFFICES ASSUME Init PROVE QuotaInv
    BY TypeInit
  <2>3. CountInv
    BY CountInit
  <2>1. \A s \in Session : Underway(s) = {}
    BY DEF Init, Underway, Idle
  <2>2. ASSUME NEW s \in Session, Limited(s) PROVE 0 <= MaxQueries[s]
    BY <2>2, KeyServiceAssumption DEF Limited
  <2> QED
    BY <2>1, <2>2, <2>3, FS_EmptySet DEF Init, QuotaInv, QuotaKept
<1>2. TypeOK /\ QuotaInv /\ [Next]_vars => (TypeOK /\ QuotaInv)'
  BY TypeStep, QuotaStep
<1>3. QuotaInv => QuotaKept
  BY DEF QuotaInv
<1> QED
  BY <1>1, <1>2, <1>3, PTL DEF Spec
=============================================================================
