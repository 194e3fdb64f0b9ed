---------------------------- MODULE JanusDO_proofs ----------------------------
(***************************************************************************)
(* Proofs about JanusDO for every set of requests, callers, owners,        *)
(* contents and endpoints, and every bound on the clock.                   *)
(***************************************************************************)
EXTENDS JanusDO, TLAPS

-----------------------------------------------------------------------------
(* Type correctness.                                                       *)

\* A call record keeps its type when its fields are updated within theirs.
LEMMA CallUpdate ==
  ASSUME NEW k \in Call, NEW o \in Op, NEW E \in SUBSET Endpoint,
         NEW s \in Status \cup {"none"}
  PROVE  /\ [k EXCEPT !.op = o] \in Call
         /\ [k EXCEPT !.todo = E] \in Call
         /\ [k EXCEPT !.op = o, !.todo = E] \in Call
         /\ [k EXCEPT !.op = o, !.seen = s] \in Call
BY DEF Call

\* A fresh invocation is a call record.
LEMMA IdleCall == Idle \in Call
BY JanusAssumption DEF Call, Idle, Status, Op, AtCrypto, Answered, Choice

LEMMA FreshCall ==
  ASSUME NEW o \in Op, NEW r \in Request, NEW f \in Fingerprint,
         NEW t \in 0..MaxTime, NEW a \in Choice \cup {"view"}
  PROVE  /\ [Idle EXCEPT !.op = o, !.req = r, !.fp = f, !.due = t] \in Call
         /\ [Idle EXCEPT !.op = o, !.req = r, !.pick = a] \in Call
         /\ [Idle EXCEPT !.op = o, !.req = r, !.fp = f] \in Call
<1>1. ASSUME NEW k \in Call
      PROVE  /\ [k EXCEPT !.op = o, !.req = r, !.fp = f, !.due = t] \in Call
             /\ [k EXCEPT !.op = o, !.req = r, !.pick = a] \in Call
             /\ [k EXCEPT !.op = o, !.req = r, !.fp = f] \in Call
  BY DEF Call
<1> QED
  BY <1>1, IdleCall

\* The alarm that _scheduleNextAlarm sets lies within the clock's range.
LEMMA AlarmType ==
  ASSUME NEW st, NEW ex, ScheduleNextAlarm(st, ex)
  PROVE  alarm' \in (0..MaxTime) \cup {NoAlarm}
BY DEF ScheduleNextAlarm

\* Replacing one caller's record by a well-typed one keeps call well typed.
LEMMA CallStep ==
  ASSUME TypeOK, NEW c \in Caller, NEW k \in Call,
         k.op # "idle" => k.req \in Request,
         call' = [call EXCEPT ![c] = k]
  PROVE  /\ call' \in [Caller -> Call]
         /\ \A d \in Caller : call'[d].op # "idle" => call'[d].req \in Request
BY DEF TypeOK

\* So does moving an invocation on to another step.
LEMMA OpStep ==
  ASSUME TypeOK, NEW c \in Caller, call[c].op # "idle", NEW o \in Op,
         call' = [call EXCEPT ![c].op = o]
  PROVE  /\ call' \in [Caller -> Call]
         /\ \A d \in Caller : call'[d].op # "idle" => call'[d].req \in Request
<1> DEFINE k == [call[c] EXCEPT !.op = o]
<1>1. call[c] \in Call /\ call[c].req \in Request
  BY DEF TypeOK
<1>2. call' = [call EXCEPT ![c] = k]
  BY DEF TypeOK
<1>3. k \in Call /\ k.req \in Request
  BY <1>1 DEF Call
<1> QED
  BY <1>2, <1>3, CallStep

\* Every column, invocation and history variable keeps its type.
LEMMA TypeStep == TypeOK /\ [Next]_vars => TypeOK'
<1> SUFFICES ASSUME TypeOK, [Next]_vars PROVE TypeOK'
  OBVIOUS
<1> USE JanusAssumption
<1>0. /\ Op = {"idle", "notify", "mint", "mac", "hash", "compare",
              "accepted", "granted", "refused"}
      /\ Status = {"pending", "approved", "denied", "expired", "consumed"}
      /\ Choice = {"approved", "denied"}
  BY DEF Op, AtCrypto, Answered, Status, Choice
<1>1. ASSUME NEW c \in Caller, SubmitInsert(c) PROVE TypeOK'
  <2> DEFINE r == call[c].req
             k == [call[c] EXCEPT !.op = "notify", !.todo = subs]
  <2>1. /\ status' = [status EXCEPT ![r] = "pending"]
        /\ digest' = [digest EXCEPT ![r] = call[c].fp]
        /\ expires' = [expires EXCEPT ![r] = call[c].due]
        /\ UNCHANGED <<now, subs, historyVars>>
    BY <1>1 DEF SubmitInsert
  <2>2. /\ call[c] \in Call /\ call[c].due \in 0..MaxTime
        /\ call[c].fp \in Fingerprint \cup {NoFingerprint}
        /\ r \in Request /\ subs \in SUBSET Endpoint
    BY <1>1 DEF TypeOK, Call, SubmitInsert
  <2>3. alarm' \in (0..MaxTime) \cup {NoAlarm}
    BY <1>1, AlarmType DEF SubmitInsert
  <2>4. call' = [call EXCEPT ![c] = k]
    BY <1>1 DEF SubmitInsert, TypeOK, Call
  <2>5. k \in Call /\ k.req = r
    BY <2>2, <1>0 DEF Call
  <2>6. /\ call' \in [Caller -> Call]
        /\ \A d \in Caller : call'[d].op # "idle" => call'[d].req \in Request
    BY <2>2, <2>4, <2>5, CallStep
  <2> QED
    BY <2>1, <2>2, <2>3, <2>6, <1>0 DEF TypeOK, historyVars
<1>2. ASSUME NEW c \in Caller, NEW e \in Endpoint, Push(c, e) PROVE TypeOK'
  <2> DEFINE k == [call[c] EXCEPT !.todo = call[c].todo \ {e}]
  <2>1. call[c] \in Call /\ call[c].todo \in SUBSET Endpoint /\ call[c].req \in Request
    BY <1>2 DEF Push, TypeOK, Call
  <2>2. call' = [call EXCEPT ![c] = k]
    BY <1>2 DEF Push, TypeOK
  <2>3. k \in Call /\ k.req \in Request
    BY <2>1 DEF Call
  <2>4. /\ call' \in [Caller -> Call]
        /\ \A d \in Caller : call'[d].op # "idle" => call'[d].req \in Request
    BY <2>2, <2>3, CallStep
  <2>5. linked' \in SUBSET Request /\ subs' \in SUBSET Endpoint
    BY <1>2, <2>1 DEF Push, TypeOK
  <2> QED
    BY <1>2, <2>4, <2>5 DEF Push, TypeOK, rowVars
<1>3. ASSUME NEW c \in Caller, \/ SubmitAnswer(c) \/ DecideConflict(c)
                               \/ ConsumeMismatch(c)
      PROVE  TypeOK'
  <2>1. /\ call[c].op # "idle"
        /\ \E o \in Op : call' = [call EXCEPT ![c].op = o]
        /\ UNCHANGED <<now, rowVars, subs, historyVars>>
    BY <1>3, <1>0 DEF SubmitAnswer, DecideConflict, ConsumeMismatch
  <2> QED
    BY <2>1, OpStep DEF TypeOK, rowVars, historyVars
<1>4. ASSUME NEW c \in Caller, DecideLoad(c) PROVE TypeOK'
  <2> DEFINE k == [call[c] EXCEPT !.op = "hash", !.seen = status[call[c].req]]
  <2>1. call[c] \in Call /\ call[c].req \in Request
    BY <1>4 DEF DecideLoad, TypeOK
  <2>2. call' = [call EXCEPT ![c] = k]
    BY <1>4, <2>1 DEF DecideLoad, TypeOK, Call
  <2>3. k \in Call /\ k.req \in Request
    BY <2>1, <1>0 DEF Call, TypeOK
  <2>4. /\ call' \in [Caller -> Call]
        /\ \A d \in Caller : call'[d].op # "idle" => call'[d].req \in Request
    BY <2>2, <2>3, CallStep
  <2> QED
    BY <1>4, <2>4 DEF DecideLoad, TypeOK, rowVars, historyVars
<1>5. ASSUME NEW c \in Caller, DecideExpired(c) PROVE TypeOK'
  <2>1. /\ call' \in [Caller -> Call]
        /\ \A d \in Caller : call'[d].op # "idle" => call'[d].req \in Request
    BY <1>5, <1>0, OpStep DEF DecideExpired
  <2>2. status' \in [Request -> Status \cup {"none"}]
    BY <1>5, <1>0 DEF DecideExpired, TypeOK
  <2> QED
    BY <1>5, <2>1, <2>2 DEF DecideExpired, TypeOK, historyVars
<1>6. ASSUME NEW c \in Caller, DecideRecord(c) PROVE TypeOK'
  <2>1. /\ call' \in [Caller -> Call]
        /\ \A d \in Caller : call'[d].op # "idle" => call'[d].req \in Request
    BY <1>6, <1>0, OpStep DEF DecideRecord
  <2>2. call[c].pick \in Choice \cup {"view"}
    BY DEF TypeOK, Call
  <2>3. /\ status' \in [Request -> Status \cup {"none"}]
        /\ told' \in [Request -> SUBSET Choice]
        /\ approvedAt' \in [Request -> 0..MaxTime]
    BY <1>6, <1>0, <2>2 DEF DecideRecord, TypeOK
  <2> QED
    BY <1>6, <2>1, <2>3 DEF DecideRecord, TypeOK
<1>7. ASSUME NEW c \in Caller, ConsumeGrant(c) PROVE TypeOK'
  <2>1. /\ call' \in [Caller -> Call]
        /\ \A d \in Caller : call'[d].op # "idle" => call'[d].req \in Request
    BY <1>7, <1>0, OpStep DEF ConsumeGrant
  <2>2. /\ status' \in [Request -> Status \cup {"none"}]
        /\ granted' \in [Request -> Nat]
    BY <1>7, <1>0 DEF ConsumeGrant, TypeOK
  <2> QED
    BY <1>7, <2>1, <2>2 DEF ConsumeGrant, TypeOK
<1>8. ASSUME NEW c \in Caller, Return(c) PROVE TypeOK'
  <2>1. /\ call' \in [Caller -> Call]
        /\ \A d \in Caller : call'[d].op # "idle" => call'[d].req \in Request
    BY <1>8, IdleCall, CallStep DEF Return, Idle
  <2> QED
    BY <1>8, <2>1 DEF Return, TypeOK, rowVars, historyVars
<1>9. ASSUME NEW c \in Caller, Arrival(c) PROVE TypeOK'
  <2>1. ASSUME NEW r \in Request, NEW f \in Fingerprint, NEW t \in Timeout,
               SubmitStart(c, r, f, t)
        PROVE  TypeOK'
    <3> DEFINE k == [Idle EXCEPT !.op = "mint", !.req = r, !.fp = f, !.due = now + t]
    <3>1. now + t \in 0..MaxTime
      BY <2>1 DEF SubmitStart, TypeOK
    <3>2. k \in Call
      BY <3>1, <1>0, FreshCall
    <3>3. k.req = r /\ call' = [call EXCEPT ![c] = k]
      BY <2>1 DEF SubmitStart, Idle
    <3>4. /\ call' \in [Caller -> Call]
          /\ \A d \in Caller : call'[d].op # "idle" => call'[d].req \in Request
      BY <3>2, <3>3, CallStep
    <3> QED
      BY <2>1, <3>4 DEF SubmitStart, TypeOK, rowVars, historyVars
  <2>2. ASSUME NEW r \in Request, NEW a \in Choice \cup {"view"}, DecideStart(c, r, a)
        PROVE  TypeOK'
    <3> DEFINE k == [Idle EXCEPT !.op = "mac", !.req = r, !.pick = a]
    <3>1. k.req = r /\ call' = [call EXCEPT ![c] = k]
      BY <2>2 DEF DecideStart, Idle
    <3>2. k \in Call
      BY <2>2, <1>0, IdleCall DEF Call
    <3>3. /\ call' \in [Caller -> Call]
          /\ \A d \in Caller : call'[d].op # "idle" => call'[d].req \in Request
      BY <3>1, <3>2, CallStep
    <3> QED
      BY <2>2, <3>3 DEF DecideStart, TypeOK, rowVars, historyVars
  <2>3. ASSUME NEW r \in Request, NEW f \in Fingerprint, ConsumeStart(c, r, f)
        PROVE  TypeOK'
    <3> DEFINE o == IF MayCompare(r, f) THEN "compare" ELSE "refused"
               k == [Idle EXCEPT !.op = o, !.req = r, !.fp = f]
    <3>1. k.req = r /\ call' = [call EXCEPT ![c] = k]
      BY <2>3 DEF ConsumeStart, Idle
    <3>2. k \in Call
      BY <2>3, <1>0, IdleCall DEF Call
    <3>3. /\ call' \in [Caller -> Call]
          /\ \A d \in Caller : call'[d].op # "idle" => call'[d].req \in Request
      BY <3>1, <3>2, CallStep
    <3> QED
      BY <2>3, <3>3 DEF ConsumeStart, TypeOK, rowVars, historyVars
  <2> QED
    BY <1>9, <2>1, <2>2, <2>3 DEF Arrival
<1>10. ASSUME NEW e \in Endpoint, Subscribe(e) PROVE TypeOK'
  BY <1>10 DEF Subscribe, TypeOK, rowVars, historyVars
<1>11. ASSUME AlarmFires PROVE TypeOK'
  <2>1. alarm' \in (0..MaxTime) \cup {NoAlarm}
    BY <1>11, AlarmType DEF AlarmFires
  <2>2. status' \in [Request -> Status \cup {"none"}]
    BY <1>11, <1>0 DEF AlarmFires, Expired, TypeOK
  <2> QED
    BY <1>11, <2>1, <2>2 DEF AlarmFires, TypeOK, historyVars
<1>12. ASSUME Restart PROVE TypeOK'
  <2>1. /\ call' \in [Caller -> Call]
        /\ \A d \in Caller : call'[d].op # "idle" => call'[d].req \in Request
    BY <1>12, IdleCall DEF Restart, Idle
  <2> QED
    BY <1>12, <2>1 DEF Restart, TypeOK, rowVars, historyVars
<1>13. ASSUME Tick PROVE TypeOK'
  BY <1>13 DEF Tick, TypeOK, rowVars, historyVars
<1>14. CASE UNCHANGED vars
  BY <1>14 DEF vars, rowVars, historyVars, TypeOK
<1> QED
  BY <1>1, <1>2, <1>3, <1>4, <1>5, <1>6, <1>7, <1>8, <1>9, <1>10, <1>11, <1>12,
     <1>13, <1>14 DEF Next, Handler

\* The columns of pending_requests, the alarm and the invocations keep their
\* types in every state of the object.
THEOREM JanusTypeOK == Spec => []TypeOK
<1>1. Init => TypeOK
  BY JanusAssumption, IdleCall DEF Init, TypeOK, Idle
<1> QED
  BY <1>1, TypeStep, PTL DEF Spec

-----------------------------------------------------------------------------
(* What holds wherever the handlers may be suspended.                      *)

\* A request id is minted by one invocation, before its row exists.
MintIsFresh ==
  /\ \A c \in Caller : call[c].op = "mint" =>
       status[call[c].req] = "none" /\ call[c].fp \in Fingerprint
  /\ \A c, d \in Caller :
       call[c].op = "mint" /\ call[d].op = "mint" /\ call[c].req = call[d].req => c = d

\* A consume call that got as far as the digests found an approved row.
ComparedIsDecided ==
  \A c \in Caller : call[c].op \in {"compare", "granted"} =>
                      /\ status[call[c].req] \in {"approved", "consumed"}
                      /\ call[c].fp \in Fingerprint

RowInv == TypeOK /\ MintIsFresh /\ ComparedIsDecided

\* The step of FirstOutcomeStands for one request.
OutcomeStep(r) ==
  /\ status[r] # "none" => digest'[r] = digest[r] /\ expires'[r] = expires[r]
  /\ status'[r] # status[r] =>
       \/ status[r] = "none" /\ status'[r] = "pending"
       \/ status[r] = "pending" /\ status'[r] \in {"approved", "denied", "expired"}
       \/ status[r] = "approved" /\ status'[r] = "consumed"

LEMMA OutcomeLemma == RowInv /\ [Next]_vars => \A r \in Request : OutcomeStep(r)
<1> SUFFICES ASSUME RowInv, [Next]_vars, NEW r \in Request PROVE OutcomeStep(r)
  OBVIOUS
<1> USE DEF OutcomeStep
<1>1. ASSUME NEW c \in Caller, SubmitInsert(c) PROVE OutcomeStep(r)
  BY <1>1 DEF SubmitInsert, RowInv, MintIsFresh, TypeOK
<1>2. ASSUME NEW c \in Caller, DecideExpired(c) PROVE OutcomeStep(r)
  BY <1>2 DEF DecideExpired, RowInv, TypeOK
<1>3. ASSUME NEW c \in Caller, DecideRecord(c) PROVE OutcomeStep(r)
  <2>1. call[c].pick \in {"approved", "denied", "view"}
    BY DEF RowInv, TypeOK, Call, Choice
  <2> QED
    BY <1>3, <2>1 DEF DecideRecord, RowInv, TypeOK
<1>4. ASSUME NEW c \in Caller, ConsumeGrant(c) PROVE OutcomeStep(r)
  BY <1>4 DEF ConsumeGrant, RowInv, TypeOK
<1>5. ASSUME AlarmFires PROVE OutcomeStep(r)
  BY <1>5 DEF AlarmFires, Expired
<1>6. ASSUME UNCHANGED <<status, digest, expires>> PROVE OutcomeStep(r)
  BY <1>6
<1>7. ASSUME NEW c \in Caller, Handler(c) PROVE OutcomeStep(r)
  BY <1>1, <1>2, <1>3, <1>4, <1>6, <1>7
     DEF Handler, Push, SubmitAnswer, DecideLoad, DecideConflict, ConsumeMismatch, Return,
         rowVars
<1>8. ASSUME NEW c \in Caller, Arrival(c) PROVE UNCHANGED <<status, digest, expires>>
  BY <1>8 DEF Arrival, SubmitStart, DecideStart, ConsumeStart, rowVars
<1> QED
  BY <1>5, <1>6, <1>7, <1>8 DEF Next, Subscribe, Restart, Tick, vars, rowVars

\* Where an invocation that is minting, comparing or granted comes from.
LEMMA CallOrigin ==
  ASSUME RowInv, [Next]_vars, NEW c \in Caller
  PROVE  /\ call'[c].op = "mint" =>
              \/ call'[c] = call[c]
              \/ \E r \in Request, f \in Fingerprint, t \in Timeout : SubmitStart(c, r, f, t)
         /\ call'[c].op = "compare" =>
              \/ call'[c] = call[c]
              \/ status[call'[c].req] = "approved" /\ call'[c].fp \in Fingerprint
         /\ call'[c].op = "granted" =>
              \/ call'[c] = call[c]
              \/ ConsumeGrant(c) /\ call'[c] = [call[c] EXCEPT !.op = "granted"]
<1> DEFINE Goal == /\ call'[c].op = "mint" =>
                        \/ call'[c] = call[c]
                        \/ \E r \in Request, f \in Fingerprint, t \in Timeout :
                             SubmitStart(c, r, f, t)
                   /\ call'[c].op = "compare" =>
                        \/ call'[c] = call[c]
                        \/ status[call'[c].req] = "approved" /\ call'[c].fp \in Fingerprint
                   /\ call'[c].op = "granted" =>
                        \/ call'[c] = call[c]
                        \/ ConsumeGrant(c) /\ call'[c] = [call[c] EXCEPT !.op = "granted"]
<1> SUFFICES Goal
  OBVIOUS
<1>0. call \in [Caller -> Call]
  BY DEF RowInv, TypeOK
<1>1. ASSUME NEW d \in Caller, Handler(d) PROVE Goal
  <2>1. CASE SubmitInsert(d) \/ (\E e \in Endpoint : Push(d, e)) \/ SubmitAnswer(d)
             \/ DecideLoad(d) \/ DecideConflict(d)
    BY <2>1, <1>0 DEF SubmitInsert, Push, SubmitAnswer, DecideLoad, DecideConflict, Call
  <2>2. CASE DecideExpired(d) \/ DecideRecord(d) \/ ConsumeMismatch(d) \/ Return(d)
    BY <2>2, <1>0 DEF DecideExpired, DecideRecord, ConsumeMismatch, Return, Call, Idle
  <2>3. CASE ConsumeGrant(d)
    BY <2>3, <1>0 DEF ConsumeGrant, Call
  <2> QED
    BY <1>1, <2>1, <2>2, <2>3 DEF Handler
<1>2. ASSUME NEW d \in Caller, Arrival(d) PROVE Goal
  <2>1. ASSUME NEW r \in Request, NEW f \in Fingerprint, NEW t \in Timeout,
               SubmitStart(d, r, f, t)
        PROVE  Goal
    <3>1. CASE c = d
      BY <2>1, <3>1, <1>0 DEF SubmitStart, Idle, Call
    <3>2. CASE c # d
      BY <2>1, <3>2, <1>0 DEF SubmitStart
    <3> QED
      BY <3>1, <3>2
  <2>2. ASSUME NEW r \in Request, NEW a \in Choice \cup {"view"}, DecideStart(d, r, a)
        PROVE  Goal
    BY <2>2, <1>0 DEF DecideStart, Idle
  <2>3. ASSUME NEW r \in Request, NEW f \in Fingerprint, ConsumeStart(d, r, f)
        PROVE  Goal
    BY <2>3, <1>0 DEF ConsumeStart, MayCompare, Idle, rowVars
  <2> QED
    BY <1>2, <2>1, <2>2, <2>3 DEF Arrival
<1>3. CASE Restart
  BY <1>3 DEF Restart, Idle
<1>4. CASE UNCHANGED call
  BY <1>4
<1> QED
  BY <1>1, <1>2, <1>3, <1>4 DEF Next, Subscribe, AlarmFires, Tick, vars

\* A row comes to exist only when its minting invocation inserts it.
LEMMA RowOrigin ==
  ASSUME RowInv, [Next]_vars, NEW r \in Request, status[r] = "none", status'[r] # "none"
  PROVE  \E d \in Caller : SubmitInsert(d) /\ call[d].req = r
<1>1. ASSUME NEW d \in Caller, Handler(d)
      PROVE  SubmitInsert(d) /\ call[d].req = r
  BY <1>1 DEF Handler, SubmitInsert, Push, SubmitAnswer, DecideLoad, DecideConflict,
     DecideExpired, DecideRecord, ConsumeMismatch, ConsumeGrant, Return, rowVars, RowInv, TypeOK
<1>2. ASSUME NEW d \in Caller, Arrival(d) PROVE FALSE
  BY <1>2 DEF Arrival, SubmitStart, DecideStart, ConsumeStart, rowVars
<1>3. CASE AlarmFires
  BY <1>3 DEF AlarmFires, Expired
<1> QED
  BY <1>1, <1>2, <1>3 DEF Next, Subscribe, Restart, Tick, vars, rowVars

LEMMA RowStep == RowInv /\ [Next]_vars => RowInv'
<1> SUFFICES ASSUME RowInv, [Next]_vars PROVE RowInv'
  OBVIOUS
<1>0. TypeOK /\ TypeOK' /\ \A r \in Request : OutcomeStep(r)
  BY TypeStep, OutcomeLemma DEF RowInv
<1>1. ASSUME NEW c \in Caller, call'[c].op = "mint"
      PROVE  status'[call'[c].req] = "none" /\ call'[c].fp \in Fingerprint
  <2> DEFINE r == call'[c].req
  <2>1. r \in Request
    BY <1>0, <1>1 DEF TypeOK
  <2>2. status[r] = "none" /\ call'[c].fp \in Fingerprint
    <3>1. CASE call'[c] = call[c]
      BY <1>1, <3>1 DEF RowInv, MintIsFresh
    <3>2. ASSUME NEW q \in Request, NEW f \in Fingerprint, NEW t \in Timeout,
                 SubmitStart(c, q, f, t)
          PROVE  status[r] = "none" /\ call'[c].fp \in Fingerprint
      BY <3>2, <1>0 DEF SubmitStart, TypeOK, Idle
    <3> QED
      BY <1>1, <3>1, <3>2, CallOrigin
  <2>3. ASSUME status'[r] # "none" PROVE FALSE
    <3>1. PICK d \in Caller : SubmitInsert(d) /\ call[d].req = r
      BY <2>1, <2>2, <2>3, RowOrigin
    <3>2. call'[d].op = "notify"
      BY <3>1, <1>0 DEF SubmitInsert, TypeOK, Call
    <3>3. c # d /\ call'[c] = call[c]
      BY <1>1, <3>1, <3>2, <1>0 DEF SubmitInsert, TypeOK
    <3> QED
      BY <1>1, <3>1, <3>3 DEF SubmitInsert, RowInv, MintIsFresh
  <2> QED
    BY <2>2, <2>3
<1>2. ASSUME NEW c \in Caller, NEW d \in Caller,
             call'[c].op = "mint", call'[d].op = "mint", call'[c].req = call'[d].req
      PROVE  c = d
  <2>1. ASSUME NEW b \in Caller, NEW e \in Caller, b # e, call'[e].op = "mint",
               \E r \in Request, f \in Fingerprint, t \in Timeout : SubmitStart(b, r, f, t)
        PROVE  call'[b].req # call'[e].req
    BY <2>1, <1>0 DEF SubmitStart, TypeOK, Idle
  <2>2. CASE call'[c] = call[c] /\ call'[d] = call[d]
    BY <1>2, <2>2 DEF RowInv, MintIsFresh
  <2>3. ASSUME NEW b \in Caller, call'[b].op = "mint", call'[b] # call[b]
        PROVE  \E r \in Request, f \in Fingerprint, t \in Timeout : SubmitStart(b, r, f, t)
    BY <2>3, CallOrigin
  <2> QED
    BY <1>2, <2>1, <2>2, <2>3
<1>3. ASSUME NEW c \in Caller, call'[c].op \in {"compare", "granted"}
      PROVE  /\ status'[call'[c].req] \in {"approved", "consumed"}
             /\ call'[c].fp \in Fingerprint
  <2>1. call'[c].req \in Request
    BY <1>0, <1>3 DEF TypeOK
  <2>2. status[call'[c].req] \in {"approved", "consumed"} /\ call'[c].fp \in Fingerprint
    <3>1. CASE call'[c] = call[c]
      BY <1>3, <3>1 DEF RowInv, ComparedIsDecided
    <3>2. CASE ConsumeGrant(c) /\ call'[c] = [call[c] EXCEPT !.op = "granted"]
      BY <3>2, <1>0 DEF RowInv, ComparedIsDecided, ConsumeGrant, TypeOK, Call
    <3> QED
      BY <1>3, <3>1, <3>2, CallOrigin
  <2> QED
    BY <2>1, <2>2, <1>0 DEF OutcomeStep
<1> QED
  BY <1>0, <1>1, <1>2, <1>3 DEF RowInv, MintIsFresh, ComparedIsDecided

LEMMA RowInvariant == Spec => []RowInv
<1>1. Init => RowInv
  BY JanusAssumption, IdleCall DEF Init, RowInv, TypeOK, MintIsFresh, ComparedIsDecided, Idle
<1> QED
  BY <1>1, RowStep, PTL DEF Spec

\* The first outcome of a request stands: no handler and no alarm takes a row
\* back, overrules a denial or an expiry, or revives what was consumed.
THEOREM OutcomesStand == Spec => FirstOutcomeStands
<1>1. RowInv /\ [Next]_vars =>
        [\A r \in Request :
           /\ status[r] # "none" => digest'[r] = digest[r] /\ expires'[r] = expires[r]
           /\ status'[r] # status[r] =>
                \/ status[r] = "none" /\ status'[r] = "pending"
                \/ status[r] = "pending" /\ status'[r] \in {"approved", "denied", "expired"}
                \/ status[r] = "approved" /\ status'[r] = "consumed"]_vars
  BY OutcomeLemma DEF OutcomeStep
<1> QED
  BY <1>1, RowInvariant, PTL DEF Spec, FirstOutcomeStands

\* The handlers that change rows, as opposed to those that only move on.
LEMMA QuietHandler ==
  ASSUME NEW c \in Caller, Handler(c),
         ~SubmitInsert(c), ~DecideExpired(c), ~DecideRecord(c), ~ConsumeGrant(c)
  PROVE  UNCHANGED <<now, rowVars, granted, told, approvedAt>>
BY DEF Handler, Push, SubmitAnswer, DecideLoad, DecideConflict, ConsumeMismatch, Return,
   rowVars, historyVars

\* So do arrivals.
LEMMA QuietArrival ==
  ASSUME NEW c \in Caller, Arrival(c)
  PROVE  UNCHANGED <<now, rowVars, granted, told, approvedAt>>
BY DEF Arrival, SubmitStart, DecideStart, ConsumeStart, rowVars, historyVars

\* Whatever order rows are inserted, decided and expired in, the alarm is set
\* no later than the earliest expiry among the rows that wait.
THEOREM AlarmIsSet == Spec => []AlarmCoversPending
<1>1. Init => AlarmCoversPending
  BY DEF Init, AlarmCoversPending
<1>2. TypeOK /\ AlarmCoversPending /\ [Next]_vars => AlarmCoversPending'
  <2> SUFFICES ASSUME TypeOK, AlarmCoversPending, [Next]_vars
               PROVE  AlarmCoversPending'
    OBVIOUS
  <2>1. ASSUME NEW st \in [Request -> Status \cup {"none"}],
               NEW ex \in [Request -> 0..MaxTime],
               ScheduleNextAlarm(st, ex), status' = st, expires' = ex
        PROVE  AlarmCoversPending'
    BY <2>1, JanusAssumption DEF ScheduleNextAlarm, IsNextExpiry, Pending, AlarmCoversPending
  <2>2. TypeOK'
    BY TypeStep
  <2>3. CASE AlarmFires
    BY <2>1, <2>2, <2>3 DEF AlarmFires, TypeOK
  <2>4. ASSUME NEW c \in Caller, SubmitInsert(c) PROVE AlarmCoversPending'
    BY <2>1, <2>2, <2>4 DEF SubmitInsert, TypeOK
  <2>5. ASSUME NEW c \in Caller, DecideExpired(c) \/ DecideRecord(c) \/ ConsumeGrant(c)
        PROVE  AlarmCoversPending'
    <3>1. UNCHANGED <<expires, alarm>>
      BY <2>5 DEF DecideExpired, DecideRecord, ConsumeGrant
    <3>2. call[c].pick \in {"approved", "denied", "view"}
      BY DEF TypeOK, Call, Choice
    <3>3. \A r \in Request : status'[r] = "pending" => status[r] = "pending"
      BY <2>5, <3>2 DEF DecideExpired, DecideRecord, ConsumeGrant, TypeOK
    <3> QED
      BY <3>1, <3>3 DEF AlarmCoversPending
  <2>6. CASE UNCHANGED rowVars
    BY <2>6 DEF rowVars, AlarmCoversPending
  <2> QED
    BY <2>3, <2>4, <2>5, <2>6, QuietHandler, QuietArrival
       DEF Next, Subscribe, Restart, Tick, vars
<1> QED
  BY <1>1, <1>2, JanusTypeOK, PTL DEF Spec

\* A 204 of _handleConsume stands on a row that was approved before its time
\* ran out, for the digest that was submitted, and that stays consumed.
THEOREM GrantsStand == Spec => []GrantStandsOnApproval
<1>1. Init => GrantStandsOnApproval
  BY DEF Init, GrantStandsOnApproval, Idle
<1>2. RowInv /\ GrantStandsOnApproval /\ [Next]_vars => GrantStandsOnApproval'
  <2> SUFFICES ASSUME RowInv, GrantStandsOnApproval, [Next]_vars,
                      NEW r \in Request
               PROVE  /\ granted'[r] > 0 => status'[r] = "consumed"
                      /\ \A c \in Caller : call'[c].op = "granted" /\ call'[c].req = r
                                             => call'[c].fp = digest'[r]
                      /\ status'[r] \in {"approved", "consumed"} =>
                           "approved" \in told'[r] /\ approvedAt'[r] < expires'[r]
    BY DEF GrantStandsOnApproval
  <2>0. TypeOK /\ TypeOK' /\ OutcomeStep(r)
    BY TypeStep, OutcomeLemma DEF RowInv
  <2>1. ASSUME NEW c \in Caller, call'[c].op = "granted", call'[c].req = r
        PROVE  call'[c].fp = digest'[r]
    <3>1. CASE call'[c] = call[c]
      BY <2>0, <2>1, <3>1 DEF OutcomeStep, RowInv, ComparedIsDecided, GrantStandsOnApproval
    <3>2. CASE ConsumeGrant(c)
      BY <2>0, <2>1, <3>2 DEF ConsumeGrant, TypeOK, Call
    <3> QED
      BY <2>1, <3>1, <3>2, CallOrigin
  <2>2. ASSUME granted'[r] > 0 PROVE status'[r] = "consumed"
    <3>1. CASE granted'[r] = granted[r]
      BY <2>0, <2>2, <3>1 DEF OutcomeStep, GrantStandsOnApproval
    <3>2. ASSUME NEW c \in Caller, ConsumeGrant(c), call[c].req = r
          PROVE  status'[r] = "consumed"
      BY <2>0, <3>2 DEF ConsumeGrant, RowInv, ComparedIsDecided, TypeOK
    <3>3. ASSUME NEW c \in Caller, Handler(c), granted'[r] # granted[r]
          PROVE  ConsumeGrant(c) /\ call[c].req = r
      BY <2>0, <3>3, QuietHandler
         DEF SubmitInsert, DecideExpired, DecideRecord, ConsumeGrant, historyVars, TypeOK
    <3> QED
      BY <3>1, <3>2, <3>3, QuietArrival
         DEF Next, Subscribe, AlarmFires, Restart, Tick, vars, historyVars
  <2>3. ASSUME status'[r] \in {"approved", "consumed"}
        PROVE  "approved" \in told'[r] /\ approvedAt'[r] < expires'[r]
    <3>1. CASE status[r] \in {"approved", "consumed"}
      <4>1. expires'[r] = expires[r]
        BY <3>1, <2>0 DEF OutcomeStep
      <4>2. "approved" \in told[r] /\ approvedAt[r] < expires[r]
        BY <3>1 DEF GrantStandsOnApproval
      <4>3. told[r] \subseteq told'[r] /\ approvedAt'[r] = approvedAt[r]
        <5>1. ASSUME NEW c \in Caller, DecideRecord(c)
              PROVE  told[r] \subseteq told'[r] /\ approvedAt'[r] = approvedAt[r]
          BY <5>1, <3>1, <2>0 DEF DecideRecord, TypeOK
        <5>2. CASE UNCHANGED <<told, approvedAt>>
          BY <5>2
        <5> QED
          BY <5>1, <5>2, QuietHandler, QuietArrival
             DEF Next, Subscribe, AlarmFires, Restart, Tick, vars, historyVars,
                 SubmitInsert, DecideExpired, ConsumeGrant
      <4> QED
        BY <4>1, <4>2, <4>3
    <3>2. CASE status[r] \notin {"approved", "consumed"}
      <4>1. ASSUME NEW c \in Caller, DecideRecord(c)
            PROVE  "approved" \in told'[r] /\ approvedAt'[r] < expires'[r]
        <5>0. call[c].pick \in {"approved", "denied", "view"}
          BY <2>0 DEF TypeOK, Call, Choice
        <5>1. call[c].req = r /\ call[c].pick = "approved" /\ expires[r] > now
          BY <4>1, <3>2, <2>3, <2>0, <5>0 DEF DecideRecord, TypeOK
        <5>2. /\ told' = [told EXCEPT ![r] = @ \cup {"approved"}]
              /\ approvedAt' = [approvedAt EXCEPT ![r] = now]
              /\ expires' = expires
          BY <5>1, <4>1, <3>2, <2>3, <2>0 DEF DecideRecord, TypeOK
        <5> QED
          BY <5>1, <5>2, <2>0 DEF TypeOK
      <4>2. ASSUME NEW c \in Caller, Handler(c) PROVE DecideRecord(c)
        <5>1. ~SubmitInsert(c)
          BY <3>2, <2>3, <2>0 DEF SubmitInsert, TypeOK
        <5>2. ~DecideExpired(c)
          BY <3>2, <2>3, <2>0 DEF DecideExpired, TypeOK
        <5>3. ~ConsumeGrant(c)
          BY <3>2, <2>3, <2>0 DEF ConsumeGrant, TypeOK
        <5> QED
          BY <4>2, <5>1, <5>2, <5>3, <3>2, <2>3, QuietHandler DEF rowVars
      <4>3. ~AlarmFires
        BY <3>2, <2>3 DEF AlarmFires, Expired
      <4>4. status' # status
        BY <3>2, <2>3
      <4> QED
        BY <4>1, <4>2, <4>3, <4>4, QuietArrival
           DEF Next, Subscribe, Restart, Tick, vars, rowVars
    <3> QED
      BY <3>1, <3>2
  <2> QED
    BY <2>1, <2>2, <2>3
<1> QED
  BY <1>1, <1>2, RowInvariant, PTL DEF Spec

-----------------------------------------------------------------------------
(* What holds when no event is delivered at an await on Web Crypto.        *)

\* One invocation at a time is inside Web Crypto, and what it has read of its
\* row is still so.
TurnInv ==
  /\ \A c, d \in Caller : call[c].op \in AtCrypto /\ call[d].op \in AtCrypto => c = d
  /\ \A c \in Caller :
       /\ call[c].op = "compare" => status[call[c].req] = "approved"
       /\ call[c].op = "hash" => call[c].seen = status[call[c].req]

\* A consumed row was granted once, any other row never.
GrantCount ==
  \A r \in Request : granted[r] = IF status[r] = "consumed" THEN 1 ELSE 0

LedgerInv == RowInv /\ TurnInv /\ GrantCount /\ DecisionPageTruthful

\* While an invocation stays inside Web Crypto nothing happens to the rows.
LEMMA Undisturbed ==
  ASSUME CryptoYields = FALSE, RowInv, [Next]_vars, NEW c \in Caller,
         call[c].op \in AtCrypto, call'[c] = call[c]
  PROVE  /\ status' = status
         /\ \A d \in Caller \ {c} : call'[d].op \in AtCrypto => call[d].op \in AtCrypto
<1> DEFINE Goal == /\ status' = status
                   /\ \A d \in Caller \ {c} : call'[d].op \in AtCrypto =>
                                              call[d].op \in AtCrypto
<1> SUFFICES Goal
  OBVIOUS
<1>0. call \in [Caller -> Call]
  BY DEF RowInv, TypeOK
<1>1. ASSUME NEW d \in Caller, HasTurn(d) PROVE d = c
  BY <1>1 DEF HasTurn
<1>2. ASSUME NEW d \in Caller, Handler(d) PROVE Goal
  <2>1. CASE HasTurn(d)
    <3>1. d = c
      BY <1>1, <2>1
    <3>2. call'[c] # call[c]
      BY <1>2, <3>1, <1>0 DEF Handler, SubmitInsert, Push, SubmitAnswer, DecideLoad,
         DecideConflict, DecideExpired, DecideRecord, ConsumeMismatch, ConsumeGrant, Return,
         Answered, AtCrypto, Call
    <3> QED
      BY <3>2
  <2>2. CASE ~HasTurn(d)
    <3>1. Return(d)
      BY <1>2, <2>2 DEF Handler, SubmitInsert, Push, SubmitAnswer, DecideLoad,
         DecideConflict, DecideExpired, DecideRecord, ConsumeMismatch, ConsumeGrant
    <3> QED
      BY <3>1, <1>0 DEF Return, rowVars, Idle, AtCrypto
  <2> QED
    BY <2>1, <2>2
<1>3. ASSUME NEW d \in Caller, Arrival(d) PROVE Goal
  <2>1. HasTurn(d) /\ call[d].op = "idle"
    BY <1>3 DEF Arrival, SubmitStart, DecideStart, ConsumeStart
  <2> QED
    BY <1>1, <2>1 DEF AtCrypto
<1>4. CASE Restart
  BY <1>4 DEF Restart, Idle, AtCrypto, rowVars
<1>5. CASE UNCHANGED <<status, call>>
  BY <1>5
<1> QED
  BY <1>2, <1>3, <1>4, <1>5
     DEF Next, Subscribe, AlarmFires, Quiescent, Tick, vars, rowVars

\* An invocation enters Web Crypto, or goes on to another of its awaits
\* there, only when no other one is inside.
LEMMA TurnTaken ==
  ASSUME CryptoYields = FALSE, RowInv, [Next]_vars, NEW c \in Caller,
         call'[c].op \in AtCrypto, call'[c] # call[c]
  PROVE  /\ HasTurn(c)
         /\ status' = status
         /\ \A d \in Caller \ {c} : call'[d] = call[d]
         /\ call'[c].op = "compare" => status[call'[c].req] = "approved"
         /\ call'[c].op = "hash" => call'[c].seen = status[call'[c].req]
<1> DEFINE Goal == /\ HasTurn(c)
                   /\ status' = status
                   /\ \A d \in Caller \ {c} : call'[d] = call[d]
                   /\ call'[c].op = "compare" => status[call'[c].req] = "approved"
                   /\ call'[c].op = "hash" => call'[c].seen = status[call'[c].req]
<1> SUFFICES Goal
  OBVIOUS
<1>0. call \in [Caller -> Call]
  BY DEF RowInv, TypeOK
<1>1. ASSUME NEW d \in Caller, Handler(d) PROVE DecideLoad(c) /\ d = c
  <2>1. CASE SubmitInsert(d) \/ (\E e \in Endpoint : Push(d, e)) \/ SubmitAnswer(d)
             \/ DecideConflict(d)
    BY <2>1, <1>0 DEF SubmitInsert, Push, SubmitAnswer, DecideConflict, Call, AtCrypto
  <2>2. CASE DecideExpired(d) \/ DecideRecord(d) \/ ConsumeMismatch(d) \/ Return(d)
             \/ ConsumeGrant(d)
    BY <2>2, <1>0 DEF DecideExpired, DecideRecord, ConsumeMismatch, Return, ConsumeGrant,
       Call, Idle, AtCrypto
  <2>3. CASE DecideLoad(d)
    BY <2>3, <1>0 DEF DecideLoad
  <2> QED
    BY <1>1, <2>1, <2>2, <2>3 DEF Handler
<1>2. ASSUME DecideLoad(c) PROVE Goal
  BY <1>2, <1>0 DEF DecideLoad, rowVars, Call
<1>3. ASSUME NEW d \in Caller, Arrival(d) PROVE Goal
  <2>1. ASSUME NEW r \in Request, NEW f \in Fingerprint, NEW t \in Timeout,
               SubmitStart(d, r, f, t)
        PROVE  Goal
    <3>1. c = d /\ call'[c].op = "mint"
      BY <2>1, <1>0 DEF SubmitStart, Idle
    <3> QED
      BY <2>1, <3>1, <1>0 DEF SubmitStart, rowVars
  <2>2. ASSUME NEW r \in Request, NEW a \in Choice \cup {"view"}, DecideStart(d, r, a)
        PROVE  Goal
    <3>1. c = d /\ call'[c].op = "mac"
      BY <2>2, <1>0 DEF DecideStart, Idle
    <3> QED
      BY <2>2, <3>1, <1>0 DEF DecideStart, rowVars
  <2>3. ASSUME NEW r \in Request, NEW f \in Fingerprint, ConsumeStart(d, r, f)
        PROVE  Goal
    <3>1. c = d /\ call'[c].op = "compare" /\ call'[c].req = r /\ MayCompare(r, f)
      BY <2>3, <1>0 DEF ConsumeStart, Idle, AtCrypto
    <3> QED
      BY <2>3, <3>1, <1>0 DEF ConsumeStart, MayCompare, rowVars
  <2> QED
    BY <1>3, <2>1, <2>2, <2>3 DEF Arrival
<1>4. ~Restart
  BY DEF Restart, Idle, AtCrypto
<1> QED
  BY <1>1, <1>2, <1>3, <1>4 DEF Next, Subscribe, AlarmFires, Tick, vars

LEMMA TurnStep ==
  ASSUME CryptoYields = FALSE, RowInv, TurnInv, [Next]_vars
  PROVE  TurnInv'
<1>1. ASSUME NEW c \in Caller, NEW d \in Caller, c # d,
             call'[c].op \in AtCrypto, call'[d].op \in AtCrypto
      PROVE  FALSE
  <2>1. CASE call'[c] = call[c] /\ call'[d] = call[d]
    BY <1>1, <2>1 DEF TurnInv
  <2>2. ASSUME NEW a \in Caller, NEW b \in Caller, a # b, call'[a] # call[a],
               call'[a].op \in AtCrypto, call'[b].op \in AtCrypto
        PROVE  FALSE
    BY <2>2, TurnTaken DEF HasTurn
  <2> QED
    BY <1>1, <2>1, <2>2
<1>2. ASSUME NEW c \in Caller, call'[c].op \in AtCrypto
      PROVE  /\ call'[c].op = "compare" => status'[call'[c].req] = "approved"
             /\ call'[c].op = "hash" => call'[c].seen = status'[call'[c].req]
  <2>1. CASE call'[c] = call[c]
    BY <1>2, <2>1, Undisturbed DEF TurnInv
  <2>2. CASE call'[c] # call[c]
    BY <1>2, <2>2, TurnTaken
  <2> QED
    BY <2>1, <2>2
<1> QED
  BY <1>1, <1>2 DEF TurnInv, AtCrypto

\* The steps that tell an operator of a decision or answer 204 find the row as
\* the invocation knows it.
LEMMA LedgerStep == CryptoYields = FALSE /\ LedgerInv /\ [Next]_vars => LedgerInv'
<1> SUFFICES ASSUME CryptoYields = FALSE, LedgerInv, [Next]_vars PROVE LedgerInv'
  OBVIOUS
<1> DEFINE Goal == GrantCount' /\ DecisionPageTruthful'
<1>0. /\ TypeOK /\ TypeOK' /\ RowInv' /\ TurnInv'
      /\ \A r \in Request : OutcomeStep(r)
  BY TypeStep, RowStep, TurnStep, OutcomeLemma DEF LedgerInv, RowInv
<1>1. ASSUME NEW c \in Caller, SubmitInsert(c) PROVE Goal
  <2>1. status[call[c].req] = "none"
    BY <1>1 DEF SubmitInsert, LedgerInv, RowInv, MintIsFresh
  <2> QED
    BY <1>0, <1>1, <2>1
       DEF SubmitInsert, LedgerInv, GrantCount, DecisionPageTruthful, TypeOK, historyVars
<1>2. ASSUME NEW c \in Caller, DecideExpired(c) PROVE Goal
  BY <1>0, <1>2 DEF DecideExpired, LedgerInv, GrantCount, DecisionPageTruthful, TypeOK,
     historyVars
<1>3. ASSUME NEW c \in Caller, DecideRecord(c) PROVE Goal
  <2> DEFINE r == call[c].req
  <2>1. status[r] = "pending" /\ r \in Request /\ call[c].pick \in {"approved", "denied", "view"}
    BY <1>0, <1>3 DEF DecideRecord, LedgerInv, TurnInv, TypeOK, Call, Choice
  <2>2. told[r] = {}
    BY <2>1, <1>0 DEF LedgerInv, DecisionPageTruthful, TypeOK, Choice
  <2>3. CASE call[c].pick = "view"
    BY <1>0, <1>3, <2>3 DEF DecideRecord, LedgerInv, GrantCount, DecisionPageTruthful
  <2>4. CASE call[c].pick # "view"
    <3>1. /\ status' = [status EXCEPT ![r] = call[c].pick]
          /\ told' = [told EXCEPT ![r] = {call[c].pick}]
          /\ granted' = granted
      BY <1>0, <1>3, <2>1, <2>2, <2>4 DEF DecideRecord, TypeOK
    <3> QED
      BY <1>0, <2>1, <2>4, <3>1 DEF LedgerInv, GrantCount, DecisionPageTruthful, TypeOK
  <2> QED
    BY <2>3, <2>4
<1>4. ASSUME NEW c \in Caller, ConsumeGrant(c) PROVE Goal
  <2>1. status[call[c].req] = "approved" /\ call[c].req \in Request
    BY <1>0, <1>4 DEF ConsumeGrant, LedgerInv, TurnInv, TypeOK
  <2> QED
    BY <1>0, <1>4, <2>1 DEF ConsumeGrant, LedgerInv, GrantCount, DecisionPageTruthful, TypeOK
<1>5. ASSUME AlarmFires PROVE Goal
  BY <1>0, <1>5 DEF AlarmFires, Expired, LedgerInv, GrantCount, DecisionPageTruthful, TypeOK,
     historyVars
<1>6. ASSUME status' = status, granted' = granted, told' = told PROVE Goal
  <2>1. GrantCount'
    BY <1>6 DEF LedgerInv, GrantCount
  <2>2. DecisionPageTruthful'
    BY <1>6 DEF LedgerInv, DecisionPageTruthful
  <2> QED
    BY <2>1, <2>2
<1>7. Goal
  <2>1. ASSUME NEW c \in Caller, Handler(c) PROVE Goal
    BY <1>1, <1>2, <1>3, <1>4, <1>6, <2>1, QuietHandler DEF rowVars
  <2>2. ASSUME NEW c \in Caller, Arrival(c) PROVE Goal
    BY <1>6, <2>2, QuietArrival DEF rowVars
  <2>3. ASSUME (\E e \in Endpoint : Subscribe(e)) \/ Restart \/ Tick \/ UNCHANGED vars
        PROVE  Goal
    BY <1>6, <2>3 DEF Subscribe, Restart, Tick, vars, rowVars, historyVars
  <2> QED
    BY <1>5, <2>1, <2>2, <2>3 DEF Next
<1> QED
  BY <1>0, <1>7 DEF LedgerInv

LEMMA LedgerInvariant ==
  ASSUME CryptoYields = FALSE
  PROVE  Spec => []LedgerInv
<1>1. Init => LedgerInv
  <2> SUFFICES ASSUME Init PROVE LedgerInv
    OBVIOUS
  <2>1. RowInv
    BY JanusAssumption, IdleCall DEF Init, RowInv, TypeOK, MintIsFresh, ComparedIsDecided, Idle
  <2>2. TurnInv
    BY DEF Init, TurnInv, Idle, AtCrypto
  <2>3. GrantCount /\ DecisionPageTruthful
    BY DEF Init, GrantCount, DecisionPageTruthful
  <2> QED
    BY <2>1, <2>2, <2>3 DEF LedgerInv
<1>2. LedgerInv /\ [Next]_vars => LedgerInv'
  BY LedgerStep
<1> QED
  BY <1>1, <1>2, PTL DEF Spec

\* _handleConsume answers 204 at most once for a request id, whatever retried
\* and concurrent calls and restarts there are.
THEOREM OneGrantPerApproval ==
  ASSUME CryptoYields = FALSE
  PROVE  Spec => []SingleGrant
<1>1. LedgerInv => SingleGrant
  BY DEF LedgerInv, GrantCount, SingleGrant
<1> QED
  BY <1>1, LedgerInvariant, PTL

\* An operator who was told that a decision is recorded was told the truth,
\* and it stays true.
THEOREM ToldIsRecorded ==
  ASSUME CryptoYields = FALSE
  PROVE  Spec => []DecisionPageTruthful
<1>1. LedgerInv => DecisionPageTruthful
  BY DEF LedgerInv
<1> QED
  BY <1>1, LedgerInvariant, PTL

-----------------------------------------------------------------------------
(* The object implements the abstract ledger.                              *)

LEMMA PhaseValues ==
  /\ PhaseOf("none") = "unused"
  /\ PhaseOf("pending") = "waiting"
  /\ PhaseOf("approved") = "approved"
  /\ PhaseOf("denied") = "refused"
  /\ PhaseOf("expired") = "refused"
  /\ PhaseOf("consumed") = "spent"
BY DEF PhaseOf

\* Denying or expiring one request refuses it.
LEMMA RefuseOne ==
  ASSUME TypeOK, NEW r \in Request, status[r] = "pending",
         NEW v \in {"denied", "expired"}, status' = [status EXCEPT ![r] = v],
         digest' = digest, granted' = granted
  PROVE  Ledger!Refuse({r})
<1>1. PhaseOf(v) = "refused"
  BY PhaseValues
<1>2. [q \in Request |-> PhaseOf(status'[q])]
        = [q \in Request |-> IF q \in {r} THEN "refused"
                             ELSE [p \in Request |-> PhaseOf(status[p])][q]]
  BY <1>1 DEF TypeOK
<1> QED
  BY <1>2, PhaseValues DEF Ledger!Refuse

\* A step that inserts, decides, expires or consumes is the ledger's step of
\* that kind; every other one is a stutter.
LEMMA LedgerRefines ==
  ASSUME CryptoYields = FALSE, LedgerInv, LedgerInv', [Next]_vars
  PROVE  [Ledger!LedgerNext]_(Ledger!ledgerVars)
<1> DEFINE Goal == [Ledger!LedgerNext]_(Ledger!ledgerVars)
<1>0. TypeOK /\ TypeOK' /\ RowInv
  BY DEF LedgerInv, RowInv
<1>1. ASSUME NEW c \in Caller, SubmitInsert(c) PROVE Goal
  <2> DEFINE r == call[c].req
  <2>1. /\ r \in Request /\ call[c].fp \in Fingerprint
        /\ status[r] = "none"
    BY <1>0, <1>1 DEF SubmitInsert, RowInv, MintIsFresh, TypeOK
  <2>2. /\ status' = [status EXCEPT ![r] = "pending"]
        /\ digest' = [digest EXCEPT ![r] = call[c].fp] /\ granted' = granted
    BY <1>1 DEF SubmitInsert, historyVars
  <2>3. [q \in Request |-> PhaseOf(status'[q])]
          = [[q \in Request |-> PhaseOf(status[q])] EXCEPT ![r] = "waiting"]
    BY <1>0, <2>1, <2>2, PhaseValues DEF TypeOK
  <2>4. Ledger!Open(r, call[c].fp)
    BY <2>1, <2>2, <2>3, PhaseValues DEF Ledger!Open
  <2> QED
    BY <2>1, <2>4 DEF Ledger!LedgerNext
<1>2. ASSUME NEW c \in Caller, DecideExpired(c) PROVE Goal
  <2> DEFINE r == call[c].req
  <2>1. CASE status[r] = "pending"
    <3>1. r \in Request
      BY <1>0, <1>2 DEF DecideExpired, TypeOK
    <3>2. status' = [status EXCEPT ![r] = "expired"] /\ digest' = digest /\ granted' = granted
      BY <1>2, <2>1 DEF DecideExpired, LedgerInv, TurnInv, historyVars
    <3>3. Ledger!Refuse({r})
      BY <1>0, <2>1, <3>1, <3>2, RefuseOne
    <3> QED
      BY <3>1, <3>3 DEF Ledger!LedgerNext
  <2>2. CASE status[r] # "pending"
    BY <1>2, <2>2 DEF DecideExpired, Ledger!ledgerVars, historyVars
  <2> QED
    BY <2>1, <2>2
<1>3. ASSUME NEW c \in Caller, DecideRecord(c) PROVE Goal
  <2> DEFINE r == call[c].req
  <2>1. /\ status[r] = "pending" /\ r \in Request
        /\ call[c].pick \in {"approved", "denied", "view"}
    BY <1>0, <1>3 DEF DecideRecord, LedgerInv, TurnInv, TypeOK, Call, Choice
  <2>2. CASE call[c].pick = "view"
    BY <1>3, <2>2 DEF DecideRecord, Ledger!ledgerVars
  <2>3. CASE call[c].pick = "approved"
    <3>0. status' = [status EXCEPT ![r] = "approved"] /\ digest' = digest /\ granted' = granted
      BY <1>3, <2>1, <2>3 DEF DecideRecord
    <3>1. [q \in Request |-> PhaseOf(status'[q])]
            = [[q \in Request |-> PhaseOf(status[q])] EXCEPT ![r] = "approved"]
      BY <1>0, <2>1, <3>0, PhaseValues DEF TypeOK
    <3>2. Ledger!Approve(r)
      BY <2>1, <3>0, <3>1, PhaseValues DEF Ledger!Approve
    <3> QED
      BY <2>1, <3>2 DEF Ledger!LedgerNext
  <2>4. CASE call[c].pick = "denied"
    <3>0. status' = [status EXCEPT ![r] = "denied"] /\ digest' = digest /\ granted' = granted
      BY <1>3, <2>1, <2>4 DEF DecideRecord
    <3>1. Ledger!Refuse({r})
      BY <1>0, <2>1, <3>0, RefuseOne
    <3> QED
      BY <2>1, <3>1 DEF Ledger!LedgerNext
  <2> QED
    BY <2>1, <2>2, <2>3, <2>4
<1>4. ASSUME NEW c \in Caller, ConsumeGrant(c) PROVE Goal
  <2> DEFINE r == call[c].req
  <2>1. status[r] = "approved" /\ r \in Request /\ digest[r] \in Fingerprint
    BY <1>0, <1>4
       DEF ConsumeGrant, LedgerInv, TurnInv, RowInv, ComparedIsDecided, TypeOK
  <2>2. /\ status' = [status EXCEPT ![r] = "consumed"]
        /\ granted' = [granted EXCEPT ![r] = @ + 1] /\ digest' = digest
    BY <1>4, <2>1 DEF ConsumeGrant
  <2>3. [q \in Request |-> PhaseOf(status'[q])]
          = [[q \in Request |-> PhaseOf(status[q])] EXCEPT ![r] = "spent"]
    BY <1>0, <2>1, <2>2, PhaseValues DEF TypeOK
  <2>4. Ledger!Spend(r, digest[r])
    BY <2>1, <2>2, <2>3, PhaseValues DEF Ledger!Spend
  <2> QED
    BY <2>1, <2>4 DEF Ledger!LedgerNext
<1>5. ASSUME AlarmFires PROVE Goal
  <2> DEFINE R == {r \in Request : status[r] = "pending" /\ expires[r] <= now}
  <2>1. /\ status' = [r \in Request |-> IF r \in R THEN "expired" ELSE status[r]]
        /\ digest' = digest /\ granted' = granted
    BY <1>0, <1>5 DEF AlarmFires, Expired, historyVars
  <2>2. CASE R = {}
    <3>1. status' = status
      BY <1>0, <2>1, <2>2 DEF TypeOK
    <3> QED
      BY <2>1, <3>1 DEF Ledger!ledgerVars
  <2>3. CASE R # {}
    <3>1. Ledger!Refuse(R)
      BY <1>0, <2>1, <2>3, PhaseValues DEF Ledger!Refuse, TypeOK
    <3> QED
      BY <3>1 DEF Ledger!LedgerNext
  <2> QED
    BY <2>2, <2>3
<1>6. ASSUME status' = status, digest' = digest, granted' = granted PROVE Goal
  BY <1>6 DEF Ledger!ledgerVars
<1> QED
  BY <1>1, <1>2, <1>3, <1>4, <1>5, <1>6, QuietHandler, QuietArrival
     DEF Next, Subscribe, Restart, Tick, vars, rowVars, historyVars

\* The table of requests, with its awaits, stale reads, alarms and restarts,
\* is an approval ledger.
THEOREM JanusImplementsLedger ==
  ASSUME CryptoYields = FALSE
  PROVE  Spec => ImplementsLedger
<1>1. Init => Ledger!LedgerInit
  BY DEF Init, Ledger!LedgerInit, PhaseOf
<1>2. LedgerInv /\ LedgerInv' /\ [Next]_vars => [Ledger!LedgerNext]_(Ledger!ledgerVars)
  BY LedgerRefines
<1> QED
  BY <1>1, <1>2, LedgerInvariant, PTL DEF Spec, ImplementsLedger, Ledger!LedgerSpec
=============================================================================
