------------------------- MODULE GatedRequest_proofs -------------------------
(***************************************************************************)
(* Proofs about GatedRequest for every set of calls, requests and policy   *)
(* versions, whatever bodies the calls have and whether or not KV serves   *)
(* overwritten entries.                                                    *)
(***************************************************************************)
EXTENDS GatedRequest, FiniteSetTheorems, TLAPS

-----------------------------------------------------------------------------
(* The inductive invariant.                                                *)

\* TypeOK, and that an approval has been spent once when its request is spent
\* and not at all otherwise.
Typed ==
  /\ TypeOK
  /\ \A r \in Request : phase[r] # "spent" => spends[r] = 0

\* No provider answers 202 itself.  Where one does, send_worker_request_with_gate
\* takes its answer for a gate's.
NoAccepted == "accepted" \notin UpstreamAnswer

\* Where the coroutine of a call is tells where its two invocations are: the
\* second one starts with the request that the first one was held with.
Chain(t) ==
  LET a == job[t][1]
      b == job[t][2]
      c == task[t]
  IN
  /\ c.at = "new" => a.st = "none"
  /\ c.at \in {"new", "sent", "polling"} => b.st = "none"
  /\ c.at \in {"polling", "resent"} => c.rid = a.rid /\ a.ans = "held"
  /\ a.ans = "held" => a.rid \in Request
  /\ a.rid # NoRequest => a.st = "answered" /\ a.ans = "held"
  /\ a.st # "answered" => a.ans = "none"
  /\ b.st # "none" => b.rid = a.rid /\ b.rid \in Request
  /\ NoAccepted /\ c.at = "done" /\ c.ans \in GateRefusal =>
       a.st = "answered" /\ a.ans = "held" /\ b.st = "none"

\* An invocation has executed once it has answered with an answer of the
\* provider, and it has read a policy before.
Ran(t, n) ==
  LET j == job[t][n] IN
  /\ <<t, n>> \in executed => j.st = "answered" /\ j.ans \in UpstreamAnswer
  /\ j.st \in {"read", "cleared"} \/ <<t, n>> \in executed => j.key \in Version

\* The first invocation passes without a gate or not at all; the second one
\* passes a gate with the approval of its request.
Paid(t) ==
  LET a == job[t][1]
      b == job[t][2]
  IN
  /\ a.st = "cleared" \/ <<t, 1>> \in executed => a.pol \notin Gated
  /\ (b.st = "cleared" \/ <<t, 2>> \in executed) /\ b.pol \in Gated =>
       phase[b.rid] = "spent" /\ bound[b.rid] = Digest(t, 2)

\* A request belongs to one call.
Owned ==
  /\ \A t \in Task : job[t][1].rid \in Request => phase[job[t][1].rid] # "unused"
  /\ \A t, u \in Task :
       job[t][1].rid = job[u][1].rid /\ job[t][1].rid \in Request => t = u

Inv ==
  /\ Typed
  /\ \A t \in Task : Chain(t) /\ Paid(t) /\ \A n \in Try : Ran(t, n)
  /\ Owned

-----------------------------------------------------------------------------
(* Types.                                                                  *)

LEMMA Constants ==
  /\ Version \subseteq Nat /\ 1 \in Version /\ LastVersion \in Nat
  /\ NoVersion \notin Version /\ NoRequest \notin Request
  /\ \A v \in Version : v < LastVersion => v + 1 \in Version
BY GatedRequestAssumption DEF Version

LEMMA NoJobType == NoJob \in Job
BY DEF NoJob, Job

LEMMA TypedInit == Init => Typed
<1> SUFFICES ASSUME Init PROVE Typed
  OBVIOUS
<1>1. task \in [Task -> TaskState]
  BY DEF Init, TaskState
<1>2. job \in [Task -> [Try -> Job]]
  BY NoJobType DEF Init
<1>3. /\ phase = [r \in Request |-> "unused"]
      /\ bound = [r \in Request |-> NoFingerprint]
      /\ spends = [r \in Request |-> 0]
  BY DEF Init, Ledger!LedgerInit
<1> QED
  BY <1>1, <1>2, <1>3, Constants DEF Init, Typed, TypeOK

\* A policy that was read makes a fingerprint.
LEMMA DigestType ==
  ASSUME Typed, NEW t \in Task, NEW n \in Try, job[t][n].key \in Version
  PROVE  Digest(t, n) \in Fingerprint
<1>1. Body[t] \in Content
  BY DEF Content
<1> QED
  BY <1>1 DEF Digest, Fingerprint

\* An invocation changes one job; the others stay.
LEMMA JobStep ==
  ASSUME Typed, NEW t \in Task, NEW n \in Try, NEW j \in Job,
         job' = [job EXCEPT ![t][n] = j]
  PROVE  /\ job' \in [Task -> [Try -> Job]]
         /\ job'[t][n] = j
         /\ \A u \in Task, m \in Try : <<u, m>> # <<t, n>> => job'[u][m] = job[u][m]
BY DEF Typed, TypeOK

LEMMA AnswerStep ==
  ASSUME Typed, NEW t \in Task, NEW n \in Try, NEW a \in JobAnswer, Answer(t, n, a)
  PROVE  /\ job' \in [Task -> [Try -> Job]]
         /\ job'[t][n] = [job[t][n] EXCEPT !.st = "answered", !.ans = a]
         /\ \A u \in Task, m \in Try : <<u, m>> # <<t, n>> => job'[u][m] = job[u][m]
<1> DEFINE j == [job[t][n] EXCEPT !.st = "answered", !.ans = a]
<1>1. job[t][n] \in Job /\ job \in [Task -> [Try -> Job]]
  BY DEF Typed, TypeOK
<1>2. j \in Job
  BY <1>1 DEF Job
<1>3. job' = [job EXCEPT ![t][n] = j]
  BY <1>1 DEF Answer
<1> HIDE DEF j
<1>4. job' \in [Task -> [Try -> Job]] /\ job'[t][n] = j
      /\ \A u \in Task, m \in Try : <<u, m>> # <<t, n>> => job'[u][m] = job[u][m]
  BY <1>1, <1>2, <1>3
<1> QED
  BY <1>4 DEF j

LEMMA FinishStep ==
  ASSUME Typed, NEW t \in Task, NEW a \in JobAnswer \cup GateRefusal \cup {"none", "no_answer"},
         Finish(t, a)
  PROVE  /\ task' \in [Task -> TaskState]
         /\ task'[t] = [task[t] EXCEPT !.at = "done", !.ans = a]
         /\ \A u \in Task : u # t => task'[u] = task[u]
<1> DEFINE c == [task[t] EXCEPT !.at = "done", !.ans = a]
<1>1. task[t] \in TaskState /\ task \in [Task -> TaskState]
  BY DEF Typed, TypeOK
<1>2. c \in TaskState
  BY <1>1 DEF TaskState
<1>3. task' = [task EXCEPT ![t] = c]
  BY <1>1 DEF Finish
<1> HIDE DEF c
<1>4. task' \in [Task -> TaskState] /\ task'[t] = c /\ \A u \in Task : u # t => task'[u] = task[u]
  BY <1>1, <1>2, <1>3
<1> QED
  BY <1>4 DEF c

\* What the ledger's three variables must be.
LedgerTyped ==
  /\ phase \in [Request -> {"unused", "waiting", "approved", "refused", "spent"}]
  /\ bound \in [Request -> Fingerprint \cup {NoFingerprint}]
  /\ spends \in [Request -> 0..1]
  /\ \A r \in Request : phase[r] # "spent" => spends[r] = 0

LEMMA LedgerStep ==
  ASSUME Typed, NEW r \in Request,
         \/ \E f \in Fingerprint : Ledger!Open(r, f) \/ Ledger!Spend(r, f)
         \/ Ledger!Approve(r) \/ Ledger!Refuse({r})
         \/ UNCHANGED <<phase, bound, spends>>
  PROVE  LedgerTyped'
<1>1. LedgerTyped
  BY DEF LedgerTyped, Typed, TypeOK
<1>2. CASE \E f \in Fingerprint : Ledger!Open(r, f)
  BY <1>1, <1>2 DEF LedgerTyped, Ledger!Open
<1>3. ASSUME NEW f \in Fingerprint, Ledger!Spend(r, f) PROVE LedgerTyped'
  <2>1. spends[r] = 0 /\ spends' = [spends EXCEPT ![r] = @ + 1]
        /\ phase' = [phase EXCEPT ![r] = "spent"] /\ bound' = bound
    BY <1>1, <1>3 DEF LedgerTyped, Ledger!Spend
  <2>2. spends' \in [Request -> 0..1]
    BY <1>1, <2>1 DEF LedgerTyped
  <2> QED
    BY <1>1, <2>1, <2>2 DEF LedgerTyped
<1>4. CASE Ledger!Approve(r)
  BY <1>1, <1>4 DEF LedgerTyped, Ledger!Approve
<1>5. CASE Ledger!Refuse({r})
  BY <1>1, <1>5 DEF LedgerTyped, Ledger!Refuse
<1>6. CASE UNCHANGED <<phase, bound, spends>>
  BY <1>1, <1>6 DEF LedgerTyped
<1> QED
  BY <1>2, <1>3, <1>4, <1>5, <1>6

\* Typed has a part for each group of variables.
LEMMA TypedParts ==
  ASSUME local' \in Version, entry' \in Version, old' \in SUBSET Version,
         task' \in [Task -> TaskState], job' \in [Task -> [Try -> Job]],
         executed' \in SUBSET (Task \X Try), LedgerTyped'
  PROVE  Typed'
BY DEF Typed, TypeOK, LedgerTyped

LEMMA LedgerStays ==
  ASSUME Typed, UNCHANGED <<phase, bound, spends>>
  PROVE  LedgerTyped'
BY DEF Typed, TypeOK, LedgerTyped

\* Every step of the proxy keeps the types.
LEMMA TypedProxy ==
  ASSUME Typed, NEW t \in Task, Proxy(t)
  PROVE  Typed'
<1>1. UNCHANGED <<kvVars, executed, phase, bound, spends>>
  BY DEF Proxy, Progress, Send, ReceiveFirst, ReceiveSecond, GiveUp, PollApproved,
         PollResolved, PollTimesOut, PollFails
<1>2. task[t] \in TaskState /\ task \in [Task -> TaskState]
      /\ job[t][1] \in Job /\ job[t][2] \in Job /\ job \in [Task -> [Try -> Job]]
      /\ local \in Version
  BY DEF Typed, TypeOK, Try
<1>3. task' \in [Task -> TaskState]
  <2>1. CASE Send(t)
    <3>1. [task[t] EXCEPT !.at = "sent", !.rec = local] \in TaskState
      BY <1>2 DEF TaskState
    <3> QED
      BY <1>2, <2>1, <3>1 DEF Send
  <2>2. CASE ReceiveFirst(t)
    <3>1. job[t][1].ans \in JobAnswer \cup {"none"} /\ job[t][1].rid \in Request \cup {NoRequest}
      BY <1>2 DEF Job
    <3>2. CASE \E a \in JobAnswer \cup GateRefusal \cup {"none", "no_answer"} : Finish(t, a)
      BY <3>2, FinishStep
    <3>3. CASE task' = [task EXCEPT ![t] = [@ EXCEPT !.at = "polling", !.rid = job[t][1].rid]]
      <4>1. [task[t] EXCEPT !.at = "polling", !.rid = job[t][1].rid] \in TaskState
        BY <1>2, <3>1 DEF TaskState
      <4> QED
        BY <1>2, <3>3, <4>1
    <3>4. "janus_invalid" \in GateRefusal
      BY DEF GateRefusal
    <3> QED
      BY <2>2, <3>1, <3>2, <3>3, <3>4 DEF ReceiveFirst
  <2>3. CASE ReceiveSecond(t)
    <3>1. job[t][2].ans \in JobAnswer \cup {"none"}
      BY <1>2 DEF Job
    <3> QED
      BY <2>3, <3>1, FinishStep DEF ReceiveSecond
  <2>4. CASE GiveUp(t) \/ PollResolved(t) \/ PollTimesOut(t) \/ PollFails(t)
    <3>1. \E a \in GateRefusal \cup {"no_answer"} : Finish(t, a)
      BY <2>4 DEF GiveUp, PollResolved, PollTimesOut, PollFails, GateRefusal
    <3> QED
      BY <3>1, FinishStep
  <2>5. CASE PollApproved(t)
    <3>1. [task[t] EXCEPT !.at = "resent"] \in TaskState
      BY <1>2 DEF TaskState
    <3> QED
      BY <1>2, <2>5, <3>1 DEF PollApproved
  <2> QED
    BY <2>1, <2>2, <2>3, <2>4, <2>5 DEF Proxy, Progress
<1>4. job' \in [Task -> [Try -> Job]]
  <2>1. CASE Send(t)
    <3>1. [job[t][1] EXCEPT !.st = "arrived"] \in Job
      BY <1>2 DEF Job
    <3> QED
      BY <1>2, <2>1, <3>1 DEF Send, Try
  <2>2. CASE PollApproved(t)
    <3>1. [job[t][2] EXCEPT !.st = "arrived", !.rid = task[t].rid] \in Job
      BY <1>2 DEF Job, TaskState
    <3> QED
      BY <1>2, <2>2, <3>1 DEF PollApproved, Try
  <2>3. CASE job' = job
    BY <1>2, <2>3
  <2> QED
    BY <2>1, <2>2, <2>3 DEF Proxy, Progress, ReceiveFirst, ReceiveSecond, GiveUp,
                            PollResolved, PollTimesOut, PollFails
<1> QED
  BY <1>1, <1>3, <1>4, LedgerStays, TypedParts DEF kvVars, Typed, TypeOK

\* Every step of an invocation keeps the types.
LEMMA TypedWorker ==
  ASSUME Typed, NEW t \in Task, NEW n \in Try, Worker(t, n),
         job[t][n].st = "read" => job[t][n].key \in Version
  PROVE  Typed'
<1>1. UNCHANGED <<kvVars, task>>
  BY DEF Worker, Deny, ReadPolicy, PassUngated, Submit, Consume, Dispatch
<1>2. /\ job[t][n] \in Job /\ job \in [Task -> [Try -> Job]]
      /\ entry \in Version /\ old \in SUBSET Version
      /\ executed \in SUBSET (Task \X Try)
  BY DEF Typed, TypeOK
<1>3. {"held", "denied", "gate_error", "vault_error"} \subseteq JobAnswer
      /\ UpstreamAnswer \subseteq JobAnswer
  BY DEF JobAnswer
<1>4. [job[t][n] EXCEPT !.st = "cleared"] \in Job
  BY <1>2 DEF Job
<1>5. job' = [job EXCEPT ![t][n] = [@ EXCEPT !.st = "cleared"]] =>
        job' \in [Task -> [Try -> Job]]
  BY <1>2, <1>4
<1>6. (\E a \in JobAnswer : Answer(t, n, a)) => job' \in [Task -> [Try -> Job]]
  BY AnswerStep
<1>7. CASE Deny(t, n)
  BY <1>1, <1>2, <1>3, <1>6, <1>7, LedgerStays, TypedParts DEF Deny, kvVars, Typed, TypeOK
<1>8. CASE ReadPolicy(t, n)
  <2>1. PICK k, p \in Readable :
           job' = [job EXCEPT ![t][n] = [@ EXCEPT !.key = k, !.pol = p, !.st = "read"]]
    BY <1>8 DEF ReadPolicy
  <2>2. k \in Version /\ p \in Version
    BY <1>2 DEF Readable
  <2>3. [job[t][n] EXCEPT !.key = k, !.pol = p, !.st = "read"] \in Job
    BY <1>2, <2>2 DEF Job
  <2>4. job' \in [Task -> [Try -> Job]]
    BY <1>2, <2>1, <2>3
  <2> QED
    BY <1>1, <1>8, <2>4, LedgerStays, TypedParts DEF ReadPolicy, kvVars, Typed, TypeOK
<1>9. CASE PassUngated(t, n)
  BY <1>1, <1>5, <1>9, LedgerStays, TypedParts DEF PassUngated, kvVars, Typed, TypeOK
<1>10. CASE Submit(t, n)
  <2>1. Digest(t, n) \in Fingerprint
    BY <1>10, DigestType DEF Submit
  <2>2. job' \in [Task -> [Try -> Job]]
    <3>1. ASSUME NEW r \in Request,
                 job' = [job EXCEPT ![t][n] = [@ EXCEPT !.st = "answered", !.ans = "held", !.rid = r]]
          PROVE  job' \in [Task -> [Try -> Job]]
      <4>1. [job[t][n] EXCEPT !.st = "answered", !.ans = "held", !.rid = r] \in Job
        BY <1>2, <1>3 DEF Job
      <4> QED
        BY <1>2, <3>1, <4>1
    <3> QED
      BY <1>3, <1>6, <1>10, <3>1 DEF Submit
  <2>3. LedgerTyped'
    <3>1. CASE \E r \in Request : Ledger!Open(r, Digest(t, n))
      BY <2>1, <3>1, LedgerStep
    <3>2. CASE UNCHANGED <<phase, bound, spends>>
      BY <3>2, LedgerStays
    <3> QED
      BY <1>10, <3>1, <3>2 DEF Submit
  <2> QED
    BY <1>1, <1>10, <2>2, <2>3, TypedParts DEF Submit, kvVars, Typed, TypeOK
<1>11. CASE Consume(t, n)
  <2>1. Digest(t, n) \in Fingerprint
    BY <1>11, DigestType DEF Consume
  <2>2. job' \in [Task -> [Try -> Job]]
    BY <1>3, <1>5, <1>6, <1>11 DEF Consume
  <2>3. LedgerTyped'
    <3>1. job[t][n].rid \in Request
      BY <1>2, <1>11 DEF Consume, Job
    <3>2. CASE Ledger!Spend(job[t][n].rid, Digest(t, n))
      BY <2>1, <3>1, <3>2, LedgerStep
    <3>3. CASE UNCHANGED <<phase, bound, spends>>
      BY <3>3, LedgerStays
    <3> QED
      BY <1>11, <3>2, <3>3 DEF Consume
  <2> QED
    BY <1>1, <1>11, <2>2, <2>3, TypedParts DEF Consume, kvVars, Typed, TypeOK
<1>12. CASE Dispatch(t, n)
  <2>1. job' \in [Task -> [Try -> Job]]
    BY <1>3, <1>6, <1>12 DEF Dispatch
  <2>2. executed' \in SUBSET (Task \X Try)
    BY <1>2, <1>12 DEF Dispatch
  <2> QED
    BY <1>1, <1>12, <2>1, <2>2, LedgerStays, TypedParts DEF Dispatch, kvVars, Typed, TypeOK
<1> QED
  BY <1>7, <1>8, <1>9, <1>10, <1>11, <1>12 DEF Worker

LEMMA TypedOthers ==
  ASSUME Typed, Admin \/ (\E r \in Request : Decide(r)) \/ UNCHANGED vars
  PROVE  Typed'
<1>1. CASE Reseal
  BY <1>1, Constants, LedgerStays, TypedParts DEF Reseal, Typed, TypeOK
<1>2. CASE Publish
  BY <1>2, LedgerStays, TypedParts DEF Publish, Typed, TypeOK
<1>3. CASE Propagate
  BY <1>3, LedgerStays, TypedParts DEF Propagate, Typed, TypeOK
<1>4. CASE \E r \in Request : Decide(r)
  BY <1>4, LedgerStep, TypedParts DEF Decide, kvVars, Typed, TypeOK
<1>5. CASE UNCHANGED vars
  BY <1>5, LedgerStays, TypedParts DEF vars, kvVars, Typed, TypeOK
<1> QED
  BY <1>1, <1>2, <1>3, <1>4, <1>5 DEF Admin

-----------------------------------------------------------------------------
(* What one call does leaves the others alone.                             *)

\* The steps of the proxy and of the Worker for one call.
Moves(t) == Proxy(t) \/ \E n \in Try : Worker(t, n)

LEMMA OthersStay ==
  ASSUME Typed, NEW t \in Task, Moves(t)
  PROVE  \A u \in Task \ {t} :
           /\ job'[u] = job[u] /\ task'[u] = task[u]
           /\ \A n \in Try : <<u, n>> \in executed' <=> <<u, n>> \in executed
<1>1. job \in [Task -> [Try -> Job]] /\ task \in [Task -> TaskState]
  BY DEF Typed, TypeOK
<1>2. CASE Proxy(t)
  BY <1>1, <1>2 DEF Proxy, Progress, Send, ReceiveFirst, ReceiveSecond, GiveUp, PollApproved,
                    PollResolved, PollTimesOut, PollFails, Finish
<1>3. ASSUME NEW n \in Try, Worker(t, n)
      PROVE  \A u \in Task \ {t} : /\ job'[u] = job[u] /\ task'[u] = task[u]
                                   /\ \A m \in Try : <<u, m>> \in executed' <=> <<u, m>> \in executed
  <2>1. task' = task
    BY <1>3 DEF Worker, Deny, ReadPolicy, PassUngated, Submit, Consume, Dispatch, kvVars
  <2>2. executed' = executed \/ executed' = executed \cup {<<t, n>>}
    BY <1>3 DEF Worker, Deny, ReadPolicy, PassUngated, Submit, Consume, Dispatch, kvVars
  <2>3. \E j : job' = [job EXCEPT ![t][n] = j]
    <3>1. CASE \E a : Answer(t, n, a)
      BY <3>1 DEF Answer
    <3>2. CASE Deny(t, n) \/ Dispatch(t, n)
      BY <3>1, <3>2 DEF Deny, Dispatch
    <3>3. CASE ReadPolicy(t, n) \/ PassUngated(t, n)
      BY <3>3 DEF ReadPolicy, PassUngated
    <3>4. CASE Submit(t, n)
      BY <3>1, <3>4 DEF Submit
    <3>5. CASE Consume(t, n)
      BY <3>1, <3>5 DEF Consume
    <3> QED
      BY <1>3, <3>2, <3>3, <3>4, <3>5 DEF Worker
  <2> QED
    BY <1>1, <2>1, <2>2, <2>3
<1> QED
  BY <1>2, <1>3 DEF Moves

\* An invocation that moves is past its arrival, keeps its request or is held
\* with a new one, and touches nothing else of its call.
LEMMA WorkerEffect ==
  ASSUME Typed, NEW t \in Task, NEW n \in Try, Worker(t, n)
  PROVE  LET j == job[t][n]  k == job'[t][n] IN
         /\ task'[t] = task[t]
         /\ \A m \in Try \ {n} : job'[t][m] = job[t][m]
         /\ j.st \in {"arrived", "read", "cleared"} /\ k.st # "none"
         /\ \/ k.rid = j.rid /\ k.ans # "held"
            \/ k.rid = j.rid /\ k.ans = j.ans
            \/ /\ j.rid = NoRequest /\ k.rid \in Request
               /\ k.ans = "held" /\ k.st = "answered"
         /\ k.st # "answered" => k.ans = j.ans /\ k.rid = j.rid
<1> DEFINE j == job[t][n]
           Effect(k) == /\ k.st # "none"
                        /\ \/ k.rid = j.rid /\ k.ans # "held"
                           \/ k.rid = j.rid /\ k.ans = j.ans
                           \/ /\ j.rid = NoRequest /\ k.rid \in Request
                              /\ k.ans = "held" /\ k.st = "answered"
                        /\ k.st # "answered" => k.ans = j.ans /\ k.rid = j.rid
<1>1. job \in [Task -> [Try -> Job]] /\ j \in Job
  BY DEF Typed, TypeOK
<1>2. task' = task
  BY DEF Worker, Deny, ReadPolicy, PassUngated, Submit, Consume, Dispatch, kvVars
<1>3. j.st \in {"arrived", "read", "cleared"}
  BY DEF Worker, Deny, ReadPolicy, PassUngated, Submit, Consume, Dispatch
<1>4. \E k : /\ job' = [job EXCEPT ![t][n] = k]
             /\ Effect(k)
  <2>1. ASSUME NEW a, a # "held", Answer(t, n, a)
        PROVE  \E k : job' = [job EXCEPT ![t][n] = k] /\ Effect(k)
    <3>1. Effect([j EXCEPT !.st = "answered", !.ans = a])
      BY <1>1, <2>1 DEF Job
    <3>2. job' = [job EXCEPT ![t][n] = [j EXCEPT !.st = "answered", !.ans = a]]
      BY <2>1 DEF Answer
    <3> HIDE DEF Effect, j
    <3> QED
      BY <3>1, <3>2
  <2>2. ASSUME job' = [job EXCEPT ![t][n] = [@ EXCEPT !.st = "cleared"]]
        PROVE  \E k : job' = [job EXCEPT ![t][n] = k] /\ Effect(k)
    <3>1. Effect([j EXCEPT !.st = "cleared"])
      BY <1>1 DEF Job
    <3>2. job' = [job EXCEPT ![t][n] = [j EXCEPT !.st = "cleared"]]
      BY <2>2
    <3> HIDE DEF Effect, j
    <3> QED
      BY <3>1, <3>2
  <2>3. \A a \in UpstreamAnswer : a # "held"
    BY GatedRequestAssumption
  <2>4. CASE Deny(t, n) \/ Dispatch(t, n)
    <3> HIDE DEF Effect, j
    <3> QED
      BY <2>1, <2>3, <2>4 DEF Deny, Dispatch
  <2>5. CASE ReadPolicy(t, n)
    <3>1. PICK k, p \in Readable :
             job' = [job EXCEPT ![t][n] = [j EXCEPT !.key = k, !.pol = p, !.st = "read"]]
      BY <2>5 DEF ReadPolicy
    <3>2. Effect([j EXCEPT !.key = k, !.pol = p, !.st = "read"])
      BY <1>1 DEF Job
    <3> HIDE DEF Effect, j
    <3> QED
      BY <3>1, <3>2
  <2>6. CASE PassUngated(t, n) \/ Consume(t, n)
    <3> HIDE DEF Effect, j
    <3> QED
      BY <2>1, <2>2, <2>6 DEF PassUngated, Consume
  <2>7. CASE Submit(t, n)
    <3>1. ASSUME NEW r \in Request,
                 job' = [job EXCEPT ![t][n] = [@ EXCEPT !.st = "answered", !.ans = "held", !.rid = r]]
          PROVE  \E k : job' = [job EXCEPT ![t][n] = k] /\ Effect(k)
      <4>1. Effect([j EXCEPT !.st = "answered", !.ans = "held", !.rid = r])
        BY <1>1, <2>7 DEF Job, Submit
      <4>2. job' = [job EXCEPT ![t][n] = [j EXCEPT !.st = "answered", !.ans = "held", !.rid = r]]
        BY <3>1
      <4> HIDE DEF Effect, j
      <4> QED
        BY <4>1, <4>2
    <3> HIDE DEF Effect, j
    <3> QED
      BY <2>1, <2>7, <3>1 DEF Submit
  <2> QED
    BY <2>4, <2>5, <2>6, <2>7 DEF Worker
<1>5. PICK k : job' = [job EXCEPT ![t][n] = k] /\ Effect(k)
  BY <1>4
<1>6. job'[t][n] = k /\ \A m \in Try \ {n} : job'[t][m] = job[t][m]
  BY <1>1, <1>5
<1> QED
  BY <1>2, <1>3, <1>5, <1>6

\* The chain of a call holds after its own steps.
LEMMA ChainOwn ==
  ASSUME Typed, NEW t \in Task, Chain(t), Moves(t)
  PROVE  Chain(t)'
<1> DEFINE a == job[t][1]  b == job[t][2]  c == task[t]
<1>1. /\ a \in Job /\ b \in Job /\ c \in TaskState
      /\ job \in [Task -> [Try -> Job]] /\ task \in [Task -> TaskState]
  BY DEF Typed, TypeOK, Try
<1>2. NoRequest \notin Request
  BY Constants
<1>3. CASE Worker(t, 1)
  <2>1. 1 \in Try /\ 2 \in Try \ {1}
    BY DEF Try
  <2>2. a.st # "answered" /\ a.st # "none" /\ a.ans = "none" /\ a.rid = NoRequest /\ b.st = "none"
        /\ c.at \notin {"new", "polling", "resent"}
        /\ ~(NoAccepted /\ c.at = "done" /\ c.ans \in GateRefusal)
    BY <1>2, <1>3, <2>1, WorkerEffect DEF Chain
  <2>3. b' = b /\ c' = c
    BY <1>3, <2>1, WorkerEffect
  <2>4. /\ a'.st # "none"
        /\ \/ a'.rid = NoRequest /\ a'.ans # "held"
           \/ a'.rid \in Request /\ a'.ans = "held" /\ a'.st = "answered"
        /\ a'.st # "answered" => a'.ans = "none"
    BY <1>3, <2>1, <2>2, WorkerEffect
  <2> QED
    BY <1>2, <2>2, <2>3, <2>4 DEF Chain
<1>4. CASE Worker(t, 2)
  <2>1. 2 \in Try /\ 1 \in Try \ {2}
    BY DEF Try
  <2>2. b.st # "none" /\ b.rid = a.rid /\ b.rid \in Request
        /\ c.at \notin {"new", "sent", "polling"}
        /\ ~(NoAccepted /\ c.at = "done" /\ c.ans \in GateRefusal)
    BY <1>2, <1>4, <2>1, WorkerEffect DEF Chain
  <2>3. a' = a /\ c' = c
    BY <1>4, <2>1, WorkerEffect
  <2>4. b'.st # "none" /\ b'.rid = b.rid
    BY <1>2, <1>4, <2>1, <2>2, WorkerEffect
  <2> QED
    BY <1>2, <2>2, <2>3, <2>4 DEF Chain
<1>5. CASE Send(t)
  <2>1. a' = [a EXCEPT !.st = "arrived"] /\ b' = b /\ c'.at = "sent" /\ c'.rid = c.rid
    BY <1>1, <1>5 DEF Send, Try, TaskState
  <2>2. a'.st = "arrived" /\ a'.ans = a.ans /\ a'.rid = a.rid
    BY <1>1, <2>1 DEF Job
  <2> QED
    BY <1>2, <1>5, <2>1, <2>2 DEF Chain, Send
<1>6. CASE ReceiveFirst(t)
  <2>1. a' = a /\ b' = b
    BY <1>6 DEF ReceiveFirst
  <2>2. CASE a.ans = "held"
    <3>0. task' = [task EXCEPT ![t] = [@ EXCEPT !.at = "polling", !.rid = a.rid]]
      BY <1>6, <2>2 DEF ReceiveFirst
    <3>1. c'.at = "polling" /\ c'.rid = a.rid
      BY <1>1, <3>0 DEF TaskState
    <3> QED
      BY <1>6, <2>1, <2>2, <3>1 DEF Chain, ReceiveFirst
  <2>3. CASE a.ans # "held"
    <3>1. c'.at = "done" /\ c'.ans = IF a.ans = "accepted" THEN "janus_invalid" ELSE a.ans
      <4>1. Finish(t, IF a.ans = "accepted" THEN "janus_invalid" ELSE a.ans)
        BY <1>6, <2>3 DEF ReceiveFirst
      <4> QED
        BY <1>1, <4>1 DEF Finish, TaskState
    <3>2. a.ans \in JobAnswer \cup {"none"}
      BY <1>1 DEF Job
    <3>3. NoAccepted => c'.ans \notin GateRefusal
      BY <3>1, <3>2, GatedRequestAssumption DEF JobAnswer, GateRefusal, NoAccepted
    <3> QED
      BY <1>2, <1>6, <2>1, <2>3, <3>1, <3>3 DEF Chain, ReceiveFirst
  <2> QED
    BY <2>2, <2>3
<1>7. CASE ReceiveSecond(t)
  <2>1. a' = a /\ b' = b /\ c'.at = "done" /\ c'.ans = b.ans /\ c.at = "resent"
    BY <1>1, <1>7 DEF ReceiveSecond, Finish, TaskState
  <2>2. NoAccepted => b.ans \notin GateRefusal
    BY <1>1, GatedRequestAssumption DEF Job, JobAnswer, GateRefusal, NoAccepted
  <2> QED
    BY <2>1, <2>2 DEF Chain
<1>8. CASE GiveUp(t)
  <2>1. a' = a /\ b' = b /\ c'.at = "done" /\ c'.ans = "no_answer"
    BY <1>1, <1>8 DEF GiveUp, Finish, TaskState
  <2> QED
    BY <2>1 DEF Chain, GateRefusal
<1>9. CASE PollApproved(t)
  <2>1. a' = a /\ c'.at = "resent" /\ c'.rid = c.rid /\ c.at = "polling"
    BY <1>1, <1>9 DEF PollApproved, Try, TaskState
  <2>2. b'.st = "arrived" /\ b'.rid = c.rid
    BY <1>1, <1>9 DEF PollApproved, Try, Job
  <2> QED
    BY <1>2, <2>1, <2>2 DEF Chain
<1>10. CASE PollResolved(t) \/ PollTimesOut(t) \/ PollFails(t)
  <2>1. a' = a /\ b' = b /\ c.at = "polling" /\ \E x : Finish(t, x)
    BY <1>10 DEF PollResolved, PollTimesOut, PollFails
  <2>2. c'.at = "done"
    BY <1>1, <2>1 DEF Finish, TaskState
  <2> QED
    BY <1>2, <2>1, <2>2 DEF Chain
<1> QED
  BY <1>3, <1>4, <1>5, <1>6, <1>7, <1>8, <1>9, <1>10 DEF Moves, Proxy, Progress, Try

-----------------------------------------------------------------------------
(* The invocations and the ledger.                                         *)

\* What an invocation does to its own job, by the state the job is in.
LEMMA WorkerJob ==
  ASSUME Typed, NEW t \in Task, NEW n \in Try, Worker(t, n)
  PROVE  LET j == job[t][n]  k == job'[t][n] IN
         /\ k.st = "read" => k.key \in Version
         /\ k.st = "cleared" => /\ j.st = "read" /\ k.key = j.key /\ k.pol = j.pol
                                /\ \/ k.pol \notin Gated
                                   \/ /\ k.rid \in Request /\ k.rid = j.rid
                                      /\ Ledger!Spend(j.rid, Digest(t, n))
         /\ \/ executed' = executed
            \/ /\ executed' = executed \cup {<<t, n>>} /\ j.st = "cleared"
               /\ k.st = "answered" /\ k.ans \in UpstreamAnswer
               /\ k.key = j.key /\ k.pol = j.pol /\ k.rid = j.rid
               /\ UNCHANGED <<phase, bound>>
<1> DEFINE j == job[t][n]  k == job'[t][n]
<1>1. job \in [Task -> [Try -> Job]] /\ j \in Job
  BY DEF Typed, TypeOK
<1>2. ASSUME NEW a, Answer(t, n, a)
      PROVE  k.st = "answered" /\ k.ans = a /\ k.key = j.key /\ k.pol = j.pol /\ k.rid = j.rid
  <2>1. k = [j EXCEPT !.st = "answered", !.ans = a]
    BY <1>1, <1>2 DEF Answer
  <2> QED
    BY <1>1, <2>1 DEF Job
<1>3. ASSUME job' = [job EXCEPT ![t][n] = [@ EXCEPT !.st = "cleared"]]
      PROVE  k.st = "cleared" /\ k.key = j.key /\ k.pol = j.pol /\ k.rid = j.rid
  <2>1. k = [j EXCEPT !.st = "cleared"]
    BY <1>1, <1>3
  <2> QED
    BY <1>1, <2>1 DEF Job
<1>4. CASE Deny(t, n)
  BY <1>2, <1>4 DEF Deny
<1>5. CASE ReadPolicy(t, n)
  <2>1. PICK v, p \in Readable :
           job' = [job EXCEPT ![t][n] = [j EXCEPT !.key = v, !.pol = p, !.st = "read"]]
    BY <1>5 DEF ReadPolicy
  <2>2. k.st = "read" /\ k.key = v
    BY <1>1, <2>1 DEF Job
  <2>3. v \in Version
    BY DEF Readable, Typed, TypeOK
  <2> QED
    BY <1>5, <2>2, <2>3 DEF ReadPolicy
<1>6. CASE PassUngated(t, n)
  BY <1>3, <1>6 DEF PassUngated
<1>7. CASE Submit(t, n)
  <2>1. ASSUME NEW r \in Request,
               job' = [job EXCEPT ![t][n] = [@ EXCEPT !.st = "answered", !.ans = "held", !.rid = r]]
        PROVE  k.st = "answered"
    <3>1. k = [j EXCEPT !.st = "answered", !.ans = "held", !.rid = r]
      BY <1>1, <2>1
    <3> QED
      BY <1>1, <3>1 DEF Job
  <2>2. k.st = "answered"
    BY <1>2, <1>7, <2>1 DEF Submit
  <2> QED
    BY <1>7, <2>2 DEF Submit
<1>8. CASE Consume(t, n)
  <2>1. j.rid \in Request /\ j.st = "read" /\ executed' = executed
    BY <1>1, <1>8 DEF Consume, Job
  <2>2. CASE \E a : Answer(t, n, a)
    BY <1>2, <2>1, <2>2
  <2>3. CASE /\ Ledger!Spend(j.rid, Digest(t, n))
             /\ job' = [job EXCEPT ![t][n] = [@ EXCEPT !.st = "cleared"]]
    BY <1>3, <2>1, <2>3
  <2> QED
    BY <1>8, <2>2, <2>3 DEF Consume
<1>9. CASE Dispatch(t, n)
  BY <1>2, <1>9 DEF Dispatch
<1> QED
  BY <1>4, <1>5, <1>6, <1>7, <1>8, <1>9 DEF Worker

\* Nothing undoes an approval that was spent, and no request becomes unused.
LEMMA LedgerMonotone ==
  ASSUME Typed, [Next]_vars, NEW r \in Request
  PROVE  /\ phase[r] = "spent" => phase'[r] = "spent" /\ bound'[r] = bound[r]
         /\ phase[r] # "unused" => phase'[r] # "unused"
<1> DEFINE Goal == /\ phase[r] = "spent" => phase'[r] = "spent" /\ bound'[r] = bound[r]
                   /\ phase[r] # "unused" => phase'[r] # "unused"
<1>1. phase \in [Request -> {"unused", "waiting", "approved", "refused", "spent"}]
      /\ bound \in [Request -> Fingerprint \cup {NoFingerprint}]
  BY DEF Typed, TypeOK
<1>2. ASSUME UNCHANGED <<phase, bound>> PROVE Goal
  BY <1>2
<1>3. ASSUME NEW q \in Request, NEW f, Ledger!Open(q, f) \/ Ledger!Spend(q, f) PROVE Goal
  BY <1>1, <1>3 DEF Ledger!Open, Ledger!Spend
<1>4. ASSUME NEW q \in Request, Decide(q) PROVE Goal
  BY <1>1, <1>4 DEF Decide, Ledger!Approve, Ledger!Refuse
<1>5. ASSUME NEW t \in Task, NEW n \in Try, Worker(t, n) PROVE Goal
  <2>1. job[t][n] \in Job
    BY DEF Typed, TypeOK
  <2>2. CASE Submit(t, n)
    BY <1>2, <1>3, <2>2 DEF Submit
  <2>3. CASE Consume(t, n)
    BY <1>2, <1>3, <2>1, <2>3 DEF Consume, Job
  <2> QED
    BY <1>2, <1>5, <2>2, <2>3 DEF Worker, Deny, ReadPolicy, PassUngated, Dispatch
<1>6. ASSUME NEW t \in Task, Proxy(t) PROVE Goal
  BY <1>2, <1>6 DEF Proxy, Progress, Send, ReceiveFirst, ReceiveSecond, GiveUp, PollApproved,
                    PollResolved, PollTimesOut, PollFails
<1>7. CASE Admin \/ UNCHANGED vars
  BY <1>2, <1>7 DEF Admin, Reseal, Publish, Propagate, vars
<1> QED
  BY <1>4, <1>5, <1>6, <1>7 DEF Next

\* A request that an invocation is held with was unused.
LEMMA HeldIsNew ==
  ASSUME Typed, NEW t \in Task, NEW n \in Try, Worker(t, n),
         job'[t][n].rid # job[t][n].rid
  PROVE  /\ job'[t][n].rid \in Request
         /\ phase[job'[t][n].rid] = "unused" /\ phase'[job'[t][n].rid] # "unused"
<1> DEFINE j == job[t][n]  k == job'[t][n]
<1>1. job \in [Task -> [Try -> Job]] /\ j \in Job
      /\ phase \in [Request -> {"unused", "waiting", "approved", "refused", "spent"}]
  BY DEF Typed, TypeOK
<1>2. ASSUME NEW a, Answer(t, n, a) PROVE FALSE
  <2>1. k = [j EXCEPT !.st = "answered", !.ans = a]
    BY <1>1, <1>2 DEF Answer
  <2> QED
    BY <1>1, <2>1 DEF Job
<1>3. ASSUME job' = [job EXCEPT ![t][n] = [@ EXCEPT !.st = "cleared"]] PROVE FALSE
  <2>1. k = [j EXCEPT !.st = "cleared"]
    BY <1>1, <1>3
  <2> QED
    BY <1>1, <2>1 DEF Job
<1>4. ~ReadPolicy(t, n)
  <2> SUFFICES ASSUME ReadPolicy(t, n) PROVE FALSE
    OBVIOUS
  <2>1. PICK v, p \in Readable :
           job' = [job EXCEPT ![t][n] = [j EXCEPT !.key = v, !.pol = p, !.st = "read"]]
    BY DEF ReadPolicy
  <2> QED
    BY <1>1, <2>1 DEF Job
<1>5. Submit(t, n)
  BY <1>2, <1>3, <1>4 DEF Worker, Deny, PassUngated, Consume, Dispatch
<1>6. PICK r \in Request :
         /\ Ledger!Open(r, Digest(t, n))
         /\ job' = [job EXCEPT ![t][n] = [@ EXCEPT !.st = "answered", !.ans = "held", !.rid = r]]
  BY <1>2, <1>5 DEF Submit
<1>7. k = [j EXCEPT !.st = "answered", !.ans = "held", !.rid = r]
  BY <1>1, <1>6
<1>8. k.rid = r
  BY <1>1, <1>7 DEF Job
<1> QED
  BY <1>1, <1>6, <1>8 DEF Ledger!Open

\* The proxy starts an invocation that was not, and changes no other.
LEMMA ProxyJobs ==
  ASSUME Typed, NEW t \in Task, Chain(t), Proxy(t)
  PROVE  /\ UNCHANGED <<executed, phase, bound>>
         /\ \A n \in Try : \/ job'[t][n] = job[t][n]
                           \/ job[t][n].st = "none" /\ job'[t][n].st = "arrived"
         /\ job'[t][1].rid = job[t][1].rid
<1>1. job \in [Task -> [Try -> Job]] /\ job[t][1] \in Job /\ job[t][2] \in Job
  BY DEF Typed, TypeOK, Try
<1>2. UNCHANGED <<executed, phase, bound>>
  BY DEF Proxy, Progress, Send, ReceiveFirst, ReceiveSecond, GiveUp, PollApproved,
         PollResolved, PollTimesOut, PollFails
<1>3. CASE Send(t)
  <2>1. /\ job'[t][1] = [job[t][1] EXCEPT !.st = "arrived"]
        /\ job'[t][2] = job[t][2] /\ job[t][1].st = "none"
    BY <1>1, <1>3 DEF Send, Chain, Try
  <2> QED
    BY <1>1, <1>2, <2>1 DEF Try, Job
<1>4. CASE PollApproved(t)
  <2>1. /\ job'[t][2] = [job[t][2] EXCEPT !.st = "arrived", !.rid = task[t].rid]
        /\ job'[t][1] = job[t][1] /\ job[t][2].st = "none"
    BY <1>1, <1>4 DEF PollApproved, Chain, Try
  <2> QED
    BY <1>1, <1>2, <2>1 DEF Try, Job
<1>5. CASE job' = job
  BY <1>2, <1>5
<1> QED
  BY <1>3, <1>4, <1>5 DEF Proxy, Progress, ReceiveFirst, ReceiveSecond, GiveUp,
                          PollResolved, PollTimesOut, PollFails

-----------------------------------------------------------------------------
(* Every step keeps the invariant.                                         *)

LEMMA RanOwn ==
  ASSUME Inv, NEW t \in Task, Moves(t), NEW n \in Try
  PROVE  Ran(t, n)'
<1>1. Typed /\ Chain(t) /\ Ran(t, n)
  BY DEF Inv
<1>2. CASE Proxy(t)
  BY <1>1, <1>2, ProxyJobs DEF Ran
<1>3. CASE Worker(t, n)
  BY <1>1, <1>3, WorkerEffect, WorkerJob DEF Ran
<1>4. ASSUME NEW m \in Try, m # n, Worker(t, m) PROVE Ran(t, n)'
  <2>1. job'[t][n] = job[t][n]
    BY <1>1, <1>4, WorkerEffect
  <2>2. executed' = executed \/ executed' = executed \cup {<<t, m>>}
    BY <1>1, <1>4, WorkerJob
  <2> QED
    BY <1>1, <1>4, <2>1, <2>2 DEF Ran
<1> QED
  BY <1>2, <1>3, <1>4 DEF Moves

\* The second invocation's payment stands, whatever else happens.
LEMMA PaidStands ==
  ASSUME Inv, [Next]_vars, NEW t \in Task, job'[t][2] = job[t][2],
         (<<t, 2>> \in executed') <=> (<<t, 2>> \in executed)
  PROVE  (job'[t][2].st = "cleared" \/ <<t, 2>> \in executed') /\ job'[t][2].pol \in Gated =>
             phase'[job'[t][2].rid] = "spent" /\ bound'[job'[t][2].rid] = Digest(t, 2)'
<1>1. Typed /\ Chain(t) /\ Paid(t) /\ Ran(t, 2)
  BY DEF Inv, Try
<1>2. job[t][2].st = "cleared" \/ <<t, 2>> \in executed => job[t][2].rid \in Request
  BY <1>1 DEF Chain, Ran
<1>3. Digest(t, 2)' = Digest(t, 2)
  BY DEF Digest
<1> QED
  BY <1>1, <1>2, <1>3, LedgerMonotone DEF Paid

LEMMA PaidOwn ==
  ASSUME Inv, Next, NEW t \in Task, Moves(t)
  PROVE  Paid(t)'
<1>1. Typed /\ Chain(t) /\ Paid(t) /\ Ran(t, 1) /\ Ran(t, 2)
  BY DEF Inv, Try
<1>2. 1 \in Try /\ 2 \in Try
  BY DEF Try
<1>3. CASE Proxy(t)
  <2>1. job'[t][2] = job[t][2] \/ (job[t][2].st = "none" /\ job'[t][2].st = "arrived")
    BY <1>1, <1>2, <1>3, ProxyJobs
  <2>2. job'[t][1] = job[t][1] \/ (job[t][1].st = "none" /\ job'[t][1].st = "arrived")
    BY <1>1, <1>2, <1>3, ProxyJobs
  <2>3. executed' = executed
    BY <1>1, <1>3, ProxyJobs
  <2>4. CASE job'[t][2] = job[t][2]
    BY <1>1, <2>2, <2>3, <2>4, PaidStands DEF Paid, Ran
  <2>5. CASE job[t][2].st = "none" /\ job'[t][2].st = "arrived"
    BY <1>1, <2>2, <2>3, <2>5 DEF Paid, Ran
  <2> QED
    BY <2>1, <2>4, <2>5
<1>4. CASE Worker(t, 1)
  <2>1. /\ job'[t][2] = job[t][2]
        /\ job[t][1].st \in {"arrived", "read", "cleared"}
    BY <1>1, <1>2, <1>4, WorkerEffect
  <2>2. <<t, 2>> \in executed' <=> <<t, 2>> \in executed
    BY <1>1, <1>2, <1>4, WorkerJob
  <2>3. job[t][1].rid = NoRequest /\ NoRequest \notin Request /\ <<t, 1>> \notin executed
    BY <1>1, <2>1, Constants DEF Chain, Ran
  <2>4. job'[t][1].st = "cleared" \/ <<t, 1>> \in executed' => job'[t][1].pol \notin Gated
    BY <1>1, <1>2, <1>4, <2>3, WorkerJob DEF Paid
  <2> QED
    BY <2>1, <2>2, <2>4, PaidStands DEF Paid
<1>5. CASE Worker(t, 2)
  <2>1. /\ job'[t][1] = job[t][1]
        /\ job[t][2].st \in {"arrived", "read", "cleared"}
    BY <1>1, <1>2, <1>5, WorkerEffect
  <2>2. <<t, 1>> \in executed' <=> <<t, 1>> \in executed
    BY <1>1, <1>2, <1>5, WorkerJob
  <2>3. <<t, 2>> \notin executed
    BY <1>1, <2>1 DEF Ran
  <2>4. CASE job'[t][2].st = "cleared"
    <3>1. job'[t][2].key = job[t][2].key
      BY <1>1, <1>2, <1>5, <2>4, WorkerJob
    <3>2. Digest(t, 2)' = Digest(t, 2)
      BY <3>1 DEF Digest
    <3>3. ASSUME job'[t][2].pol \in Gated
          PROVE  job'[t][2].rid \in Request /\ Ledger!Spend(job'[t][2].rid, Digest(t, 2))
      BY <1>1, <1>2, <1>5, <2>4, <3>3, WorkerJob
    <3>4. ASSUME job'[t][2].pol \in Gated
          PROVE  phase'[job'[t][2].rid] = "spent" /\ bound'[job'[t][2].rid] = Digest(t, 2)
      BY <1>1, <3>3, <3>4 DEF Ledger!Spend, Typed, TypeOK
    <3> QED
      BY <1>1, <2>1, <2>2, <3>2, <3>4 DEF Paid
  <2>5. CASE job'[t][2].st # "cleared" /\ <<t, 2>> \in executed'
    <3>1. /\ job[t][2].st = "cleared" /\ UNCHANGED <<phase, bound>>
          /\ job'[t][2].key = job[t][2].key /\ job'[t][2].pol = job[t][2].pol
          /\ job'[t][2].rid = job[t][2].rid
      BY <1>1, <1>2, <1>5, <2>3, <2>5, WorkerJob
    <3>2. Digest(t, 2)' = Digest(t, 2)
      BY <3>1 DEF Digest
    <3> QED
      BY <1>1, <2>1, <2>2, <3>1, <3>2 DEF Paid
  <2>6. CASE job'[t][2].st # "cleared" /\ <<t, 2>> \notin executed'
    BY <1>1, <2>1, <2>2, <2>6 DEF Paid
  <2> QED
    BY <2>4, <2>5, <2>6
<1> QED
  BY <1>3, <1>4, <1>5 DEF Moves, Try

\* A request that is held by a call is not unused, so no other call is held
\* with it.
LEMMA OwnedStep ==
  ASSUME Inv, [Next]_vars
  PROVE  Owned'
<1>1. Typed /\ Owned /\ \A t \in Task : Chain(t)
  BY DEF Inv
<1>2. \A r \in Request : phase[r] # "unused" => phase'[r] # "unused"
  BY <1>1, LedgerMonotone
<1>3. ASSUME \A t \in Task : job'[t][1].rid = job[t][1].rid PROVE Owned'
  BY <1>1, <1>2, <1>3 DEF Owned
<1>4. ASSUME NEW t \in Task, Moves(t) PROVE Owned'
  <2>1. \A u \in Task \ {t} : job'[u][1].rid = job[u][1].rid
    BY <1>1, <1>4, OthersStay
  <2>2. CASE job'[t][1].rid = job[t][1].rid
    BY <1>3, <2>1, <2>2
  <2>3. CASE job'[t][1].rid # job[t][1].rid
    <3>1. Worker(t, 1)
      <4>1. 1 \in Try /\ \A n \in Try : n # 1 => n = 2 /\ 1 \in Try \ {n}
        BY DEF Try
      <4>2. ~Proxy(t)
        BY <1>1, <2>3, ProxyJobs
      <4>3. ~Worker(t, 2)
        <5> SUFFICES ASSUME Worker(t, 2) PROVE FALSE
          OBVIOUS
        <5>1. 2 \in Try /\ 1 \in Try \ {2}
          BY DEF Try
        <5>2. job'[t][1] = job[t][1]
          BY <1>1, <5>1, WorkerEffect
        <5> QED
          BY <2>3, <5>2
      <4> QED
        BY <1>4, <4>1, <4>2, <4>3 DEF Moves
    <3>2. /\ job'[t][1].rid \in Request
          /\ phase[job'[t][1].rid] = "unused" /\ phase'[job'[t][1].rid] # "unused"
      BY <1>1, <2>3, <3>1, HeldIsNew DEF Try
    <3>3. \A u \in Task \ {t} : job'[u][1].rid \in Request => job'[u][1].rid # job'[t][1].rid
      BY <1>1, <2>1, <3>2 DEF Owned
    <3> QED
      BY <1>1, <1>2, <2>1, <3>2, <3>3 DEF Owned
  <2> QED
    BY <2>2, <2>3
<1>5. CASE Admin \/ (\E r \in Request : Decide(r)) \/ UNCHANGED vars
  <2>1. job' = job
    BY <1>5 DEF Admin, Reseal, Publish, Propagate, Decide, vars
  <2> QED
    BY <1>3, <2>1
<1> QED
  BY <1>4, <1>5 DEF Next, Moves

LEMMA InvStep == Inv /\ [Next]_vars => Inv'
<1> SUFFICES ASSUME Inv, [Next]_vars PROVE Inv'
  OBVIOUS
<1>1. Typed /\ \A t \in Task : Chain(t) /\ Paid(t) /\ \A n \in Try : Ran(t, n)
  BY DEF Inv
<1>2. Owned'
  BY OwnedStep
<1>3. ASSUME NEW t \in Task,
             job'[t] = job[t], task'[t] = task[t],
             \A n \in Try : (<<t, n>> \in executed') <=> (<<t, n>> \in executed)
      PROVE  Chain(t)' /\ Paid(t)' /\ \A n \in Try : Ran(t, n)'
  <2>1. Chain(t)'
    BY <1>1, <1>3 DEF Chain
  <2>2. \A n \in Try : Ran(t, n)'
    BY <1>1, <1>3 DEF Ran
  <2>3. Paid(t)'
    BY <1>1, <1>3, PaidStands DEF Paid, Try
  <2> QED
    BY <2>1, <2>2, <2>3
<1>4. ASSUME NEW t \in Task, Moves(t), Next PROVE Inv'
  <2>1. Typed'
    <3>1. CASE Proxy(t)
      BY <1>1, <3>1, TypedProxy
    <3>2. ASSUME NEW n \in Try, Worker(t, n) PROVE Typed'
      <4>1. job[t][n].st = "read" => job[t][n].key \in Version
        BY <1>1 DEF Ran
      <4> QED
        BY <1>1, <3>2, <4>1, TypedWorker
    <3> QED
      BY <1>4, <3>1, <3>2 DEF Moves
  <2>2. Chain(t)' /\ Paid(t)' /\ \A n \in Try : Ran(t, n)'
    BY <1>1, <1>4, ChainOwn, PaidOwn, RanOwn
  <2>3. \A u \in Task \ {t} : Chain(u)' /\ Paid(u)' /\ \A n \in Try : Ran(u, n)'
    BY <1>1, <1>3, <1>4, OthersStay
  <2> QED
    BY <1>2, <2>1, <2>2, <2>3 DEF Inv
<1>5. CASE Admin \/ (\E r \in Request : Decide(r)) \/ UNCHANGED vars
  <2>1. job' = job /\ task' = task /\ executed' = executed
    BY <1>5 DEF Admin, Reseal, Publish, Propagate, Decide, vars, kvVars
  <2>2. Typed'
    BY <1>1, <1>5, TypedOthers
  <2> QED
    BY <1>2, <1>3, <2>1, <2>2 DEF Inv
<1> QED
  BY <1>4, <1>5 DEF Next, Moves

LEMMA InvInit == Init => Inv
<1> SUFFICES ASSUME Init PROVE Inv
  OBVIOUS
<1>1. \A t \in Task : /\ task[t].at = "new" /\ task[t].ans = "none"
                      /\ \A n \in Try : job[t][n] = NoJob
  BY DEF Init
<1>2. \A t \in Task, n \in Try : Ran(t, n)
  BY <1>1 DEF Init, Ran, NoJob
<1>3. \A t \in Task : Chain(t)
  BY <1>1, Constants DEF Chain, NoJob, Try
<1>4. \A t \in Task : Paid(t)
  BY <1>1 DEF Init, Paid, NoJob, Try
<1>5. Owned
  BY <1>1, Constants DEF Owned, NoJob, Try
<1> QED
  BY <1>2, <1>3, <1>4, <1>5, TypedInit DEF Inv

LEMMA Invariance == Spec => []Inv
<1>1. Inv /\ [Next]_vars => Inv'
  BY InvStep
<1> QED
  BY <1>1, InvInit, PTL DEF Spec

-----------------------------------------------------------------------------
(* What the invariant gives.                                               *)

\* Every variable of the composition keeps its type.
THEOREM TypeCorrect == Spec => []TypeOK
<1>1. Inv => TypeOK
  BY DEF Inv, Typed
<1> QED
  BY <1>1, Invariance, PTL

\* What an invocation executed under a gating policy had an approval of its
\* own, for its body under the policy hash it read, and the approval is spent.
THEOREM EveryDispatchIsPaid == Spec => []PaidDispatch
<1>1. Inv => PaidDispatch
  <2> SUFFICES ASSUME Inv, NEW x \in executed, job[x[1]][x[2]].pol \in Gated
               PROVE  LET j == job[x[1]][x[2]] IN
                      /\ j.rid \in Request
                      /\ phase[j.rid] = "spent"
                      /\ bound[j.rid] = Digest(x[1], x[2])
                      /\ \A y \in executed : job[y[1]][y[2]].rid = j.rid => y = x
    BY DEF PaidDispatch
  <2>1. Typed /\ Owned /\ \A t \in Task : Chain(t) /\ Paid(t) /\ \A n \in Try : Ran(t, n)
    BY DEF Inv
  <2>2. ASSUME NEW y \in executed
        PROVE  /\ y[1] \in Task /\ y[2] \in Try /\ y = <<y[1], y[2]>>
               /\ job[y[1]][y[2]].st = "answered"
               /\ y[2] = 1 => job[y[1]][1].pol \notin Gated /\ job[y[1]][1].rid = NoRequest
               /\ y[2] = 2 => job[y[1]][2].rid = job[y[1]][1].rid /\ job[y[1]][2].rid \in Request
    <3>1. y[1] \in Task /\ y[2] \in Try /\ y = <<y[1], y[2]>>
      BY <2>1, <2>2 DEF Typed, TypeOK
    <3>2. /\ job[y[1]][y[2]].st = "answered" /\ job[y[1]][y[2]].ans \in UpstreamAnswer
      BY <2>1, <2>2, <3>1 DEF Ran
    <3>3. job[y[1]][y[2]].ans # "held"
      BY <3>2, GatedRequestAssumption
    <3>4. CASE y[2] = 1
      <4>1. PICK t \in Task : t = y[1] /\ <<t, 1>> \in executed
        BY <2>2, <3>1, <3>4
      <4>2. job[t][1].pol \notin Gated /\ job[t][1].rid = NoRequest
        BY <2>1, <3>3, <3>4, <4>1 DEF Paid, Chain
      <4> QED
        BY <3>1, <3>2, <3>4, <4>1, <4>2
    <3>5. CASE y[2] = 2
      BY <2>1, <2>2, <3>1, <3>2, <3>5 DEF Chain
    <3> QED
      BY <3>1, <3>2, <3>4, <3>5 DEF Try
  <2>3. x[2] = 2
    BY <2>2 DEF Try
  <2>4. job[x[1]][2].rid \in Request /\ job[x[1]][2].rid = job[x[1]][1].rid
    BY <2>2, <2>3
  <2>5. phase[job[x[1]][2].rid] = "spent" /\ bound[job[x[1]][2].rid] = Digest(x[1], 2)
    BY <2>1, <2>2, <2>3 DEF Paid
  <2>6. ASSUME NEW y \in executed, job[y[1]][y[2]].rid = job[x[1]][2].rid PROVE y = x
    <3>1. y[2] = 2
      BY <2>2, <2>4, <2>6, Constants DEF Try
    <3>2. y[1] = x[1]
      BY <2>1, <2>2, <2>4, <2>6, <3>1 DEF Owned
    <3> QED
      BY <2>2, <2>3, <3>1, <3>2
  <2> QED
    BY <2>3, <2>4, <2>5, <2>6
<1> QED
  BY <1>1, Invariance, PTL

\* Of the two invocations of a call one executes at most: the first one only
\* when it was not held, the second one only when the first was.
THEOREM OneDispatchPerCall == Spec => []AtMostOnce
<1>1. Inv => AtMostOnce
  <2> SUFFICES ASSUME Inv, NEW t \in Task
               PROVE  Cardinality({n \in Try : <<t, n>> \in executed}) <= 1
    BY DEF AtMostOnce
  <2> DEFINE S == {n \in Try : <<t, n>> \in executed}
  <2>1. Typed /\ Chain(t) /\ Ran(t, 1) /\ Ran(t, 2)
    BY DEF Inv, Try
  <2>2. ~(<<t, 1>> \in executed /\ <<t, 2>> \in executed)
    <3> SUFFICES ASSUME <<t, 1>> \in executed, <<t, 2>> \in executed PROVE FALSE
      OBVIOUS
    <3>1. job[t][1].ans # "held"
      BY <2>1, GatedRequestAssumption DEF Ran
    <3>2. job[t][2].st # "none" /\ job[t][1].rid \in Request
      BY <2>1 DEF Ran, Chain
    <3> QED
      BY <2>1, <3>1, <3>2, Constants DEF Chain
  <2>3. S = {} \/ S = {1} \/ S = {2}
    BY <2>2 DEF Try
  <2>4. Cardinality(S) \in {0, 1}
    BY <2>3, FS_EmptySet, FS_Singleton
  <2> QED
    BY <2>4
<1> QED
  BY <1>1, Invariance, PTL

\* When no provider answers 202 itself, a caller that is told that the gate
\* did not let its call through is told the truth.
THEOREM RefusalIsTrue ==
  ASSUME NoAccepted
  PROVE  Spec => []RefusedIsNotExecuted
<1>1. Inv => RefusedIsNotExecuted
  <2> SUFFICES ASSUME Inv, NEW t \in Task, NEW n \in Try,
                      task[t].at = "done", task[t].ans \in GateRefusal
               PROVE  <<t, n>> \notin executed /\ job[t][n].st \in {"none", "answered"}
    BY DEF RefusedIsNotExecuted
  <2>1. Chain(t) /\ Ran(t, n)
    BY DEF Inv
  <2>2. job[t][1].st = "answered" /\ job[t][1].ans = "held" /\ job[t][2].st = "none"
    BY <2>1 DEF Chain
  <2>3. "held" \notin UpstreamAnswer
    BY GatedRequestAssumption
  <2> QED
    BY <2>1, <2>2, <2>3 DEF Ran, Try
<1> QED
  BY <1>1, Invariance, PTL


-----------------------------------------------------------------------------
(* The composition.                                                        *)

LEMMA LedgerUsed ==
  ASSUME Inv, [Next]_vars
  PROVE  [Ledger!LedgerNext]_(Ledger!ledgerVars)
<1> DEFINE Goal == [Ledger!LedgerNext]_(Ledger!ledgerVars)
<1>1. /\ bound \in [Request -> Fingerprint \cup {NoFingerprint}]
      /\ \A t \in Task, n \in Try : job[t][n].st = "read" => Digest(t, n) \in Fingerprint
      /\ \A t \in Task, n \in Try : job[t][n].rid \in Request \cup {NoRequest}
  <2>1. \A t \in Task, n \in Try : job[t][n] \in Job
    BY DEF Inv, Typed, TypeOK
  <2>2. \A t \in Task, n \in Try : job[t][n].st = "read" => job[t][n].key \in Version
    BY DEF Inv, Ran
  <2> QED
    BY <2>1, <2>2, DigestType DEF Inv, Typed, TypeOK, Job
<1>2. ASSUME UNCHANGED <<phase, bound, spends>> PROVE Goal
  BY <1>2 DEF Ledger!ledgerVars
<1>3. ASSUME NEW r \in Request, Decide(r) PROVE Goal
  <2>1. {r} \in SUBSET Request
    OBVIOUS
  <2> QED
    BY <1>3, <2>1 DEF Decide, Ledger!LedgerNext
<1>4. ASSUME NEW t \in Task, NEW n \in Try, Worker(t, n) PROVE Goal
  <2>1. CASE Submit(t, n)
    <3>1. Digest(t, n) \in Fingerprint
      BY <1>1, <2>1 DEF Submit
    <3>2. \/ \E r \in Request : Ledger!Open(r, Digest(t, n))
          \/ UNCHANGED <<phase, bound, spends>>
      BY <2>1 DEF Submit
    <3> QED
      BY <1>2, <3>1, <3>2 DEF Ledger!LedgerNext
  <2>2. CASE Consume(t, n)
    <3>1. Digest(t, n) \in Fingerprint /\ job[t][n].rid \in Request
      BY <1>1, <2>2 DEF Consume
    <3>2. \/ Ledger!Spend(job[t][n].rid, Digest(t, n))
          \/ UNCHANGED <<phase, bound, spends>>
      BY <2>2 DEF Consume
    <3> QED
      BY <1>2, <3>1, <3>2 DEF Ledger!LedgerNext
  <2> QED
    BY <1>2, <1>4, <2>1, <2>2 DEF Worker, Deny, ReadPolicy, PassUngated, Dispatch
<1>5. ASSUME NEW t \in Task, Proxy(t) PROVE Goal
  BY <1>2, <1>5 DEF Proxy, Progress, Send, ReceiveFirst, ReceiveSecond, GiveUp, PollApproved,
                    PollResolved, PollTimesOut, PollFails
<1>6. CASE Admin \/ UNCHANGED vars
  BY <1>2, <1>6 DEF Admin, Reseal, Publish, Propagate, vars
<1> QED
  BY <1>3, <1>4, <1>5, <1>6 DEF Next

\* The proxy and the Worker ask nothing of the gate that JanusDO, which
\* implements the same ledger, does not give: whatever they lose, retry or
\* leave running, a request is opened for the fingerprint of a call and a
\* policy hash, and an approval is spent by what it was opened for
\* (submitGateApproval, consumeGateApproval).
THEOREM CallsKeepToTheLedger == Spec => Ledger!LedgerSpec
<1>1. Init => Ledger!LedgerInit
  BY DEF Init
<1>2. Inv /\ [Next]_vars => [Ledger!LedgerNext]_(Ledger!ledgerVars)
  BY LedgerUsed
<1> QED
  BY <1>1, <1>2, Invariance, PTL DEF Spec, Ledger!LedgerSpec
=============================================================================
