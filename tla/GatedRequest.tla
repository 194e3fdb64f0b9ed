----------------------------- MODULE GatedRequest -----------------------------
(***************************************************************************)
(* A provider call under a policy that may require approval, end to end:   *)
(* the coroutine of subumbra-proxy that sends it, waits for the decision   *)
(* and sends it again, the Worker invocations that serve it, and the       *)
(* policy entries these read from KV while an operator publishes new ones. *)
(* The SubumbraJanus object appears as the ledger that JanusDO implements. *)
(*                                                                         *)
(* Either side may lose the other: an invocation runs on after the proxy   *)
(* gave up on it, or never runs.                                           *)
(***************************************************************************)
EXTENDS Naturals, FiniteSets

CONSTANTS
  Task,            \* calls the proxy handles
  Body,            \* Body[t]: what the call asks for
  Request,         \* Janus request ids
  LastVersion,     \* bound on the policy versions published
  Gated,           \* versions whose gate matches the calls
  UpstreamAnswer,  \* what the provider, or the response scan, may answer
  StaleReads,      \* may KV return an entry that was overwritten?
  NoRequest, NoVersion, NoFingerprint

Version == 1..LastVersion

ASSUME GatedRequestAssumption ==
  /\ LastVersion \in Nat \ {0}
  /\ Gated \subseteq Version
  /\ UpstreamAnswer \subseteq {"ok", "accepted", "blocked"}
  /\ StaleReads \in BOOLEAN
  /\ NoRequest \notin Request /\ NoVersion \notin Version

Content     == {Body[t] : t \in Task}
Fingerprint == [body : Content, hash : Version]

VARIABLES
  local,      \* the version the records of keys.json are sealed under
  entry,      \* the version in KV, for the key: and for the policy: entry
  old,        \* the overwritten versions a read may still return
  task,       \* the proxy's coroutines
  job,        \* the Worker invocations, two at most per task
  executed,   \* history: the invocations whose call reached the provider
  phase, bound, spends

Ledger == INSTANCE ApprovalLedger

kvVars == <<local, entry, old>>
vars   == <<kvVars, task, job, executed, phase, bound, spends>>

Try == {1, 2}
GateRefusal == {"janus_invalid", "janus_timeout", "janus_refused", "janus_replayed",
                "janus_unreachable"}
JobAnswer   == {"held", "denied", "gate_error", "vault_error"} \cup UpstreamAnswer
Job  == [ st   : {"none", "arrived", "read", "cleared", "answered"},
          key  : Version \cup {NoVersion},
          pol  : Version \cup {NoVersion},
          rid  : Request \cup {NoRequest},
          ans  : JobAnswer \cup {"none"} ]
TaskState == [ at  : {"new", "sent", "polling", "resent", "done"},
               rec : Version \cup {NoVersion},
               rid : Request \cup {NoRequest},
               ans : JobAnswer \cup GateRefusal \cup {"none", "no_answer"} ]

NoJob == [st |-> "none", key |-> NoVersion, pol |-> NoVersion, rid |-> NoRequest, ans |-> "none"]

-----------------------------------------------------------------------------
(* Publishing a policy: the record is sealed anew, then KV is written.     *)

Reseal ==
  /\ local = entry
  /\ local < LastVersion
  /\ local' = local + 1
  /\ UNCHANGED <<entry, old, task, job, executed, phase, bound, spends>>

Publish ==
  /\ local # entry
  /\ entry' = local
  /\ old' = old \cup {entry}
  /\ UNCHANGED <<local, task, job, executed, phase, bound, spends>>

\* Every isolate's cached copy has expired.
Propagate ==
  /\ old # {}
  /\ old' = {}
  /\ UNCHANGED <<local, entry, task, job, executed, phase, bound, spends>>

\* Mutant: a read between the bootstrap's two KV writes finds no entry.
ReadableOrMissing == {entry, NoVersion} \cup (IF StaleReads THEN old ELSE {})

Readable == {entry} \cup (IF StaleReads THEN old ELSE {})

-----------------------------------------------------------------------------
(* The operator and the alarm, at the Janus object.                        *)

Decide(r) ==
  /\ Ledger!Approve(r) \/ Ledger!Refuse({r})
  /\ UNCHANGED <<kvVars, task, job, executed>>

-----------------------------------------------------------------------------
(* The Worker's invocation n for task t: handleProxy, handleSshSign.       *)

Digest(t, n) == [body |-> Body[t], hash |-> job[t][n].key]

Answer(t, n, a) == job' = [job EXCEPT ![t][n] = [@ EXCEPT !.st = "answered", !.ans = a]]

\* Authentication, the lockdown check, the allow block: a denial.
Deny(t, n) ==
  /\ job[t][n].st = "arrived"
  /\ Answer(t, n, "denied")
  /\ UNCHANGED <<kvVars, task, executed, phase, bound, spends>>

\* getRegistryEntry: the key: and the policy: entry, each from a cache of its
\* own.
ReadPolicy(t, n) ==
  /\ job[t][n].st = "arrived"
  /\ \E k, p \in Readable :
       job' = [job EXCEPT ![t][n] = [@ EXCEPT !.key = k, !.pol = p, !.st = "read"]]
  /\ UNCHANGED <<kvVars, task, executed, phase, bound, spends>>

\* No gate rule matches.
PassUngated(t, n) ==
  /\ job[t][n].st = "read"
  /\ job[t][n].pol \notin Gated
  /\ job' = [job EXCEPT ![t][n] = [@ EXCEPT !.st = "cleared"]]
  /\ UNCHANGED <<kvVars, task, executed, phase, bound, spends>>

\* submitGateApproval: 202 with the request id, or a failure that may have
\* left a request behind.
Submit(t, n) ==
  /\ job[t][n].st = "read"
  /\ job[t][n].pol \in Gated /\ job[t][n].rid = NoRequest
  /\ \/ \E r \in Request :
          /\ Ledger!Open(r, Digest(t, n))
          /\ \/ job' = [job EXCEPT ![t][n] =
                         [@ EXCEPT !.st = "answered", !.ans = "held", !.rid = r]]
             \/ Answer(t, n, "gate_error")
     \/ /\ Answer(t, n, "gate_error")
        /\ UNCHANGED <<phase, bound, spends>>
  /\ UNCHANGED <<kvVars, task, executed>>

\* Mutant: the approval is looked up by its id alone.
ConsumeById(t, n) ==
  LET r == job[t][n].rid IN
  /\ job[t][n].st = "read"
  /\ job[t][n].pol \in Gated /\ r # NoRequest
  /\ Ledger!Spend(r, bound[r])
  /\ job' = [job EXCEPT ![t][n] = [@ EXCEPT !.st = "cleared"]]
  /\ UNCHANGED <<kvVars, task, executed>>

\* consumeGateApproval: the 204 may be lost after the approval was spent.
Consume(t, n) ==
  LET r == job[t][n].rid IN
  /\ job[t][n].st = "read"
  /\ job[t][n].pol \in Gated /\ r # NoRequest
  /\ \/ /\ Ledger!Spend(r, Digest(t, n))
        /\ \/ job' = [job EXCEPT ![t][n] = [@ EXCEPT !.st = "cleared"]]
           \/ Answer(t, n, "gate_error")
     \/ /\ ~ (phase[r] = "approved" /\ bound[r] = Digest(t, n))
        /\ Answer(t, n, "gate_error")
        /\ UNCHANGED <<phase, bound, spends>>
  /\ UNCHANGED <<kvVars, task, executed>>

\* The vault opens the record only under the hash it was sealed with.
Opens(t, n) == task[t].rec = job[t][n].key

Dispatch(t, n) ==
  /\ job[t][n].st = "cleared"
  /\ \/ /\ Opens(t, n)
        /\ executed' = executed \cup {<<t, n>>}
        /\ \E a \in UpstreamAnswer : Answer(t, n, a)
     \/ /\ ~Opens(t, n)
        /\ Answer(t, n, "vault_error")
        /\ UNCHANGED executed
  /\ UNCHANGED <<kvVars, task, phase, bound, spends>>

-----------------------------------------------------------------------------
(* The proxy: send_worker_request_with_gate.                               *)

Finish(t, a) == task' = [task EXCEPT ![t] = [@ EXCEPT !.at = "done", !.ans = a]]

\* fetch_record, then the first POST to the Worker.
Send(t) ==
  /\ task[t].at = "new"
  /\ task' = [task EXCEPT ![t] = [@ EXCEPT !.at = "sent", !.rec = local]]
  /\ job' = [job EXCEPT ![t][1] = [@ EXCEPT !.st = "arrived"]]
  /\ UNCHANGED <<kvVars, executed, phase, bound, spends>>

\* Any answer but a 202 is the caller's; a 202 without a request id is not
\* taken for a gate's.
ReceiveFirst(t) ==
  LET a == job[t][1].ans IN
  /\ task[t].at = "sent" /\ job[t][1].st = "answered"
  /\ \/ /\ a = "held"
        /\ task' = [task EXCEPT ![t] = [@ EXCEPT !.at = "polling", !.rid = job[t][1].rid]]
     \/ a = "accepted" /\ Finish(t, "janus_invalid")
     \/ a \notin {"held", "accepted"} /\ Finish(t, a)
  /\ UNCHANGED <<kvVars, job, executed, phase, bound, spends>>

\* The answer of the second POST is the caller's whatever it is.
ReceiveSecond(t) ==
  /\ task[t].at = "resent" /\ job[t][2].st = "answered"
  /\ Finish(t, job[t][2].ans)
  /\ UNCHANGED <<kvVars, job, executed, phase, bound, spends>>

\* Mutant: a request that failed on the wire is sent again.
GiveUpRetrying(t) ==
  /\ task[t].at = "sent"
  /\ task' = [task EXCEPT ![t] = [@ EXCEPT !.at = "resent"]]
  /\ job' = [job EXCEPT ![t][2] = [@ EXCEPT !.st = "arrived"]]
  /\ UNCHANGED <<kvVars, executed, phase, bound, spends>>

\* The connection fails or its timeout passes.
GiveUp(t) ==
  /\ task[t].at \in {"sent", "resent"}
  /\ Finish(t, "no_answer")
  /\ UNCHANGED <<kvVars, job, executed, phase, bound, spends>>

\* A poll that finds the request pending changes nothing.
PollApproved(t) ==
  /\ task[t].at = "polling" /\ phase[task[t].rid] = "approved"
  /\ task' = [task EXCEPT ![t] = [@ EXCEPT !.at = "resent"]]
  /\ job' = [job EXCEPT ![t][2] = [@ EXCEPT !.st = "arrived", !.rid = task[t].rid]]
  /\ UNCHANGED <<kvVars, executed, phase, bound, spends>>

PollResolved(t) ==
  /\ task[t].at = "polling"
  /\ \/ phase[task[t].rid] = "refused" /\ Finish(t, "janus_refused")
     \/ phase[task[t].rid] = "spent"   /\ Finish(t, "janus_replayed")
  /\ UNCHANGED <<kvVars, job, executed, phase, bound, spends>>

PollFails(t) ==
  /\ task[t].at = "polling"
  /\ Finish(t, "janus_unreachable")
  /\ UNCHANGED <<kvVars, job, executed, phase, bound, spends>>

\* Mutant: the deadline also cuts off the second POST.
PollTimesOutLate(t) ==
  /\ task[t].at \in {"polling", "resent"}
  /\ Finish(t, "janus_timeout")
  /\ UNCHANGED <<kvVars, job, executed, phase, bound, spends>>

\* Mutant: the deadline is tested only when a poll found a decision.
PollTimesOutDecided(t) ==
  /\ task[t].at = "polling" /\ phase[task[t].rid] # "waiting"
  /\ Finish(t, "janus_timeout")
  /\ UNCHANGED <<kvVars, job, executed, phase, bound, spends>>

\* deadline, whatever became of the request meanwhile.
PollTimesOut(t) ==
  /\ task[t].at = "polling"
  /\ Finish(t, "janus_timeout")
  /\ UNCHANGED <<kvVars, job, executed, phase, bound, spends>>

-----------------------------------------------------------------------------
Init ==
  /\ local = 1 /\ entry = 1 /\ old = {}
  /\ task = [t \in Task |-> [at |-> "new", rec |-> NoVersion, rid |-> NoRequest, ans |-> "none"]]
  /\ job = [t \in Task |-> [n \in Try |-> NoJob]]
  /\ executed = {}
  /\ Ledger!LedgerInit

\* What the coroutine comes to by itself.
Progress(t) ==
  \/ Send(t) \/ ReceiveFirst(t) \/ ReceiveSecond(t) \/ GiveUp(t)
  \/ PollApproved(t) \/ PollResolved(t) \/ PollTimesOut(t)

Proxy(t) == Progress(t) \/ PollFails(t)

Worker(t, n) ==
  \/ Deny(t, n) \/ ReadPolicy(t, n) \/ PassUngated(t, n)
  \/ Submit(t, n) \/ Consume(t, n) \/ Dispatch(t, n)

Admin == Reseal \/ Publish \/ Propagate

Next ==
  \/ \E t \in Task : Proxy(t)
  \/ \E t \in Task, n \in Try : Worker(t, n)
  \/ \E r \in Request : Decide(r)
  \/ Admin

Spec == Init /\ [][Next]_vars

\* The coroutine runs on: its sockets and its poll loop have deadlines.  The
\* Worker need not run, the network need not fail and nobody need decide.
Fairness == \A t \in Task : WF_vars(Progress(t))

FairSpec == Spec /\ Fairness

-----------------------------------------------------------------------------
TypeOK ==
  /\ local \in Version /\ entry \in Version /\ old \in SUBSET Version
  /\ task \in [Task -> TaskState]
  /\ job \in [Task -> [Try -> Job]]
  /\ executed \in SUBSET (Task \X Try)
  /\ phase \in [Request -> {"unused", "waiting", "approved", "refused", "spent"}]
  /\ bound \in [Request -> Fingerprint \cup {NoFingerprint}]
  /\ spends \in [Request -> 0..1]

\* What reaches the provider under a gating policy was paid for: with an
\* approval of its own, given to this very body under this very policy hash,
\* whatever was published, lost or retried in between.
PaidDispatch ==
  \A x \in executed :
    LET j == job[x[1]][x[2]] IN
    j.pol \in Gated =>
      /\ j.rid \in Request
      /\ phase[j.rid] = "spent"
      /\ bound[j.rid] = Digest(x[1], x[2])
      /\ \A y \in executed : job[y[1]][y[2]].rid = j.rid => y = x

\* A call that goes through twice on its way, held and sent again, reaches
\* the provider once at most.
AtMostOnce == \A t \in Task : Cardinality({n \in Try : <<t, n>> \in executed}) <= 1

\* A caller that is told the gate did not let its call through is told the
\* truth: no invocation has executed it or will.
RefusedIsNotExecuted ==
  \A t \in Task, n \in Try :
    task[t].at = "done" /\ task[t].ans \in GateRefusal =>
      <<t, n>> \notin executed /\ job[t][n].st \in {"none", "answered"}

\* Every call is answered, though the operator never decides and the Worker
\* never answers.
EveryCallAnswered == \A t \in Task : task[t].at # "new" ~> task[t].at = "done"
=============================================================================
