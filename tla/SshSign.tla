------------------------------- MODULE SshSign -------------------------------
(***************************************************************************)
(* An SSH signature: ssh asks subumbra-agent, which asks the proxy, which  *)
(* asks the Worker, which asks the vault.  The Worker finds the session of *)
(* the consumer in KV alone, and the vault counts.  The proxy tells the    *)
(* key service how far the count has come, which closes a session that     *)
(* has reached its limit.                                                  *)
(***************************************************************************)
EXTENDS SessionLifecycle

CONSTANTS
  Request,       \* sign requests of ssh, a connection to the agent each
  Permitted      \* consumers that the record of an SSH key lists as adapters

ASSUME SignAssumption ==
  /\ Permitted \in [Key -> SUBSET Consumer]

VARIABLES
  call,       \* what became of each request
  quota       \* ssh_session_quota of the vault: sign_count

signVars == <<call, quota>>
vars     == <<sessionVars, signVars>>

NoPair == <<>>
Stage  == {"open", "sent", "gated", "vault", "signed", "done"}
NewCall == [st |-> "open", pair |-> NoPair, s |-> NoSession, n |-> 0, limit |-> FALSE]

At(r, st) == call[r].st = st
Become(r, st) == call' = [call EXCEPT ![r].st = st]
Finish(r) == call' = [call EXCEPT ![r] = [NewCall EXCEPT !.st = "done"]]

-----------------------------------------------------------------------------
(* The agent.                                                              *)

\* load_identities: an agent of consumer c offers the active keys that list it.
Offers(c, k) == k \in Live /\ c \in Permitted[k]

Send(r, c, k) ==
  /\ At(r, "open")
  /\ call' = [call EXCEPT ![r].st = "sent", ![r].pair = <<c, k>>]
  /\ UNCHANGED <<sessionVars, quota>>

\* handle_sign_request up to the POST.  What the record refuses leaves no trace
\* and is not enumerated: another consumer, or another host than its policy and
\* the binding of the connection name.
Ask(r, c, k) == Offers(c, k) /\ Send(r, c, k)

\* A caller with the consumer's token may ask the proxy itself.
AskProxy(r, c, k) == c \in Permitted[k] /\ Send(r, c, k)

-----------------------------------------------------------------------------
(* The Worker.                                                             *)

\* handleSshSign reads active_consumer: and then key:, and refuses or goes on.
ReadGate(r) ==
  LET c == call[r].pair[1]
      k == call[r].pair[2]
  IN
  /\ At(r, "sent")
  /\ IF now >= gate[c] \/ keyState[k] = "new" THEN Finish(r) ELSE Become(r, "gated")
  /\ UNCHANGED <<sessionVars, quota>>

\* It reads ssh_session_scope:.  KV is eventually consistent: an edge may still
\* serve what any start wrote, or nothing.  An entry whose session is over is
\* refused.
ReadScope(r) ==
  /\ At(r, "gated")
  /\ \E s \in {NoSession} \cup {t \in Session : call[r].pair \in metered[t]} :
       IF s # NoSession /\ row[s].expires <= now
       THEN Finish(r)
       ELSE call' = [call EXCEPT ![r].st = "vault", ![r].s = s]
  /\ UNCHANGED <<sessionVars, quota>>

-----------------------------------------------------------------------------
(* The vault, and the answer on its way.                                   *)

QuotaLeft(r) == quota[call[r].s][call[r].pair] < SignLimit[call[r].s]

\* _handleSshSign: beyond the limit it answers 403 with the limit in the
\* headers, else it signs and counts.  Web Crypto serves nobody else while it
\* signs, or so the comment at the count has it.
VaultSign(r) ==
  LET s == call[r].s
      p == call[r].pair
      n == quota[s][p] + 1
  IN
  /\ At(r, "vault")
  /\ s # NoSession
  /\ IF QuotaLeft(r)
     THEN /\ quota' = [quota EXCEPT ![s][p] = n]
          /\ call' = [call EXCEPT ![r].st = "signed", ![r].n = n,
                                 ![r].limit = n >= SignLimit[s]]
     ELSE /\ call' = [call EXCEPT ![r].st = "signed", ![r].n = n - 1, ![r].limit = TRUE]
          /\ UNCHANGED quota
  /\ UNCHANGED sessionVars

\* Without a session in the payload nothing is counted.
VaultUnmetered(r) ==
  /\ At(r, "vault")
  /\ call[r].s = NoSession
  /\ Finish(r)
  /\ UNCHANGED <<sessionVars, quota>>

\* Mutant: the count itself is what closes the session.
ReflectedByCount(s, n, limit) ==
  LET r == Refreshed[s] IN
  IF r.st # "active" THEN Refreshed
  ELSE [Refreshed EXCEPT ![s] = [r EXCEPT !.signs = n,
          !.st = IF n + 1 >= SignLimit[s] THEN "closed" ELSE @]]

\* _reflect_session_ssh_sign: the count never goes back, the limit closes.
Reflected(s, n, limit) ==
  LET r == Refreshed[s] IN
  IF r.st # "active" THEN Refreshed
  ELSE [Refreshed EXCEPT ![s] = [r EXCEPT !.signs = Max({@, n}),
          !.st = IF limit THEN "closed" ELSE @]]

\* The proxy posts the count before it passes the answer on.
Reflect(r) ==
  /\ At(r, "signed")
  /\ row' = Reflected(call[r].s, call[r].n, call[r].limit)
  /\ Finish(r)
  /\ UNCHANGED <<now, keyState, kvVars, op, historyVars, quota>>

\* The connection breaks, the proxy is restarted or the key service refuses:
\* the caller asks anew with another request, and the count is not reported.
\* The vault itself finishes what it began.
Lose(r) ==
  /\ call[r].st \in {"sent", "gated", "vault", "signed"}
  /\ Finish(r)
  /\ UNCHANGED <<sessionVars, quota>>

-----------------------------------------------------------------------------

Init ==
  /\ SessionInit
  /\ call = [r \in Request |-> NewCall]
  /\ quota = [s \in Session |-> [p \in Pair |-> 0]]

Serve(r) ==
  \/ \E c \in Consumer, k \in Key :
       AskProxy(r, c, k) \/ Ask(r, c, k)
  \/ ReadGate(r) \/ ReadScope(r)
  \/ VaultSign(r) \/ VaultUnmetered(r)
  \/ Reflect(r) \/ Lose(r)

Next ==
  \/ SessionNext /\ UNCHANGED signVars
  \/ \E r \in Request : Serve(r)

Spec == Init /\ [][Next]_vars

-----------------------------------------------------------------------------
(* Properties.                                                             *)

TypeOK ==
  /\ SessionTypeOK
  /\ call \in [Request -> [st : Stage, pair : Pair \cup {NoPair},
                 s : Session \cup {NoSession}, n : Nat, limit : BOOLEAN]]
  /\ quota \in [Session -> [Pair -> Nat]]

\* What the row says of signatures was made, though reports are lost and come
\* in any order; and a session that nobody ended is closed only when a consumer
\* has used up its limit (_reflect_session_ssh_sign).
ReflectionTruthful ==
  \A s \in Session :
    /\ row[s].signs > 0 => \E p \in Pair : row[s].signs <= quota[s][p]
    /\ row[s].st = "closed" /\ s \notin ended =>
         \E p \in Pair : quota[s][p] >= SignLimit[s]
=============================================================================
