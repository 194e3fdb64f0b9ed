---------------------------- MODULE ApprovalLedger ----------------------------
(***************************************************************************)
(* What the gate promises, whatever the SubumbraJanus object does to keep  *)
(* it: a request is opened for one fingerprint, an operator approves it or *)
(* it is refused, and an approval is spent at most once.  JanusDO          *)
(* implements this ledger; GatedRequest relies on it.                      *)
(***************************************************************************)
EXTENDS Naturals

CONSTANTS
  Request,        \* request ids
  Fingerprint,    \* what a request digest identifies
  NoFingerprint

VARIABLES
  phase,   \* "unused", "waiting", "approved", "refused" or "spent"
  bound,   \* the fingerprint a request was opened for
  spends   \* how often an approval was spent

ledgerVars == <<phase, bound, spends>>

LedgerInit ==
  /\ phase  = [r \in Request |-> "unused"]
  /\ bound  = [r \in Request |-> NoFingerprint]
  /\ spends = [r \in Request |-> 0]

Open(r, f) ==
  /\ phase[r] = "unused"
  /\ phase' = [phase EXCEPT ![r] = "waiting"]
  /\ bound' = [bound EXCEPT ![r] = f]
  /\ UNCHANGED spends

Approve(r) ==
  /\ phase[r] = "waiting"
  /\ phase' = [phase EXCEPT ![r] = "approved"]
  /\ UNCHANGED <<bound, spends>>

\* Denied by the operator, or out of time: an alarm refuses several at once.
Refuse(R) ==
  /\ R # {}
  /\ \A r \in R : phase[r] = "waiting"
  /\ phase' = [r \in Request |-> IF r \in R THEN "refused" ELSE phase[r]]
  /\ UNCHANGED <<bound, spends>>

Spend(r, f) ==
  /\ phase[r] = "approved"
  /\ bound[r] = f
  /\ phase'  = [phase EXCEPT ![r] = "spent"]
  /\ spends' = [spends EXCEPT ![r] = @ + 1]
  /\ UNCHANGED bound

LedgerNext ==
  \/ \E r \in Request, f \in Fingerprint : Open(r, f) \/ Spend(r, f)
  \/ \E r \in Request : Approve(r)
  \/ \E R \in SUBSET Request : Refuse(R)

LedgerSpec == LedgerInit /\ [][LedgerNext]_ledgerVars
=============================================================================
