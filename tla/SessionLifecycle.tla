-------------------------- MODULE SessionLifecycle --------------------------
(***************************************************************************)
(* bootstrap.sh --session start | end.  A session is a row of sessions.db  *)
(* and, for the Worker, entries of Cloudflare KV: active_consumer:{c}      *)
(* opens the gate of a consumer, and ssh_session_scope:{c}:{k} meters its  *)
(* signatures.  (session_token:{s}:{c} is a copy for the eye: nobody reads *)
(* it, and its writes and deletions fail as their neighbours do.)          *)
(*                                                                         *)
(* A command writes these stores one after the other.  Any call to KV may  *)
(* fail, which ends the command (SystemExit) or, while a session starts,   *)
(* makes it undo what it did; and the command may be killed anywhere.      *)
(***************************************************************************)
EXTENDS Integers, FiniteSets, FiniteSetsExt

CONSTANTS
  Operator,       \* commands that may run at the same time
  Session,
  NoSession,
  Consumer,       \* consumers of SUBUMBRA_CONSUMER_REGISTRY that may fetch keys
  Key,
  ConsumerScope,  \* --consumers of a session
  KeyScope,       \* --keys of a session, {} for all
  SignLimit,      \* --max-sign-ops of a session, 0 when there is none
  Ttl,            \* --ttl of a session
  Latency,        \* by how much the expiry of a KV entry may be late
  FirstKeys,      \* keys of endpoint.json at the start
  MaxTime         \* bound on the clock

ASSUME SessionAssumption ==
  /\ {Latency, MaxTime} \subseteq Nat
  /\ ConsumerScope \in [Session -> (SUBSET Consumer) \ {{}}]
  /\ KeyScope \in [Session -> SUBSET Key]
  /\ SignLimit \in [Session -> Nat]
  /\ Ttl \in [Session -> Nat \ {0}]
  /\ NoSession \notin Session
  /\ FirstKeys \in (SUBSET Key) \ {{}}
  /\ IsFiniteSet(Session) /\ IsFiniteSet(Consumer) /\ IsFiniteSet(Key)

VARIABLES
  now,         \* seconds
  keyState,    \* records of endpoint.json
  row,         \* sessions.db; "none" is a session not started yet
  gate,        \* active_consumer:{c}: when it expires, 0 when absent
  scope,       \* ssh_session_scope:{c}:{k}: the session it names
  op,          \* the command each operator runs
  metered,     \* written_scope_keys of a start, per session
  dismantled,  \* history: sessions that a command began to end or to undo
  ended,       \* history: sessions that --session end closed
  strayed,     \* history: undone sessions whose gates were not reconciled
  raced        \* history: pairs of sessions whose starts ran at the same time

kvVars == <<gate, scope>>
historyVars == <<metered, dismantled, ended, strayed, raced>>
sessionVars == <<now, keyState, row, kvVars, op, historyVars>>

Pair   == Consumer \X Key
Status == {"none", "pending", "active", "expired", "closed", "deleted"}
Phase  == {"idle", "checked", "clear", "scopes", "activate", "gates",
           "undo", "undoGates", "endGates", "endScopes", "close"}

Idle == [ph |-> "idle", s |-> NoSession, todo |-> {}, seen |-> {}, rest |-> {},
         until |-> 0]

-----------------------------------------------------------------------------
(* Reading the table.                                                      *)

Live    == {k \in Key : keyState[k] \in {"live", "again"}}
Revived == {k \in Key : keyState[k] = "again"}

EffectiveKeys(s) == IF KeyScope[s] = {} THEN Live ELSE KeyScope[s]
Pairs(s) == ConsumerScope[s] \X EffectiveKeys(s)

Overdue(s) == row[s].st = "active" /\ row[s].expires < now

\* Mutant: overdue rows get a status that no reader of the table knows.
RefreshedOver == [s \in Session |->
                    IF Overdue(s) THEN [row[s] EXCEPT !.st = "over"] ELSE row[s]]

\* _expire_active_sessions, before every reading of the table.
Refreshed == [s \in Session |->
                IF Overdue(s) THEN [row[s] EXCEPT !.st = "expired"] ELSE row[s]]

ActiveIn(rows) == {s \in Session : rows[s].st = "active"}

Overlap(s, t) ==
  /\ ConsumerScope[s] \cap ConsumerScope[t] # {}
  /\ EffectiveKeys(s) \cap EffectiveKeys(t) # {}

\* Mutant: the scopes are compared as stored, where all keys is no key.
ClashesStored(s) ==
  \E t \in ActiveIn(Refreshed) :
    /\ ConsumerScope[s] \cap ConsumerScope[t] # {}
    /\ KeyScope[s] \cap KeyScope[t] # {}

\* _ensure_session_start_has_no_overlap: a session that is not active yet does
\* not count.
Clashes(s) == \E t \in ActiveIn(Refreshed) : Overlap(s, t)

-----------------------------------------------------------------------------
(* Steps of a command.                                                     *)

InPhase(o, ph) == op[o].ph = ph

Stop(o) == op' = [op EXCEPT ![o] = Idle]

Goto(o, ph, todo) == op' = [op EXCEPT ![o].ph = ph, ![o].todo = todo]

\* The next item of a loop, and the phase that follows its last one.
First(todo) == CHOOSE x \in todo : TRUE

Loop(o, ph, todo) ==
  LET left == op[o].todo \ {First(op[o].todo)} IN
  IF left = {} THEN Goto(o, ph, todo) ELSE Goto(o, op[o].ph, left)

\* Mutant: the remaining time of all sessions counts, whoever they are for.
LongestOfAll(c, seen) ==
  Max({0} \cup {row[s].expires - now : s \in seen})

\* The longest remaining time of the sessions that cover the consumer.
LongestRemaining(c, seen) ==
  Max({0} \cup {row[s].expires - now : s \in {t \in seen : c \in ConsumerScope[t]}})

\* _reconcile_active_consumer_gate: put the gate anew, or delete it.
Reconcile(c, seen) ==
  LET remaining == LongestRemaining(c, seen) IN
  \E late \in 0..Latency :
    gate' = [gate EXCEPT ![c] = IF remaining > 0 THEN now + remaining + late ELSE 0]

-----------------------------------------------------------------------------
(* --session start.                                                        *)

\* Between the check that no active session overlaps and the row of its own.
Starting(o) == op[o].ph \in {"checked", "clear", "scopes", "activate"}

\* The scopes resolve, and no active session overlaps; else it dies here.
\* Nothing keeps another start out until the row is active.
StartCheck(o, s) ==
  /\ InPhase(o, "idle")
  /\ row[s].st = "none"
  /\ \A p \in Operator : op[p].s # s
  /\ KeyScope[s] \subseteq Live
  /\ row' = Refreshed
  /\ IF Clashes(s)
     THEN UNCHANGED op
     ELSE op' = [op EXCEPT ![o] =
            [Idle EXCEPT !.ph = "checked", !.s = s, !.until = now + Ttl[s]]]
  /\ raced' = raced \cup {{s, op[p].s} : p \in {q \in Operator : Starting(q)}}
  /\ UNCHANGED <<now, keyState, kvVars, metered, dismantled, ended, strayed>>

StartInsert(o) ==
  LET s == op[o].s IN
  /\ InPhase(o, "checked")
  /\ row' = [row EXCEPT ![s] = [st |-> "pending", expires |-> op[o].until, signs |-> 0]]
  /\ Goto(o, "clear", Pairs(s))
  /\ UNCHANGED <<now, keyState, kvVars, historyVars>>

\* A call to KV that dies: the handler of SystemExit takes over.
StartFails(o) ==
  /\ op[o].ph \in {"clear", "scopes", "gates"}
  /\ Goto(o, "undo", {})
  /\ dismantled' = dismantled \cup {op[o].s}
  /\ UNCHANGED <<now, keyState, row, kvVars, metered, ended, strayed, raced>>

\* Mutant: the session counts before its scopes are written.
StartClearActive(o) ==
  /\ InPhase(o, "clear")
  /\ scope' = [scope EXCEPT ![First(op[o].todo)] = NoSession]
  /\ Loop(o, "activate", {})
  /\ UNCHANGED <<now, keyState, row, gate, historyVars>>

\* Whatever metered the pairs of the session before goes.
StartClear(o) ==
  LET s == op[o].s IN
  /\ InPhase(o, "clear")
  /\ scope' = [scope EXCEPT ![First(op[o].todo)] = NoSession]
  /\ IF SignLimit[s] > 0 THEN Loop(o, "scopes", Pairs(s)) ELSE Loop(o, "activate", {})
  /\ UNCHANGED <<now, keyState, row, gate, historyVars>>

StartScope(o) ==
  LET s == op[o].s IN
  /\ InPhase(o, "scopes")
  /\ scope' = [scope EXCEPT ![First(op[o].todo)] = s]
  /\ metered' = [metered EXCEPT ![s] = @ \cup {First(op[o].todo)}]
  /\ Loop(o, "activate", {})
  /\ UNCHANGED <<now, keyState, row, gate, dismantled, ended, strayed, raced>>

\* The row becomes active, and the table is read again.
StartActivate(o) ==
  LET s    == op[o].s
      rows == [Refreshed EXCEPT ![s].st =
                 IF row[s].expires < now THEN "expired" ELSE "active"]
  IN
  /\ InPhase(o, "activate")
  /\ row' = rows
  /\ op' = [op EXCEPT ![o].ph = "gates", ![o].todo = ConsumerScope[s],
                      ![o].seen = ActiveIn(rows)]
  /\ UNCHANGED <<now, keyState, kvVars, historyVars>>

StartGate(o) ==
  /\ InPhase(o, "gates")
  /\ Reconcile(First(op[o].todo), op[o].seen)
  /\ IF Cardinality(op[o].todo) = 1 THEN Stop(o) ELSE Loop(o, "gates", {})
  /\ UNCHANGED <<now, keyState, row, scope, historyVars>>

-----------------------------------------------------------------------------
(* The handler of SystemExit.                                              *)

\* The entries are deleted one by one; a deletion that fails is passed over.
UndoScope(o) ==
  LET s == op[o].s IN
  /\ InPhase(o, "undo")
  /\ \E p \in metered[s] : scope[p] = s /\ scope' = [scope EXCEPT ![p] = NoSession]
  /\ UNCHANGED <<now, keyState, row, gate, op, historyVars>>

UndoRow(o) ==
  LET s    == op[o].s
      rows == [Refreshed EXCEPT ![s].st = "deleted"]
  IN
  /\ InPhase(o, "undo")
  /\ row' = rows
  /\ op' = [op EXCEPT ![o].ph = "undoGates", ![o].todo = ConsumerScope[s],
                      ![o].seen = ActiveIn(rows)]
  /\ strayed' = strayed \cup {s}
  /\ UNCHANGED <<now, keyState, kvVars, metered, dismantled, ended, raced>>

UndoGate(o) ==
  LET last == Cardinality(op[o].todo) = 1 IN
  /\ InPhase(o, "undoGates")
  /\ Reconcile(First(op[o].todo), op[o].seen)
  /\ IF last THEN Stop(o) ELSE Loop(o, "undoGates", {})
  /\ strayed' = IF last THEN strayed \ {op[o].s} ELSE strayed
  /\ UNCHANGED <<now, keyState, row, scope, metered, dismantled, ended, raced>>

-----------------------------------------------------------------------------
(* --session end.                                                          *)

EndNext(o, s, seen, rest) ==
  /\ op' = [op EXCEPT ![o] = [Idle EXCEPT !.ph = "endGates", !.s = s,
              !.todo = ConsumerScope[s], !.seen = seen \ {s}, !.rest = rest \ {s}]]
  /\ dismantled' = dismantled \cup {s}

\* One session, or all that are active.
EndStart(o) ==
  LET active == ActiveIn(Refreshed) IN
  /\ InPhase(o, "idle")
  /\ row' = Refreshed
  /\ \E targets \in {{s} : s \in active} \cup ({active} \ {{}}) :
       EndNext(o, First(targets), active, targets)
  /\ UNCHANGED <<now, keyState, kvVars, metered, ended, strayed, raced>>

EndGate(o) ==
  LET s == op[o].s IN
  /\ InPhase(o, "endGates")
  /\ Reconcile(First(op[o].todo), op[o].seen)
  /\ IF SignLimit[s] > 0 THEN Loop(o, "endScopes", Pairs(s)) ELSE Loop(o, "close", {})
  /\ UNCHANGED <<now, keyState, row, scope, historyVars>>

EndScope(o) ==
  /\ InPhase(o, "endScopes")
  /\ scope' = [scope EXCEPT ![First(op[o].todo)] = NoSession]
  /\ Loop(o, "close", {})
  /\ UNCHANGED <<now, keyState, row, gate, historyVars>>

EndClose(o) ==
  LET s == op[o].s IN
  /\ InPhase(o, "close")
  /\ row' = [row EXCEPT ![s].st = IF @ = "active" THEN "closed" ELSE @]
  /\ ended' = ended \cup {s}
  /\ IF op[o].rest = {}
     THEN Stop(o) /\ UNCHANGED dismantled
     ELSE EndNext(o, First(op[o].rest), op[o].seen, op[o].rest)
  /\ UNCHANGED <<now, keyState, kvVars, metered, strayed, raced>>

\* A call to KV dies while a session ends or is undone, or the command is
\* killed, whatever it was about.
Quit(o) ==
  /\ op[o].ph # "idle"
  /\ Stop(o)
  /\ UNCHANGED <<now, keyState, row, kvVars, historyVars>>

-----------------------------------------------------------------------------
(* Around the commands.                                                    *)

\* The key service expires rows whenever it reads the table.
Sweep ==
  /\ row' = Refreshed
  /\ UNCHANGED <<now, keyState, kvVars, op, historyVars>>

\* The commands on keys.  --add-ssh-key takes the id of a revoked key again,
\* once here.  One key stays live: without any, a command about all keys dies.
ChangeKeys ==
  /\ \E k \in Key :
       \/ keyState[k] = "new" /\ keyState' = [keyState EXCEPT ![k] = "live"]
       \/ keyState[k] = "revoked" /\ keyState' = [keyState EXCEPT ![k] = "again"]
       \/ /\ keyState[k] = "live"
          /\ Live # {k}
          /\ keyState' = [keyState EXCEPT ![k] = "revoked"]
  /\ UNCHANGED <<now, row, kvVars, op, historyVars>>

\* KV drops a scope entry some time after the session is over.
ScopeExpires ==
  /\ \E p \in Pair :
       /\ scope[p] # NoSession
       /\ row[scope[p]].expires <= now
       /\ scope' = [scope EXCEPT ![p] = NoSession]
  /\ UNCHANGED <<now, keyState, row, gate, op, historyVars>>

Tick ==
  /\ now < MaxTime
  /\ now' = now + 1
  /\ UNCHANGED <<keyState, row, kvVars, op, historyVars>>

SessionInit ==
  /\ now = 0
  /\ keyState = [k \in Key |-> IF k \in FirstKeys THEN "live" ELSE "new"]
  /\ row = [s \in Session |-> [st |-> "none", expires |-> 0, signs |-> 0]]
  /\ gate = [c \in Consumer |-> 0]
  /\ scope = [p \in Pair |-> NoSession]
  /\ op = [o \in Operator |-> Idle]
  /\ metered = [s \in Session |-> {}]
  /\ dismantled = {} /\ ended = {} /\ strayed = {} /\ raced = {}

Command(o) ==
  \/ \E s \in Session : StartCheck(o, s)
  \/ StartInsert(o) \/ StartClear(o) \/ StartScope(o)
  \/ StartActivate(o) \/ StartGate(o) \/ StartFails(o)
  \/ UndoScope(o) \/ UndoRow(o) \/ UndoGate(o)
  \/ EndStart(o) \/ EndGate(o) \/ EndScope(o) \/ EndClose(o)
  \/ Quit(o)

SessionNext ==
  \/ \E o \in Operator : Command(o)
  \/ Sweep \/ ChangeKeys \/ ScopeExpires \/ Tick

-----------------------------------------------------------------------------
(* Properties.                                                             *)

SessionTypeOK ==
  /\ now \in 0..MaxTime
  /\ keyState \in [Key -> {"new", "live", "revoked", "again"}]
  /\ row \in [Session -> [st : Status, expires : Nat, signs : Nat]]
  /\ gate \in [Consumer -> Nat]
  /\ scope \in [Pair -> Session \cup {NoSession}]
  /\ op \in [Operator -> [ph : Phase, s : Session \cup {NoSession},
               todo : SUBSET (Consumer \cup Pair), seen : SUBSET Session,
               rest : SUBSET Session, until : Nat]]
  /\ metered \in [Session -> SUBSET Pair]
  /\ {dismantled, ended, strayed} \subseteq SUBSET Session
  /\ raced \subseteq SUBSET Session

Open(c) == now < gate[c]

\* The sessions that may account for an open gate.  A session that has not
\* become active, that was ended, or that was undone to the last step is none.
Backs(s, c) ==
  /\ c \in ConsumerScope[s]
  /\ gate[c] <= row[s].expires + Latency
  /\ s \notin ended
  /\ row[s].st \in {"active", "expired", "closed"} \/ s \in strayed

\* A gate stands open for a consumer only on account of a session that is
\* active, ran out, or reached its limit, and not beyond its time: whatever
\* command failed or was killed in between, the end of a session that reports
\* success leaves no consumer unlocked (_reconcile_active_consumer_gates).
GateBacked == \A c \in Consumer : Open(c) => \E s \in Session : Backs(s, c)

\* A session with --max-sign-ops is never active without the entries that make
\* the Worker count its signatures, as long as nobody began to take it down:
\* they are written before the row is activated, and no start or end of
\* another session touches them (_ssh_session_scope_pairs).  The key of an id
\* that came back from revocation is left out here and below: a session that
\* named the old key covers the new one, whoever else started meanwhile.
MeteredWhileActive ==
  \A s \in ActiveIn(row) :
    SignLimit[s] > 0 /\ s \notin dismantled /\ now < row[s].expires =>
      metered[s] # {} /\ \A p \in metered[s] : scope[p] = s \/ p[2] \in Revived

\* Active sessions never cover the same consumer and key, so that the key
\* service never finds two that match (_ensure_session_start_has_no_overlap).
\* "Overlapping sessions are rejected": the documents say it of any two starts.
NoOverlap ==
  \A s, t \in ActiveIn(row) :
    s # t /\ ConsumerScope[s] \cap ConsumerScope[t] # {} =>
      EffectiveKeys(s) \cap EffectiveKeys(t) \subseteq Revived

\* What holds with any number of operators: only two starts that ran at the
\* same time, one checking while the other had checked and was not active yet,
\* leave active sessions that overlap.  Neither a session that ran out, was
\* ended or undone halfway, nor a key that comes or goes in between, does.
OverlapsRaced ==
  \A s, t \in ActiveIn(row) :
    s # t /\ ConsumerScope[s] \cap ConsumerScope[t] # {} =>
      {s, t} \in raced \/ EffectiveKeys(s) \cap EffectiveKeys(t) \subseteq Revived
=============================================================================
