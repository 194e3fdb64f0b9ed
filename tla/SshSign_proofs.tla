--------------------------- MODULE SshSign_proofs ---------------------------
(***************************************************************************)
(* Sessions and signatures, for every number of sessions, consumers, keys  *)
(* and requests.  For every number of operators: the types, the course of  *)
(* the rows (RunsItsCourse), that only starts which race leave sessions    *)
(* that overlap (OverlapsRaced), and what the key service is told of       *)
(* signatures (ReflectionTruthful).  For one operator at a time: a session *)
(* with a limit on its signatures is metered (MeteredWhileActive), and a   *)
(* gate is open on account of a session alone (GateBacked).                *)
(***************************************************************************)
EXTENDS SshSign, FiniteSetTheorems, WellFoundedInduction, TLAPS

OpType == [ph : Phase, s : Session \cup {NoSession},
           todo : SUBSET (Consumer \cup Pair), seen : SUBSET Session,
           rest : SUBSET Session, until : Nat]
RowType  == [st : Status, expires : Nat, signs : Nat]
CallType == [st : Stage, pair : Pair \cup {NoPair},
             s : Session \cup {NoSession}, n : Nat, limit : BOOLEAN]

\* A pair that a session with these scopes may come to meter.
Covers(s, p) ==
  p \in Pair /\ p[1] \in ConsumerScope[s] /\ (KeyScope[s] = {} \/ p[2] \in KeyScope[s])

\* The loops over pairs have some left, of the session they are about.
Progress(o) ==
  /\ op[o].ph = "idle" => op[o] = Idle
  /\ op[o].ph # "idle" => op[o].s \in Session
  /\ op[o].ph \in {"clear", "scopes", "endScopes"} =>
       op[o].todo # {} /\ \A p \in op[o].todo : Covers(op[o].s, p)

\* The types of the table, the keys and the commands.
TableTyped ==
  /\ now \in Nat
  /\ keyState \in [Key -> {"new", "live", "revoked", "again"}]
  /\ row \in [Session -> RowType]
  /\ op \in [Operator -> OpType]
  /\ metered \in [Session -> SUBSET Pair]
  /\ Live # {}
  /\ \A o \in Operator : Progress(o)

CallsTyped ==
  /\ call \in [Request -> CallType]
  /\ quota \in [Session -> [Pair -> Nat]]

-----------------------------------------------------------------------------
(* Helpers of the commands.                                                *)

LEMMA FirstIsIn ==
  ASSUME NEW S, S # {}
  PROVE  First(S) \in S
  BY DEF First

LEMMA MaxOfTwo ==
  ASSUME NEW a \in Nat, NEW b \in Nat
  PROVE  Max({a, b}) \in {a, b}
  <1>1. \E x \in {a, b} : \A y \in {a, b} : x >= y
    <2>1. CASE a >= b
      BY <2>1
    <2>2. CASE b >= a
      BY <2>2
    <2> QED
      BY <2>1, <2>2
  <1> QED
    BY <1>1 DEF Max

LEMMA RefreshedTyped ==
  ASSUME TableTyped
  PROVE  /\ Refreshed \in [Session -> RowType]
         /\ \A s \in Session :
              /\ Refreshed[s].expires = row[s].expires
              /\ Refreshed[s].signs = row[s].signs
              /\ \/ Refreshed[s].st = row[s].st
                 \/ row[s].st = "active" /\ Refreshed[s].st = "expired"
  BY DEF TableTyped, RowType, Status, Refreshed, Overdue

\* The pairs of a session are not empty, since some key is live.
LEMMA PairsCovered ==
  ASSUME NEW s \in Session, Live # {}
  PROVE  /\ Pairs(s) # {}
         /\ Pairs(s) \in SUBSET (Consumer \cup Pair)
         /\ \A p \in Pairs(s) : Covers(s, p) /\ p[2] \in EffectiveKeys(s)
  <1>1. ConsumerScope[s] \in (SUBSET Consumer) \ {{}} /\ KeyScope[s] \in SUBSET Key
    BY SessionAssumption
  <1>2. EffectiveKeys(s) \in SUBSET Key /\ EffectiveKeys(s) # {}
    BY <1>1 DEF EffectiveKeys, Live
  <1>3. PICK c \in ConsumerScope[s], k \in EffectiveKeys(s) : TRUE
    BY <1>1, <1>2
  <1>4. <<c, k>> \in Pairs(s)
    BY <1>3 DEF Pairs
  <1>5. \A p \in Pairs(s) : Covers(s, p) /\ p[2] \in EffectiveKeys(s)
    BY <1>1, <1>2 DEF Pairs, Covers, EffectiveKeys, Pair
  <1> QED
    BY <1>4, <1>5 DEF Covers

\* The operators but one are where they were.
Others(o) == \A p \in Operator \ {o} : op'[p] = op[p]

\* A loop that goes on, or comes to its end.
LEMMA LoopSteps ==
  ASSUME TableTyped, NEW o \in Operator, NEW ph \in Phase, ph # "idle",
         NEW todo \in SUBSET (Consumer \cup Pair), op[o].ph # "idle",
         ph \in {"clear", "scopes", "endScopes"} =>
           todo # {} /\ \A p \in todo : Covers(op[o].s, p),
         Loop(o, ph, todo)
  PROVE  /\ op' \in [Operator -> OpType]
         /\ Others(o)
         /\ op'[o].s = op[o].s /\ op'[o].rest = op[o].rest /\ op'[o].seen = op[o].seen
         /\ op[o].todo \ {First(op[o].todo)} = {} => op'[o].ph = ph /\ op'[o].todo = todo
         /\ op[o].todo \ {First(op[o].todo)} # {} =>
              op'[o].ph = op[o].ph /\ op'[o].todo = op[o].todo \ {First(op[o].todo)}
         /\ Progress(o)'
  <1> DEFINE left == op[o].todo \ {First(op[o].todo)}
  <1>1. op[o] \in OpType /\ left \in SUBSET (Consumer \cup Pair)
    BY DEF TableTyped, OpType
  <1>2. CASE left = {}
    <2>1. op' = [op EXCEPT ![o].ph = ph, ![o].todo = todo]
      BY <1>2 DEF Loop, Goto
    <2>2. op'[o] = [op[o] EXCEPT !.ph = ph, !.todo = todo]
      BY <2>1 DEF TableTyped
    <2>3. op'[o] \in OpType /\ op' \in [Operator -> OpType] /\ Others(o)
      BY <1>1, <2>1, <2>2 DEF OpType, TableTyped, Others
    <2>4. op'[o].ph = ph /\ op'[o].todo = todo /\ op'[o].s = op[o].s
          /\ op'[o].rest = op[o].rest /\ op'[o].seen = op[o].seen
      BY <1>1, <2>2 DEF OpType
    <2>5. Progress(o)'
      BY <2>4 DEF Progress, TableTyped, Covers
    <2> QED
      BY <1>2, <2>3, <2>4, <2>5
  <1>3. CASE left # {}
    <2>1. op' = [op EXCEPT ![o].ph = op[o].ph, ![o].todo = left]
      BY <1>3 DEF Loop, Goto
    <2>2. op'[o] = [op[o] EXCEPT !.ph = op[o].ph, !.todo = left]
      BY <2>1 DEF TableTyped
    <2>3. op'[o] \in OpType /\ op' \in [Operator -> OpType] /\ Others(o)
      BY <1>1, <2>1, <2>2 DEF OpType, TableTyped, Others
    <2>4. op'[o].ph = op[o].ph /\ op'[o].todo = left /\ op'[o].s = op[o].s
          /\ op'[o].rest = op[o].rest /\ op'[o].seen = op[o].seen
      BY <1>1, <2>2 DEF OpType
    <2>5. Progress(o)'
      BY <1>3, <2>4 DEF Progress, TableTyped, Covers
    <2> QED
      BY <1>3, <2>3, <2>4, <2>5
  <1> QED
    BY <1>2, <1>3

LEMMA IdleTyped == Idle \in OpType
  BY DEF Idle, OpType, Phase

\* A step of an operator that is given its record.
LEMMA RecordSteps ==
  ASSUME TableTyped, NEW o \in Operator, NEW rec \in OpType, op' = [op EXCEPT ![o] = rec]
  PROVE  op' \in [Operator -> OpType] /\ Others(o) /\ op'[o] = rec
  BY DEF TableTyped, Others

LEMMA Assemble ==
  ASSUME TableTyped, NEW o \in Operator,
         op' \in [Operator -> OpType], Others(o), Progress(o)',
         row' \in [Session -> RowType], metered' \in [Session -> SUBSET Pair],
         keyState' = keyState, now' = now
  PROVE  TableTyped'
  <1>1. Live' = Live
    BY DEF Live
  <1>2. \A p \in Operator : Progress(p)'
    BY DEF TableTyped, Others, Progress
  <1> QED
    BY <1>1, <1>2 DEF TableTyped

\* A session that is about to end.
Ending(s, seen, rest) ==
  [Idle EXCEPT !.ph = "endGates", !.s = s, !.todo = ConsumerScope[s],
               !.seen = seen \ {s}, !.rest = rest \ {s}]

LEMMA EndNextSteps ==
  ASSUME TableTyped, NEW o \in Operator, NEW s \in Session, NEW seen \in SUBSET Session,
         NEW rest \in SUBSET Session, EndNext(o, s, seen, rest)
  PROVE  /\ op' \in [Operator -> OpType] /\ Others(o) /\ Progress(o)'
         /\ op'[o].ph = "endGates" /\ op'[o].s = s /\ op'[o].rest = rest \ {s}
         /\ op'[o].seen = seen \ {s} /\ op'[o].todo = ConsumerScope[s]
  <1>1. Ending(s, seen, rest) \in OpType
    BY SessionAssumption DEF Ending, Idle, OpType, Phase
  <1>2. op' \in [Operator -> OpType] /\ Others(o) /\ op'[o] = Ending(s, seen, rest)
    BY <1>1, RecordSteps DEF EndNext, Ending
  <1> QED
    BY <1>2 DEF Progress, Ending, Idle

\* Stop and Goto.
LEMMA StopSteps ==
  ASSUME TableTyped, NEW o \in Operator, Stop(o)
  PROVE  op' \in [Operator -> OpType] /\ Others(o) /\ Progress(o)' /\ op'[o] = Idle
  <1>1. op' \in [Operator -> OpType] /\ Others(o) /\ op'[o] = Idle
    BY IdleTyped, RecordSteps DEF Stop
  <1> QED
    BY <1>1 DEF Progress, Idle

LEMMA GotoSteps ==
  ASSUME TableTyped, NEW o \in Operator, op[o].ph # "idle", NEW ph \in Phase, ph # "idle",
         NEW todo \in SUBSET (Consumer \cup Pair),
         ph \in {"clear", "scopes", "endScopes"} =>
           todo # {} /\ \A p \in todo : Covers(op[o].s, p),
         Goto(o, ph, todo)
  PROVE  /\ op' \in [Operator -> OpType] /\ Others(o) /\ Progress(o)'
         /\ op'[o].ph = ph /\ op'[o].s = op[o].s /\ op'[o].rest = op[o].rest
         /\ op'[o].todo = todo
  <1> DEFINE rec == [op[o] EXCEPT !.ph = ph, !.todo = todo]
  <1>1. op[o] \in OpType
    BY DEF TableTyped
  <1>2. rec \in OpType /\ rec.ph = ph /\ rec.todo = todo /\ rec.s = op[o].s /\ rec.rest = op[o].rest
    BY <1>1 DEF OpType
  <1>3. op' = [op EXCEPT ![o] = rec]
    BY DEF Goto, TableTyped
  <1>4. op' \in [Operator -> OpType] /\ Others(o) /\ op'[o] = rec
    BY <1>2, <1>3, RecordSteps
  <1> QED
    BY <1>2, <1>4 DEF Progress, TableTyped, Covers

-----------------------------------------------------------------------------
(* What becomes of the operator's record in each step.                     *)

\* The operator o has come to phase ph with session s and the sessions rest
\* to end after it.
Comes(o, ph, s, rest) ==
  /\ op' \in [Operator -> OpType] /\ Others(o) /\ Progress(o)'
  /\ op'[o].ph = ph /\ op'[o].s = s /\ op'[o].rest = rest

LEMMA StartCheckSteps ==
  ASSUME TableTyped, NEW o \in Operator, NEW s \in Session, StartCheck(o, s), ~Clashes(s)
  PROVE  Comes(o, "checked", s, {}) /\ op'[o].until = now + Ttl[s]
  <1> DEFINE rec == [Idle EXCEPT !.ph = "checked", !.s = s, !.until = now + Ttl[s]]
  <1>a. now + Ttl[s] \in Nat
    BY SessionAssumption DEF TableTyped
  <1>1. /\ rec \in OpType /\ rec.ph = "checked" /\ rec.s = s /\ rec.rest = {}
        /\ rec.until = now + Ttl[s]
    BY <1>a DEF Idle, OpType, Phase
  <1>2. op' = [op EXCEPT ![o] = rec]
    BY DEF StartCheck
  <1>3. op' \in [Operator -> OpType] /\ Others(o) /\ op'[o] = rec
    BY <1>1, <1>2, RecordSteps
  <1> QED
    BY <1>1, <1>3 DEF Comes, Progress

LEMMA StartInsertSteps ==
  ASSUME TableTyped, NEW o \in Operator, StartInsert(o)
  PROVE  /\ Comes(o, "clear", op[o].s, op[o].rest) /\ op'[o].todo = Pairs(op[o].s)
         /\ op[o].s \in Session
  <1>1. op[o].ph = "checked" /\ op[o].s \in Session
    BY DEF StartInsert, InPhase, TableTyped, Progress
  <1>2. /\ Pairs(op[o].s) # {} /\ Pairs(op[o].s) \in SUBSET (Consumer \cup Pair)
        /\ \A p \in Pairs(op[o].s) : Covers(op[o].s, p)
    BY <1>1, PairsCovered DEF TableTyped
  <1> QED
    BY <1>1, <1>2, GotoSteps DEF StartInsert, Comes, Phase

LEMMA StartFailsSteps ==
  ASSUME TableTyped, NEW o \in Operator, StartFails(o)
  PROVE  Comes(o, "undo", op[o].s, op[o].rest) /\ op[o].s \in Session
  BY GotoSteps DEF StartFails, Comes, Phase, TableTyped, Progress

\* A loop over pairs, or over consumers, that ends in phase ph.
LEMMA LoopComes ==
  ASSUME TableTyped, NEW o \in Operator, op[o].ph # "idle", NEW ph \in Phase, ph # "idle",
         NEW todo \in SUBSET (Consumer \cup Pair),
         ph \in {"clear", "scopes", "endScopes"} =>
           todo # {} /\ \A p \in todo : Covers(op[o].s, p),
         Loop(o, ph, todo)
  PROVE  /\ op'[o].seen = op[o].seen
         /\ \/ /\ Comes(o, ph, op[o].s, op[o].rest) /\ op'[o].todo = todo
               /\ op[o].todo \ {First(op[o].todo)} = {}
            \/ /\ Comes(o, op[o].ph, op[o].s, op[o].rest)
               /\ op'[o].todo = op[o].todo \ {First(op[o].todo)}
  BY LoopSteps DEF Comes

LEMMA StartClearSteps ==
  ASSUME TableTyped, NEW o \in Operator, StartClear(o)
  PROVE  /\ op[o].s \in Session
         /\ \/ SignLimit[op[o].s] > 0 /\ Comes(o, "scopes", op[o].s, op[o].rest)
               /\ op'[o].todo = Pairs(op[o].s)
            \/ ~(SignLimit[op[o].s] > 0) /\ Comes(o, "activate", op[o].s, op[o].rest)
            \/ Comes(o, "clear", op[o].s, op[o].rest)
               /\ op'[o].todo = op[o].todo \ {First(op[o].todo)}
  <1>1. op[o].ph = "clear" /\ op[o].s \in Session
    BY DEF StartClear, InPhase, TableTyped, Progress
  <1>2. /\ Pairs(op[o].s) # {} /\ Pairs(op[o].s) \in SUBSET (Consumer \cup Pair)
        /\ \A p \in Pairs(op[o].s) : Covers(op[o].s, p)
    BY <1>1, PairsCovered DEF TableTyped
  <1>3. CASE SignLimit[op[o].s] > 0
    <2>1. Loop(o, "scopes", Pairs(op[o].s))
      BY <1>3 DEF StartClear
    <2> QED
      BY <1>1, <1>2, <1>3, <2>1, LoopComes DEF Phase
  <1>4. CASE ~(SignLimit[op[o].s] > 0)
    <2>1. Loop(o, "activate", {})
      BY <1>4 DEF StartClear
    <2> QED
      BY <1>1, <1>4, <2>1, LoopComes DEF Phase
  <1> QED
    BY <1>3, <1>4

LEMMA StartScopeSteps ==
  ASSUME TableTyped, NEW o \in Operator, StartScope(o)
  PROVE  /\ op[o].s \in Session
         /\ First(op[o].todo) \in op[o].todo /\ Covers(op[o].s, First(op[o].todo))
         /\ \/ Comes(o, "activate", op[o].s, op[o].rest)
            \/ Comes(o, "scopes", op[o].s, op[o].rest)
               /\ op'[o].todo = op[o].todo \ {First(op[o].todo)}
  <1>1. op[o].ph = "scopes" /\ op[o].s \in Session /\ op[o].todo # {}
        /\ \A p \in op[o].todo : Covers(op[o].s, p)
    BY DEF StartScope, InPhase, TableTyped, Progress
  <1>2. First(op[o].todo) \in op[o].todo
    BY <1>1, FirstIsIn
  <1>3. Loop(o, "activate", {})
    BY DEF StartScope
  <1> QED
    BY <1>1, <1>2, <1>3, LoopComes DEF Phase

LEMMA StartActivateSteps ==
  ASSUME TableTyped, NEW o \in Operator, StartActivate(o)
  PROVE  /\ Comes(o, "gates", op[o].s, op[o].rest) /\ op[o].s \in Session
         /\ op'[o].seen = ActiveIn(row')
  <1> DEFINE s    == op[o].s
             rows == [Refreshed EXCEPT ![s].st =
                        IF row[s].expires < now THEN "expired" ELSE "active"]
  <1>1. op[o].ph = "activate" /\ s \in Session
    BY DEF StartActivate, InPhase, TableTyped, Progress
  <1> DEFINE seen == ActiveIn(rows)
  <1>2. seen \in SUBSET Session /\ ConsumerScope[s] \in SUBSET (Consumer \cup Pair)
    BY <1>1, SessionAssumption DEF ActiveIn
  <1>3. /\ op' = [op EXCEPT ![o].ph = "gates", ![o].todo = ConsumerScope[s],
                            ![o].seen = seen]
        /\ row' = rows
    BY DEF StartActivate
  <1>4. seen = ActiveIn(row')
    BY <1>3
  <1> HIDE DEF rows, seen
  <1> DEFINE rec == [op[o] EXCEPT !.ph = "gates", !.todo = ConsumerScope[s], !.seen = seen]
  <1>5. op[o] \in OpType
    BY DEF TableTyped
  <1>6. /\ rec \in OpType /\ rec.ph = "gates" /\ rec.s = s /\ rec.rest = op[o].rest
        /\ rec.todo = ConsumerScope[s] /\ rec.seen = seen
    BY <1>2, <1>5 DEF OpType, Phase
  <1>7. op' \in [Operator -> OpType] /\ Others(o) /\ op'[o] = rec
    <2>1. op' = [op EXCEPT ![o] = rec]
      BY <1>3 DEF TableTyped
    <2> QED
      BY <1>6, <2>1, RecordSteps
  <1> QED
    BY <1>1, <1>4, <1>6, <1>7 DEF Comes, Progress

LEMMA UndoRowSteps ==
  ASSUME TableTyped, NEW o \in Operator, UndoRow(o)
  PROVE  /\ Comes(o, "undoGates", op[o].s, op[o].rest) /\ op[o].s \in Session
         /\ op'[o].seen = ActiveIn(row') /\ op'[o].todo = ConsumerScope[op[o].s]
  <1> DEFINE s    == op[o].s
             rows == [Refreshed EXCEPT ![s].st = "deleted"]
  <1>1. op[o].ph = "undo" /\ s \in Session
    BY DEF UndoRow, InPhase, TableTyped, Progress
  <1> DEFINE seen == ActiveIn(rows)
  <1>2. seen \in SUBSET Session /\ ConsumerScope[s] \in SUBSET (Consumer \cup Pair)
    BY <1>1, SessionAssumption DEF ActiveIn
  <1>3. /\ op' = [op EXCEPT ![o].ph = "undoGates", ![o].todo = ConsumerScope[s],
                            ![o].seen = seen]
        /\ row' = rows
    BY DEF UndoRow
  <1>4. seen = ActiveIn(row')
    BY <1>3
  <1> HIDE DEF rows, seen
  <1> DEFINE rec == [op[o] EXCEPT !.ph = "undoGates", !.todo = ConsumerScope[s], !.seen = seen]
  <1>5. op[o] \in OpType
    BY DEF TableTyped
  <1>6. /\ rec \in OpType /\ rec.ph = "undoGates" /\ rec.s = s /\ rec.rest = op[o].rest
        /\ rec.todo = ConsumerScope[s] /\ rec.seen = seen
    BY <1>2, <1>5 DEF OpType, Phase
  <1>7. op' \in [Operator -> OpType] /\ Others(o) /\ op'[o] = rec
    <2>1. op' = [op EXCEPT ![o] = rec]
      BY <1>3 DEF TableTyped
    <2> QED
      BY <1>6, <2>1, RecordSteps
  <1> QED
    BY <1>1, <1>4, <1>6, <1>7 DEF Comes, Progress

\* A command comes to its end.
Ends(o) == op' \in [Operator -> OpType] /\ Others(o) /\ Progress(o)' /\ op'[o] = Idle

LEMMA GateSteps ==
  ASSUME TableTyped, NEW o \in Operator, StartGate(o) \/ UndoGate(o)
  PROVE  \/ Ends(o)
         \/ /\ Comes(o, op[o].ph, op[o].s, op[o].rest)
            /\ op'[o].seen = op[o].seen
            /\ op[o].todo \ {First(op[o].todo)} \subseteq op'[o].todo
            /\ op'[o].todo \subseteq op[o].todo
  <1>1. CASE StartGate(o)
    <2>1. op[o].ph = "gates" /\ (Stop(o) \/ Loop(o, "gates", {}))
      BY <1>1 DEF StartGate, InPhase
    <2> QED
      BY <2>1, StopSteps, LoopComes DEF Ends, Phase
  <1>2. CASE UndoGate(o)
    <2>1. op[o].ph = "undoGates" /\ (Stop(o) \/ Loop(o, "undoGates", {}))
      BY <1>2 DEF UndoGate, InPhase
    <2> QED
      BY <2>1, StopSteps, LoopComes DEF Ends, Phase
  <1> QED
    BY <1>1, <1>2

LEMMA EndStartSteps ==
  ASSUME TableTyped, NEW o \in Operator, EndStart(o)
  PROVE  \E targets \in SUBSET Session :
           /\ targets \subseteq ActiveIn(Refreshed)
           /\ First(targets) \in targets
           /\ Comes(o, "endGates", First(targets), targets \ {First(targets)})
           /\ op'[o].seen = ActiveIn(Refreshed) \ {First(targets)}
           /\ op'[o].todo = ConsumerScope[First(targets)]
           /\ dismantled' = dismantled \cup {First(targets)}
  <1> DEFINE active == ActiveIn(Refreshed)
  <1>1. PICK targets \in {{s} : s \in active} \cup ({active} \ {{}}) :
          EndNext(o, First(targets), active, targets)
    BY DEF EndStart
  <1>2. targets \subseteq active /\ targets # {} /\ active \subseteq Session
    BY <1>1 DEF ActiveIn
  <1>3. First(targets) \in targets
    BY <1>2, FirstIsIn
  <1>4. /\ Comes(o, "endGates", First(targets), targets \ {First(targets)})
        /\ op'[o].seen = active \ {First(targets)}
        /\ op'[o].todo = ConsumerScope[First(targets)]
    BY <1>1, <1>2, <1>3, EndNextSteps DEF Comes
  <1> QED
    BY <1>1, <1>2, <1>3, <1>4 DEF EndNext

LEMMA EndGateSteps ==
  ASSUME TableTyped, NEW o \in Operator, EndGate(o)
  PROVE  /\ op[o].s \in Session
         /\ op'[o].seen = op[o].seen
         /\ \/ /\ Comes(o, "endScopes", op[o].s, op[o].rest) /\ op'[o].todo = Pairs(op[o].s)
               /\ op[o].todo \ {First(op[o].todo)} = {}
            \/ /\ Comes(o, "close", op[o].s, op[o].rest)
               /\ op[o].todo \ {First(op[o].todo)} = {}
            \/ /\ Comes(o, "endGates", op[o].s, op[o].rest)
               /\ op'[o].todo = op[o].todo \ {First(op[o].todo)}
  <1>1. op[o].ph = "endGates" /\ op[o].s \in Session
    BY DEF EndGate, InPhase, TableTyped, Progress
  <1>2. /\ Pairs(op[o].s) # {} /\ Pairs(op[o].s) \in SUBSET (Consumer \cup Pair)
        /\ \A p \in Pairs(op[o].s) : Covers(op[o].s, p)
    BY <1>1, PairsCovered DEF TableTyped
  <1>3. Loop(o, "endScopes", Pairs(op[o].s)) \/ Loop(o, "close", {})
    BY DEF EndGate
  <1> QED
    BY <1>1, <1>2, <1>3, LoopComes DEF Phase

LEMMA EndScopeSteps ==
  ASSUME TableTyped, NEW o \in Operator, EndScope(o)
  PROVE  /\ op[o].s \in Session /\ First(op[o].todo) \in op[o].todo
         /\ op'[o].seen = op[o].seen
         /\ \/ Comes(o, "close", op[o].s, op[o].rest)
            \/ Comes(o, "endScopes", op[o].s, op[o].rest)
               /\ op'[o].todo = op[o].todo \ {First(op[o].todo)}
  <1>1. op[o].ph = "endScopes" /\ op[o].s \in Session /\ op[o].todo # {}
    BY DEF EndScope, InPhase, TableTyped, Progress
  <1>2. Loop(o, "close", {})
    BY DEF EndScope
  <1> QED
    BY <1>1, <1>2, FirstIsIn, LoopComes DEF Phase

LEMMA EndCloseSteps ==
  ASSUME TableTyped, NEW o \in Operator, EndClose(o)
  PROVE  /\ op[o].s \in Session
         /\ \/ Ends(o) /\ dismantled' = dismantled
            \/ /\ First(op[o].rest) \in op[o].rest
               /\ Comes(o, "endGates", First(op[o].rest), op[o].rest \ {First(op[o].rest)})
               /\ op'[o].seen = op[o].seen \ {First(op[o].rest)}
               /\ op'[o].todo = ConsumerScope[First(op[o].rest)]
               /\ dismantled' = dismantled \cup {First(op[o].rest)}
  <1>1. /\ op[o].ph = "close" /\ op[o].s \in Session
        /\ op[o].rest \in SUBSET Session /\ op[o].seen \in SUBSET Session
    <2>1. op[o] \in OpType /\ op[o].ph = "close"
      BY DEF EndClose, InPhase, TableTyped
    <2> QED
      BY <2>1 DEF TableTyped, Progress, OpType
  <1>2. CASE op[o].rest = {}
    <2>1. Stop(o) /\ dismantled' = dismantled
      BY <1>2 DEF EndClose
    <2> QED
      BY <1>1, <2>1, StopSteps DEF Ends
  <1>3. CASE op[o].rest # {}
    <2>1. EndNext(o, First(op[o].rest), op[o].seen, op[o].rest)
      BY <1>3 DEF EndClose
    <2>2. First(op[o].rest) \in op[o].rest
      BY <1>3, FirstIsIn
    <2>3. dismantled' = dismantled \cup {First(op[o].rest)}
      BY <2>1 DEF EndNext
    <2> QED
      BY <1>1, <2>1, <2>2, <2>3, EndNextSteps DEF Comes
  <1> QED
    BY <1>2, <1>3

LEMMA QuitSteps ==
  ASSUME TableTyped, NEW o \in Operator, Quit(o)
  PROVE  Ends(o)
  BY StopSteps DEF Quit, Ends

-----------------------------------------------------------------------------
(* Types.                                                                  *)

LEMMA TableInit == Init => TableTyped
  <1> SUFFICES ASSUME Init PROVE TableTyped
    OBVIOUS
  <1>1. /\ now \in Nat
        /\ keyState \in [Key -> {"new", "live", "revoked", "again"}]
        /\ row \in [Session -> RowType]
        /\ op \in [Operator -> OpType] /\ \A o \in Operator : op[o] = Idle
        /\ metered \in [Session -> SUBSET Pair]
    BY IdleTyped DEF Init, SessionInit, RowType, Status
  <1>2. Live # {}
    <2>1. PICK k \in FirstKeys : k \in Key
      BY SessionAssumption
    <2> QED
      BY <2>1 DEF Init, SessionInit, Live
  <1>3. \A o \in Operator : Progress(o)
    BY <1>1 DEF Progress, Idle
  <1> QED
    BY <1>1, <1>2, <1>3 DEF TableTyped

\* A change of one session's status keeps the table typed.
LEMMA StatusTyped ==
  ASSUME NEW f \in [Session -> RowType], NEW s, NEW st \in Status
  PROVE  [f EXCEPT ![s].st = st] \in [Session -> RowType]
  BY DEF RowType

LEMMA CommandTyped ==
  ASSUME TableTyped, NEW o \in Operator, Command(o)
  PROVE  TableTyped'
  <1>r. Refreshed \in [Session -> RowType] /\ row \in [Session -> RowType]
    BY RefreshedTyped DEF TableTyped
  <1>m. metered \in [Session -> SUBSET Pair]
    BY DEF TableTyped
  <1>o. op \in [Operator -> OpType] /\ Progress(o)
    BY DEF TableTyped
  <1>1. ASSUME NEW s \in Session, StartCheck(o, s) PROVE TableTyped'
    <2>1. op' \in [Operator -> OpType] /\ Others(o) /\ Progress(o)'
      <3>1. CASE Clashes(s)
        BY <1>1, <3>1, <1>o DEF StartCheck, Others, Progress
      <3>2. CASE ~Clashes(s)
        BY <1>1, <3>2, StartCheckSteps DEF Comes
      <3> QED
        BY <3>1, <3>2
    <2> QED
      BY <1>1, <1>r, <1>m, <2>1, Assemble DEF StartCheck, historyVars
  <1>2. CASE StartInsert(o)
    <2>1. op[o].until \in Nat
      BY <1>o DEF OpType
    <2>2. row' \in [Session -> RowType]
      BY <1>2, <1>r, <2>1 DEF StartInsert, RowType, Status
    <2> QED
      BY <1>2, <1>m, <2>2, StartInsertSteps, Assemble DEF StartInsert, historyVars, Comes
  <1>3. CASE StartFails(o)
    BY <1>3, <1>r, <1>m, StartFailsSteps, Assemble DEF StartFails, Comes
  <1>4. CASE StartClear(o)
    BY <1>4, <1>r, <1>m, StartClearSteps, Assemble DEF StartClear, historyVars, Comes
  <1>5. CASE StartScope(o)
    <2>1. metered' \in [Session -> SUBSET Pair]
      BY <1>5, <1>m, StartScopeSteps DEF StartScope, Covers
    <2> QED
      BY <1>5, <1>r, <2>1, StartScopeSteps, Assemble DEF StartScope, Comes
  <1>6. CASE StartActivate(o)
    <2> DEFINE st == IF row[op[o].s].expires < now THEN "expired" ELSE "active"
    <2>1. row' = [Refreshed EXCEPT ![op[o].s].st = st] /\ st \in Status
      BY <1>6 DEF StartActivate, Status
    <2> HIDE DEF st
    <2>2. row' \in [Session -> RowType]
      BY <1>r, <2>1, StatusTyped
    <2> QED
      BY <1>6, <1>m, <2>2, StartActivateSteps, Assemble DEF StartActivate, historyVars, Comes
  <1>7. CASE StartGate(o)
    BY <1>7, <1>r, <1>m, GateSteps, Assemble DEF StartGate, historyVars, Comes, Ends
  <1>8. CASE UndoScope(o)
    BY <1>8, <1>r, <1>m, <1>o, Assemble DEF UndoScope, historyVars, Others, Progress
  <1>9. CASE UndoRow(o)
    <2>1. row' \in [Session -> RowType]
      BY <1>9, <1>r DEF UndoRow, RowType, Status
    <2> QED
      BY <1>9, <1>m, <2>1, UndoRowSteps, Assemble DEF UndoRow, Comes
  <1>10. CASE UndoGate(o)
    BY <1>10, <1>r, <1>m, GateSteps, Assemble DEF UndoGate, Comes, Ends
  <1>11. CASE EndStart(o)
    BY <1>11, <1>r, <1>m, EndStartSteps, Assemble DEF EndStart, Comes
  <1>12. CASE EndGate(o)
    BY <1>12, <1>r, <1>m, EndGateSteps, Assemble DEF EndGate, historyVars, Comes
  <1>13. CASE EndScope(o)
    BY <1>13, <1>r, <1>m, EndScopeSteps, Assemble DEF EndScope, historyVars, Comes
  <1>14. CASE EndClose(o)
    <2> DEFINE st == IF row[op[o].s].st = "active" THEN "closed" ELSE row[op[o].s].st
    <2>1. row' = [row EXCEPT ![op[o].s].st = st]
      BY <1>14 DEF EndClose
    <2>2. op[o].s \in Session
      BY <1>14, <1>o DEF EndClose, InPhase, Progress
    <2>3. st \in Status
      BY <1>r, <2>2 DEF RowType, Status
    <2> HIDE DEF st
    <2>4. row' \in [Session -> RowType]
      BY <1>r, <2>1, <2>3, StatusTyped
    <2> QED
      BY <1>14, <1>m, <2>4, EndCloseSteps, Assemble DEF EndClose, Comes, Ends
  <1>15. CASE Quit(o)
    BY <1>15, <1>r, <1>m, QuitSteps, Assemble DEF Quit, historyVars, Ends
  <1> QED
    BY <1>1, <1>2, <1>3, <1>4, <1>5, <1>6, <1>7, <1>8, <1>9, <1>10, <1>11, <1>12,
       <1>13, <1>14, <1>15 DEF Command

\* A step that leaves the commands, the keys and the record of scopes alone.
LEMMA RowTyped ==
  ASSUME TableTyped, row' \in [Session -> RowType], now' \in Nat,
         keyState' = keyState, op' = op, metered' = metered
  PROVE  TableTyped'
  BY DEF TableTyped, Live, Progress

\* A revoked key stays so until its id is taken again, and some key is live.
LEMMA KeysChange ==
  ASSUME TableTyped, ChangeKeys
  PROVE  /\ keyState' \in [Key -> {"new", "live", "revoked", "again"}]
         /\ Live' # {}
         /\ \A k \in Key :
              /\ keyState[k] = "again" => keyState'[k] = "again"
              /\ keyState[k] = "revoked" => keyState'[k] \in {"revoked", "again"}
              /\ keyState[k] # "new" => keyState'[k] # "new"
  <1>1. PICK k \in Key :
          \/ keyState[k] = "new" /\ keyState' = [keyState EXCEPT ![k] = "live"]
          \/ keyState[k] = "revoked" /\ keyState' = [keyState EXCEPT ![k] = "again"]
          \/ /\ keyState[k] = "live" /\ Live # {k}
             /\ keyState' = [keyState EXCEPT ![k] = "revoked"]
    BY DEF ChangeKeys
  <1>2. keyState \in [Key -> {"new", "live", "revoked", "again"}]
    BY DEF TableTyped
  <1>3. Live' # {}
    <2>1. PICK l \in Live : l # k \/ keyState[k] # "live"
      BY <1>1, <1>2 DEF TableTyped, Live
    <2>2. l \in Live'
      BY <1>1, <1>2, <2>1 DEF Live
    <2> QED
      BY <2>2
  <1> QED
    BY <1>1, <1>2, <1>3

LEMMA SessionTyped ==
  ASSUME TableTyped, SessionNext
  PROVE  TableTyped'
  <1>1. ASSUME NEW o \in Operator, Command(o) PROVE TableTyped'
    BY <1>1, CommandTyped
  <1>2. CASE Sweep
    BY <1>2, RefreshedTyped, RowTyped DEF Sweep, historyVars, TableTyped
  <1>3. CASE ChangeKeys
    <2>1. \A o \in Operator : Progress(o)'
      BY <1>3 DEF ChangeKeys, TableTyped, Progress
    <2> QED
      BY <1>3, <2>1, KeysChange DEF ChangeKeys, historyVars, TableTyped
  <1>4. CASE ScopeExpires
    BY <1>4, RowTyped DEF ScopeExpires, historyVars, TableTyped
  <1>5. CASE Tick
    BY <1>5, RowTyped DEF Tick, historyVars, TableTyped
  <1> QED
    BY <1>1, <1>2, <1>3, <1>4, <1>5 DEF SessionNext

-----------------------------------------------------------------------------
(* Reports of signatures.                                                  *)

\* A call on its way is about a pair, and what it has been told of the count
\* and of the limit holds for good, since the vault only counts up.
CallTrue(r) ==
  /\ call[r].st \in {"sent", "gated", "vault", "signed"} => call[r].pair \in Pair
  /\ call[r].st = "signed" =>
       /\ call[r].s \in Session
       /\ call[r].n <= quota[call[r].s][call[r].pair]
       /\ call[r].limit => quota[call[r].s][call[r].pair] >= SignLimit[call[r].s]

CallInv == CallsTyped /\ \A r \in Request : CallTrue(r)

LEMMA CallInit == Init => CallInv
  BY DEF Init, CallInv, CallsTyped, CallTrue, CallType, Stage, NewCall

LEMMA FinishCalls ==
  ASSUME CallInv, NEW r \in Request, Finish(r), quota' = quota
  PROVE  CallInv'
  <1>1. [NewCall EXCEPT !.st = "done"] \in CallType
    BY DEF NewCall, CallType, Stage
  <1> QED
    BY <1>1 DEF Finish, CallInv, CallsTyped, CallTrue, NewCall

\* The call after the vault has answered it.
Signed(old, n, limit) == [old EXCEPT !.st = "signed", !.n = n, !.limit = limit]

LEMMA ServeCalls ==
  ASSUME TableTyped, CallInv, NEW r \in Request, Serve(r)
  PROVE  CallInv'
  <1>c. call[r] \in CallType /\ CallTrue(r)
    BY DEF CallInv, CallsTyped
  <1>1. ASSUME NEW c \in Consumer, NEW k \in Key, AskProxy(r, c, k) \/ Ask(r, c, k)
        PROVE  CallInv'
    <2>1. <<c, k>> \in Pair
      BY DEF Pair
    <2> DEFINE new == [call[r] EXCEPT !.st = "sent", !.pair = <<c, k>>]
    <2>2. call' = [call EXCEPT ![r] = new] /\ quota' = quota
      BY <1>1 DEF AskProxy, Ask, Send, CallInv, CallsTyped
    <2>3. new \in CallType /\ new.st = "sent" /\ new.pair \in Pair
      BY <1>c, <2>1 DEF CallType, Stage
    <2> QED
      BY <2>2, <2>3 DEF CallInv, CallsTyped, CallTrue
  <1>2. CASE ReadGate(r)
    <2>1. Finish(r) \/ Become(r, "gated")
      BY <1>2 DEF ReadGate
    <2>2. CASE Become(r, "gated")
      <3> DEFINE new == [call[r] EXCEPT !.st = "gated"]
      <3>1. call' = [call EXCEPT ![r] = new] /\ quota' = quota /\ call[r].st = "sent"
        BY <1>2, <2>2 DEF ReadGate, Become, At, CallInv, CallsTyped
      <3>2. new \in CallType /\ new.st = "gated" /\ new.pair = call[r].pair
        BY <1>c DEF CallType, Stage
      <3> QED
        BY <1>c, <3>1, <3>2 DEF CallInv, CallsTyped, CallTrue
    <2> QED
      BY <1>2, <2>1, <2>2, FinishCalls DEF ReadGate
  <1>3. CASE ReadScope(r)
    <2>1. PICK s \in {NoSession} \cup {t \in Session : call[r].pair \in metered[t]} :
            Finish(r) \/ call' = [call EXCEPT ![r].st = "vault", ![r].s = s]
      BY <1>3 DEF ReadScope
    <2>2. CASE call' = [call EXCEPT ![r].st = "vault", ![r].s = s]
      <3> DEFINE new == [call[r] EXCEPT !.st = "vault", !.s = s]
      <3>1. call' = [call EXCEPT ![r] = new] /\ quota' = quota /\ call[r].st = "gated"
        BY <1>3, <2>2 DEF ReadScope, At, CallInv, CallsTyped
      <3>2. new \in CallType /\ new.st = "vault" /\ new.pair = call[r].pair
        BY <1>c DEF CallType, Stage
      <3> QED
        BY <1>c, <3>1, <3>2 DEF CallInv, CallsTyped, CallTrue
    <2> QED
      BY <1>3, <2>1, <2>2, FinishCalls DEF ReadScope
  <1>4. CASE VaultSign(r)
    <2> DEFINE s == call[r].s
               p == call[r].pair
               n == quota[s][p] + 1
    <2>1. s \in Session /\ p \in Pair /\ quota[s][p] \in Nat /\ SignLimit[s] \in Nat
      BY <1>4, <1>c, SessionAssumption DEF VaultSign, At, CallTrue, CallType, CallInv, CallsTyped
    <2>n. n \in Nat /\ n - 1 \in Nat /\ n - 1 = quota[s][p]
      BY <2>1
    <2>2. CASE QuotaLeft(r)
      <3>0. PICK limit \in BOOLEAN : limit = (n >= SignLimit[s])
        <4>1. (n >= SignLimit[s]) \in BOOLEAN
          BY <2>1, <2>n
        <4> QED
          BY <4>1, Zenon
      <3> DEFINE new == Signed(call[r], n, limit)
      <3>1. call' = [call EXCEPT ![r] = new] /\ quota' = [quota EXCEPT ![s][p] = n]
        BY <1>4, <2>2, <3>0 DEF VaultSign, CallInv, CallsTyped, Signed
      <3>2. /\ new \in CallType /\ new.st = "signed" /\ new.pair = p /\ new.s = s
            /\ new.n = n /\ new.limit = limit
        BY <1>c, <2>n DEF CallType, Stage, Signed
      <3>3. /\ quota' \in [Session -> [Pair -> Nat]] /\ quota'[s][p] = n
            /\ \A t \in Session, q \in Pair : quota'[t][q] >= quota[t][q]
        BY <2>1, <3>1 DEF CallInv, CallsTyped
      <3>4. CallTrue(r)'
        <4>1. call'[r] = new
          BY <3>1 DEF CallInv, CallsTyped
        <4>2. quota'[call'[r].s][call'[r].pair] = n
          BY <3>2, <3>3, <4>1
        <4>3. limit => n >= SignLimit[s]
          BY <3>0, Zenon
        <4>4. call'[r].limit => n >= SignLimit[s]
          BY <3>2, <4>1, <4>3, Zenon
        <4>5. call'[r].n <= n /\ call'[r].s = s /\ call'[r].pair = p
          BY <2>n, <3>2, <4>1
        <4> QED
          BY <2>1, <4>2, <4>4, <4>5 DEF CallTrue
      <3>5. ASSUME NEW o \in Request, o # r PROVE CallTrue(o)'
        <4>1. call'[o] = call[o] /\ CallTrue(o)
          BY <3>1, <3>5 DEF CallInv, CallsTyped
        <4>2. CASE call[o].st = "signed"
          <5>1. /\ call[o].s \in Session /\ call[o].pair \in Pair /\ call[o].n \in Nat
                /\ quota[call[o].s][call[o].pair] \in Nat
                /\ quota'[call[o].s][call[o].pair] \in Nat
                /\ SignLimit[call[o].s] \in Nat
            BY <4>1, <4>2, <3>3, SessionAssumption DEF CallTrue, CallInv, CallsTyped, CallType
          <5> QED
            BY <4>1, <4>2, <3>3, <5>1 DEF CallTrue
        <4> QED
          BY <4>1, <4>2 DEF CallTrue
      <3> QED
        BY <3>1, <3>2, <3>3, <3>4, <3>5 DEF CallInv, CallsTyped
    <2>3. CASE ~QuotaLeft(r)
      <3>0. PICK limit \in BOOLEAN, m \in Nat : limit = TRUE /\ m = n - 1
        BY <2>n
      <3> DEFINE new == Signed(call[r], m, limit)
      <3>1. call' = [call EXCEPT ![r] = new] /\ quota' = quota
        BY <1>4, <2>3, <3>0 DEF VaultSign, CallInv, CallsTyped, Signed
      <3>2. new \in CallType /\ new.st = "signed" /\ new.pair = p /\ new.s = s /\ new.n = m
        BY <1>c, <3>0 DEF CallType, Stage, Signed
      <3>3. quota[s][p] >= SignLimit[s] /\ m <= quota[s][p]
        BY <2>1, <2>3, <2>n, <3>0 DEF QuotaLeft
      <3> QED
        BY <2>1, <3>1, <3>2, <3>3 DEF CallInv, CallsTyped, CallTrue
    <2> QED
      BY <2>2, <2>3
  <1>5. CASE VaultUnmetered(r) \/ Lose(r) \/ Reflect(r)
    BY <1>5, FinishCalls DEF VaultUnmetered, Lose, Reflect
  <1> QED
    BY <1>1, <1>2, <1>3, <1>4, <1>5 DEF Serve

LEMMA CallStep == TableTyped /\ CallInv /\ [Next]_vars => CallInv'
  <1> SUFFICES ASSUME TableTyped, CallInv, [Next]_vars PROVE CallInv'
    OBVIOUS
  <1>1. CASE SessionNext /\ UNCHANGED signVars
    BY <1>1 DEF signVars, CallInv, CallsTyped, CallTrue
  <1>2. CASE UNCHANGED vars
    BY <1>2 DEF vars, signVars, CallInv, CallsTyped, CallTrue
  <1> QED
    BY <1>1, <1>2, ServeCalls DEF Next

\* What a report leaves in the row.
LEMMA ReflectedRow ==
  ASSUME TableTyped, CallInv, NEW r \in Request, Reflect(r)
  PROVE  /\ row' \in [Session -> RowType]
         /\ \A t \in Session : t # call[r].s => row'[t] = Refreshed[t]
         /\ LET s == call[r].s IN
            /\ s \in Session
            /\ row'[s].expires = row[s].expires
            /\ \/ row'[s] = Refreshed[s]
               \/ /\ Refreshed[s].st = "active"
                  /\ row'[s].signs \in {row[s].signs, call[r].n}
                  /\ row'[s].st \in {"active", "closed"}
                  /\ row'[s].st = "closed" => call[r].limit
  <1> DEFINE s == call[r].s
  <1>1. s \in Session /\ call[r].n \in Nat /\ row' = Reflected(s, call[r].n, call[r].limit)
    BY DEF Reflect, At, CallInv, CallTrue, CallsTyped, CallType
  <1>2. Refreshed \in [Session -> RowType] /\ Refreshed[s].expires = row[s].expires
        /\ Refreshed[s].signs = row[s].signs
    BY <1>1, RefreshedTyped
  <1>3. CASE Refreshed[s].st # "active"
    BY <1>1, <1>2, <1>3 DEF Reflected
  <1>4. CASE Refreshed[s].st = "active"
    <2> DEFINE new == [Refreshed[s] EXCEPT !.signs = Max({@, call[r].n}),
                         !.st = IF call[r].limit THEN "closed" ELSE @]
    <2>1. row' = [Refreshed EXCEPT ![s] = new]
      BY <1>1, <1>4 DEF Reflected
    <2>2. Refreshed[s].signs \in Nat /\ Refreshed[s] \in RowType
      BY <1>1, <1>2 DEF RowType
    <2>3. Max({Refreshed[s].signs, call[r].n}) \in {row[s].signs, call[r].n}
      BY <1>1, <1>2, <2>2, MaxOfTwo
    <2>4. /\ new \in RowType /\ new.expires = row[s].expires
          /\ new.signs \in {row[s].signs, call[r].n}
          /\ new.st = IF call[r].limit THEN "closed" ELSE "active"
      BY <1>1, <1>2, <1>4, <2>2, <2>3 DEF RowType, Status
    <2> QED
      BY <1>1, <1>2, <1>4, <2>1, <2>4
  <1> QED
    BY <1>3, <1>4

\* Of what serves a request only the report touches the table.
LEMMA ServeStays ==
  ASSUME NEW r \in Request, Serve(r), ~Reflect(r)
  PROVE  UNCHANGED sessionVars
  BY DEF Serve, AskProxy, Ask, Send, ReadGate, ReadScope, VaultSign, VaultUnmetered, Lose

LEMMA TableStep == TableTyped /\ CallInv /\ [Next]_vars => TableTyped'
  <1> SUFFICES ASSUME TableTyped, CallInv, [Next]_vars PROVE TableTyped'
    OBVIOUS
  <1>1. CASE UNCHANGED sessionVars
    BY <1>1 DEF sessionVars, historyVars, TableTyped, Live, Progress
  <1>2. ASSUME NEW r \in Request, Serve(r) PROVE TableTyped'
    <2>1. CASE Reflect(r)
      BY <2>1, ReflectedRow, RowTyped DEF Reflect, historyVars, TableTyped
    <2>2. CASE ~Reflect(r)
      BY <1>1, <1>2, <2>2, ServeStays
    <2> QED
      BY <2>1, <2>2
  <1> QED
    BY <1>1, <1>2, SessionTyped DEF Next, vars

LEMMA TypesKept == Spec => [](TableTyped /\ CallInv)
  BY TableInit, CallInit, TableStep, CallStep, PTL DEF Spec

\* What the row says of one session is true.
RowTrue(s) ==
  /\ row[s].signs > 0 => \E p \in Pair : row[s].signs <= quota[s][p]
  /\ row[s].st = "closed" /\ s \notin ended =>
       \E p \in Pair : quota[s][p] >= SignLimit[s]

\* The row says no more than before, and the vault has counted no less.
LEMMA RowStaysTrue ==
  ASSUME NEW s \in Session, RowTrue(s), row[s].signs \in Nat,
         row'[s].signs \in {0, row[s].signs},
         row'[s].st = "closed" => row[s].st = "closed" \/ s \in ended',
         ended \subseteq ended',
         \A p \in Pair : quota[s][p] \in Nat /\ quota'[s][p] \in Nat
                           /\ quota[s][p] <= quota'[s][p]
  PROVE  RowTrue(s)'
  <1>1. SignLimit[s] \in Nat
    BY SessionAssumption
  <1>2. row'[s].signs > 0 => \E p \in Pair : row'[s].signs <= quota'[s][p]
    BY DEF RowTrue
  <1>3. row'[s].st = "closed" /\ s \notin ended' =>
          \E p \in Pair : quota'[s][p] >= SignLimit[s]
    BY <1>1 DEF RowTrue
  <1> QED
    BY <1>2, <1>3 DEF RowTrue

\* No step of a command or of its surroundings says more of a session.
LEMMA SessionSaysNoMore ==
  ASSUME TableTyped, SessionNext, NEW s \in Session
  PROVE  /\ row'[s].signs \in {0, row[s].signs}
         /\ row'[s].st = "closed" => row[s].st = "closed" \/ s \in ended'
         /\ ended \subseteq ended'
  <1>r. /\ Refreshed[s].signs = row[s].signs
        /\ Refreshed[s].st = "closed" => row[s].st = "closed"
        /\ Refreshed \in [Session -> RowType] /\ row \in [Session -> RowType]
    BY RefreshedTyped DEF TableTyped
  <1>f. Refreshed[s] \in RowType /\ row[s] \in RowType
    BY <1>r
  <1>1. ASSUME NEW o \in Operator, Command(o)
        PROVE  /\ row'[s].signs \in {0, row[s].signs}
               /\ row'[s].st = "closed" => row[s].st = "closed" \/ s \in ended'
               /\ ended \subseteq ended'
    <2>1. CASE \E t \in Session : StartCheck(o, t)
      BY <1>r, <2>1 DEF StartCheck, historyVars
    <2>2. CASE StartInsert(o)
      BY <1>r, <2>2 DEF StartInsert, historyVars
    <2>3. CASE StartActivate(o)
      BY <1>r, <1>f, <2>3 DEF StartActivate, historyVars, RowType
    <2>4. CASE UndoRow(o)
      BY <1>r, <1>f, <2>4 DEF UndoRow, RowType
    <2>5. CASE EndStart(o)
      BY <1>r, <2>5 DEF EndStart
    <2>6. CASE EndClose(o)
      BY <1>r, <1>f, <2>6 DEF EndClose, RowType
    <2>7. CASE StartClear(o) \/ StartGate(o) \/ EndGate(o) \/ EndScope(o) \/ Quit(o)
               \/ UndoScope(o)
      BY <2>7 DEF StartClear, StartGate, EndGate, EndScope, Quit, UndoScope, historyVars
    <2>8. CASE StartScope(o) \/ StartFails(o) \/ UndoGate(o)
      BY <2>8 DEF StartScope, StartFails, UndoGate
    <2> QED
      BY <1>1, <2>1, <2>2, <2>3, <2>4, <2>5, <2>6, <2>7, <2>8 DEF Command
  <1>2. CASE Sweep
    BY <1>r, <1>2 DEF Sweep, historyVars
  <1>3. CASE ChangeKeys \/ ScopeExpires \/ Tick
    BY <1>3 DEF ChangeKeys, ScopeExpires, Tick, historyVars
  <1> QED
    BY <1>1, <1>2, <1>3 DEF SessionNext

LEMMA QuotaGrows ==
  ASSUME CallInv, [Next]_vars, NEW s \in Session, NEW p \in Pair
  PROVE  quota[s][p] \in Nat /\ quota[s][p] <= quota'[s][p]
  <1>1. quota \in [Session -> [Pair -> Nat]]
    BY DEF CallInv, CallsTyped
  <1>2. CASE quota' = quota
    BY <1>1, <1>2
  <1>3. ASSUME NEW r \in Request, VaultSign(r)
        PROVE  quota[s][p] \in Nat /\ quota[s][p] <= quota'[s][p]
    <2>1. quota' = quota \/ quota' = [quota EXCEPT ![call[r].s][call[r].pair] =
            quota[call[r].s][call[r].pair] + 1]
      BY <1>3 DEF VaultSign
    <2> QED
      BY <1>1, <2>1
  <1>4. ASSUME NEW r \in Request, Serve(r), ~VaultSign(r)
        PROVE  quota' = quota
    BY <1>4 DEF Serve, AskProxy, Ask, Send, ReadGate, ReadScope, VaultUnmetered, Reflect, Lose
  <1> QED
    BY <1>2, <1>3, <1>4 DEF Next, vars, signVars

LEMMA TruthStep ==
  ASSUME TableTyped, CallInv, ReflectionTruthful, [Next]_vars, CallInv'
  PROVE  ReflectionTruthful'
  <1> SUFFICES ASSUME NEW s \in Session PROVE RowTrue(s)'
    BY DEF ReflectionTruthful, RowTrue
  <1>1. RowTrue(s) /\ row[s].signs \in Nat
    BY DEF ReflectionTruthful, RowTrue, TableTyped, RowType
  <1>2. \A p \in Pair : quota[s][p] \in Nat /\ quota'[s][p] \in Nat
                          /\ quota[s][p] <= quota'[s][p]
    BY QuotaGrows DEF CallInv, CallsTyped
  <1>3. CASE SessionNext
    BY <1>1, <1>2, <1>3, SessionSaysNoMore, RowStaysTrue
  <1>4. CASE row' = row /\ ended' = ended
    BY <1>1, <1>2, <1>4, RowStaysTrue
  <1>5. ASSUME NEW r \in Request, Reflect(r) PROVE RowTrue(s)'
    <2>1. /\ ended' = ended
          /\ Refreshed[s].signs = row[s].signs
          /\ Refreshed[s].st = "closed" => row[s].st = "closed"
      BY <1>5, RefreshedTyped DEF Reflect, historyVars
    <2>2. CASE row'[s] = Refreshed[s]
      BY <1>1, <1>2, <2>1, <2>2, RowStaysTrue
    <2>3. CASE row'[s] # Refreshed[s]
      <3> DEFINE p == call[r].pair
      <3>1. /\ s = call[r].s
            /\ row'[s].signs \in {row[s].signs, call[r].n}
            /\ row'[s].st = "closed" => call[r].limit
        BY <1>5, <2>3, ReflectedRow
      <3>2. /\ p \in Pair /\ call[r].n \in Nat /\ call[r].n <= quota[s][p]
            /\ call[r].limit => quota[s][p] >= SignLimit[s]
        BY <1>5, <3>1 DEF Reflect, At, CallInv, CallTrue, CallsTyped, CallType
      <3>3. SignLimit[s] \in Nat
        BY SessionAssumption
      <3>4. row'[s].signs > 0 => \E q \in Pair : row'[s].signs <= quota'[s][q]
        BY <1>1, <1>2, <3>1, <3>2 DEF RowTrue
      <3>5. row'[s].st = "closed" => \E q \in Pair : quota'[s][q] >= SignLimit[s]
        BY <1>2, <3>1, <3>2, <3>3
      <3> QED
        BY <3>4, <3>5 DEF RowTrue
    <2> QED
      BY <2>2, <2>3
  <1>6. ASSUME NEW r \in Request, Serve(r), ~Reflect(r) PROVE row' = row /\ ended' = ended
    BY <1>6 DEF Serve, AskProxy, Ask, Send, ReadGate, ReadScope, VaultSign, VaultUnmetered,
                Lose, sessionVars, historyVars
  <1> QED
    BY <1>3, <1>4, <1>5, <1>6 DEF Next, vars, sessionVars, historyVars

\* A count of signatures that stands in the row was reached by the vault, and
\* a session that nobody ended is closed only when its limit was
\* (ReflectionTruthful), for any number of operators and reports, which come
\* in any order or not at all.
THEOREM ReportsAreTrue == Spec => []ReflectionTruthful
  <1>1. Init => ReflectionTruthful
    BY DEF Init, SessionInit, ReflectionTruthful
  <1>2. TableTyped /\ CallInv /\ ReflectionTruthful /\ [Next]_vars => ReflectionTruthful'
    BY TruthStep, CallStep
  <1> QED
    BY <1>1, <1>2, TypesKept, PTL DEF Spec

-----------------------------------------------------------------------------
(* One operator at a time.  The sessions that are active, or that the      *)
(* command at work is about, are apart: whatever key two of them may share *)
(* was revoked.                                                            *)

OneOperator == \A o, p \in Operator : o = p

Active(s) == row[s].st = "active"

Engaged(s) == Active(s) \/ \E o \in Operator : s = op[o].s \/ s \in op[o].rest

Gone(K) == \A k \in K : keyState[k] \in {"revoked", "again"}

\* Two scopes with a consumer in common have no key in common that is live,
\* unless its id came back.
Disjoint(s, t) ==
  \/ ConsumerScope[s] \cap ConsumerScope[t] = {}
  \/ KeyScope[s] # {} /\ KeyScope[t] # {} /\ KeyScope[s] \cap KeyScope[t] = {}
  \/ KeyScope[s] = {} /\ KeyScope[t] # {} /\ Gone(KeyScope[t])
  \/ KeyScope[t] = {} /\ KeyScope[s] # {} /\ Gone(KeyScope[s])

\* A pair that another session meters is none of session t.
Off(p, t) ==
  p[1] \in ConsumerScope[t] =>
    /\ KeyScope[t] = {} => keyState[p[2]] \in {"revoked", "again"}
    /\ p[2] \in KeyScope[t] => keyState[p[2]] = "again"

Apart(s, t) == Disjoint(s, t) /\ \A p \in metered[s] : Off(p, t)

\* The keys a session names have been there.
Aware(s) == \A k \in KeyScope[s] : keyState[k] # "new"

Scoped ==
  \A s \in Session :
    /\ row[s].st = "none" => metered[s] = {}
    /\ \A p \in metered[s] : Covers(s, p)

Separate ==
  /\ \A s \in Session : Engaged(s) => Aware(s)
  /\ \A s, t \in Session : s # t /\ Engaged(s) /\ Engaged(t) => Apart(s, t)

\* The entries of a session are there, as long as they are not overdue.
Entered(s) ==
  now < row[s].expires => \A p \in metered[s] : scope[p] = s \/ p[2] \in Revived

\* What the command at work has come to, by its phase.
Course(o) ==
  LET s == op[o].s IN
  /\ op[o].ph \in {"clear", "scopes", "activate"} => row[s].st = "pending"
  /\ op[o].ph \in {"checked", "clear"} => metered[s] = {}
  /\ op[o].ph \in {"undo", "undoGates", "endGates", "endScopes", "close"} =>
       s \in dismantled
  /\ op[o].ph \in {"clear", "scopes", "endScopes"} =>
       \A t \in Session : t # s /\ Engaged(t) =>
         \A p \in op[o].todo : Off(p, t) /\ (p \in metered[t] => p[2] \in Revived)
  /\ op[o].ph \in {"scopes", "activate"} => Entered(s)
  /\ op[o].ph = "activate" /\ SignLimit[s] > 0 => metered[s] # {}

Metered(s) ==
  Active(s) /\ SignLimit[s] > 0 /\ s \notin dismantled =>
    (now < row[s].expires => metered[s] # {}) /\ Entered(s)

ScopeInv ==
  /\ scope \in [Pair -> Session \cup {NoSession}]
  /\ Scoped
  /\ Separate
  /\ \A o \in Operator : Course(o)
  /\ \A s \in Session : Metered(s)

\* The pairs of a session, when a loop over them begins.
LEMMA PairsApart ==
  ASSUME TableTyped, NEW s \in Session, NEW t \in Session, Apart(s, t), Apart(t, s)
  PROVE  \A p \in Pairs(s) : Off(p, t) /\ (p \in metered[t] => p[2] \in Revived)
  <1> SUFFICES ASSUME NEW p \in Pairs(s)
               PROVE  Off(p, t) /\ (p \in metered[t] => p[2] \in Revived)
    OBVIOUS
  <1>1. Covers(s, p) /\ p[2] \in EffectiveKeys(s)
    BY PairsCovered DEF TableTyped
  <1>2. p[2] \in Live \/ (KeyScope[s] # {} /\ p[2] \in KeyScope[s])
    BY <1>1 DEF EffectiveKeys
  <1>3. KeyScope[s] = {} => keyState[p[2]] \in {"live", "again"} /\ p[2] \in Key
    BY <1>2 DEF Live
  <1>4. p[1] \in ConsumerScope[s] /\ (KeyScope[s] # {} => p[2] \in KeyScope[s])
    BY <1>1 DEF Covers
  <1>5. Off(p, t)
    BY <1>3, <1>4 DEF Apart, Disjoint, Off, Gone
  <1>6. ASSUME p \in metered[t] PROVE p[2] \in Revived
    <2>1. Off(p, s) /\ p[2] \in Key
      BY <1>1, <1>6 DEF Apart, Covers, Pair
    <2>2. keyState[p[2]] = "again"
      BY <1>3, <1>4, <2>1 DEF Off
    <2> QED
      BY <2>1, <2>2 DEF Revived
  <1> QED
    BY <1>5, <1>6

\* A session that passes the check for overlaps shares no live key with those
\* that are active.
LEMMA CheckedIsDisjoint ==
  ASSUME TableTyped, NEW s \in Session, KeyScope[s] \subseteq Live, ~Clashes(s),
         NEW t \in ActiveIn(Refreshed), Aware(t)
  PROVE  Disjoint(s, t)
  <1>1. t \in Session /\ KeyScope[t] \in SUBSET Key
    BY SessionAssumption DEF ActiveIn
  <1>2. \/ ConsumerScope[s] \cap ConsumerScope[t] = {}
        \/ EffectiveKeys(s) \cap EffectiveKeys(t) = {}
    BY DEF Clashes, Overlap
  <1>3. Live # {} /\ \A k \in Key : k \notin Live => keyState[k] \in {"new", "revoked"}
    BY DEF TableTyped, Live
  <1>4. CASE EffectiveKeys(s) \cap EffectiveKeys(t) = {} /\ KeyScope[s] = {}
    <2>1. KeyScope[t] # {} /\ Live \cap KeyScope[t] = {}
      BY <1>3, <1>4 DEF EffectiveKeys
    <2> QED
      BY <1>1, <1>3, <1>4, <2>1 DEF Aware, Disjoint, Gone
  <1>5. CASE EffectiveKeys(s) \cap EffectiveKeys(t) = {} /\ KeyScope[s] # {}
    <2>1. KeyScope[t] # {} /\ KeyScope[s] \cap KeyScope[t] = {}
      BY <1>5 DEF EffectiveKeys
    <2> QED
      BY <1>5, <2>1 DEF Disjoint
  <1> QED
    BY <1>2, <1>4, <1>5 DEF Disjoint

\* With one operator it is apart from them.
LEMMA CheckedIsApart ==
  ASSUME TableTyped, ScopeInv, NEW s \in Session, KeyScope[s] \subseteq Live, ~Clashes(s),
         metered[s] = {}, NEW t \in ActiveIn(Refreshed)
  PROVE  Apart(s, t) /\ Apart(t, s)
  <1>1. t \in Session /\ Active(t)
    BY RefreshedTyped DEF ActiveIn, Active
  <1>2. Aware(t) /\ \A p \in metered[t] : Covers(t, p)
    BY <1>1 DEF ScopeInv, Separate, Engaged, Scoped
  <1>3. \/ ConsumerScope[s] \cap ConsumerScope[t] = {}
        \/ EffectiveKeys(s) \cap EffectiveKeys(t) = {}
    BY DEF Clashes, Overlap
  <1>4. Live # {} /\ \A k \in Key : k \notin Live => keyState[k] \in {"new", "revoked"}
    BY DEF TableTyped, Live
  <1>5. KeyScope[t] \in SUBSET Key
    BY <1>1, SessionAssumption
  <1>6. CASE ConsumerScope[s] \cap ConsumerScope[t] = {}
    BY <1>2, <1>6 DEF Apart, Disjoint, Off, Covers
  <1>7. CASE EffectiveKeys(s) \cap EffectiveKeys(t) = {}
    <2>1. CASE KeyScope[s] = {}
      <3>1. KeyScope[t] # {} /\ Live \cap KeyScope[t] = {}
        BY <1>4, <1>7, <2>1 DEF EffectiveKeys
      <3>2. \A k \in KeyScope[t] : keyState[k] = "revoked"
        BY <1>2, <1>4, <1>5, <3>1 DEF Aware
      <3> QED
        BY <1>2, <2>1, <3>1, <3>2 DEF Apart, Disjoint, Off, Gone, Covers
    <2>2. CASE KeyScope[s] # {}
      <3>1. KeyScope[t] # {} /\ KeyScope[s] \cap KeyScope[t] = {}
        BY <1>7, <2>2 DEF EffectiveKeys
      <3> QED
        BY <1>2, <2>2, <3>1 DEF Apart, Disjoint, Off, Covers
    <2> QED
      BY <2>1, <2>2
  <1> QED
    BY <1>3, <1>6, <1>7

LEMMA ScopeInit == Init => ScopeInv
  <1> SUFFICES ASSUME Init PROVE ScopeInv
    OBVIOUS
  <1>1. /\ \A s \in Session : row[s].st = "none" /\ metered[s] = {}
        /\ \A o \in Operator : op[o] = Idle
        /\ scope \in [Pair -> Session \cup {NoSession}]
    BY DEF Init, SessionInit
  <1>2. \A s \in Session : ~Engaged(s) /\ ~Active(s)
    BY <1>1, SessionAssumption DEF Engaged, Active, Idle
  <1>3. \A o \in Operator : Course(o)
    BY <1>1 DEF Course, Idle
  <1> QED
    BY <1>1, <1>2, <1>3 DEF ScopeInv, Scoped, Separate, Metered

\* What the steps outside of the commands do to the table: rows end.
Settles ==
  \A s \in Session :
    /\ Active(s)' => Active(s)
    /\ row'[s].st = "none" => row[s].st = "none"
    /\ row[s].st = "pending" => row'[s].st = "pending"
    /\ row'[s].expires = row[s].expires

LEMMA RefreshSettles ==
  ASSUME TableTyped, row' = Refreshed
  PROVE  Settles
  BY RefreshedTyped DEF Settles, Active

LEMMA SettlesKept ==
  ASSUME TableTyped, TableTyped', ScopeInv, Settles, now' >= now, keyState' = keyState,
         scope' = scope, op' = op, metered' = metered, dismantled' = dismantled
  PROVE  ScopeInv'
  <1>n. \A s \in Session : now' < row'[s].expires => now < row[s].expires
    BY DEF Settles, TableTyped, RowType
  <1>1. \A s \in Session : Engaged(s)' => Engaged(s)
    BY DEF Settles, Engaged
  <1>2. Scoped'
    BY DEF ScopeInv, Scoped, Settles
  <1>3. Separate'
    BY <1>1 DEF ScopeInv, Separate, Aware, Apart, Disjoint, Gone, Off
  <1>4. \A s \in Session : Entered(s) => Entered(s)'
    BY <1>n DEF Entered, Revived
  <1>5. ASSUME NEW o \in Operator PROVE Course(o)'
    <2>1. Course(o) /\ (op[o].ph # "idle" => op[o].s \in Session)
      BY DEF ScopeInv, TableTyped, Progress
    <2>2. op[o].ph \in {"clear", "scopes", "activate"} => row'[op[o].s].st = "pending"
      BY <2>1 DEF Course, Settles
    <2>3. op[o].ph \in {"scopes", "activate"} => Entered(op[o].s)'
      BY <1>4, <2>1 DEF Course
    <2> QED
      BY <1>1, <2>1, <2>2, <2>3 DEF Course, Off, Revived
  <1>6. \A s \in Session : Metered(s)'
    BY <1>n, <1>4 DEF ScopeInv, Metered, Settles
  <1> QED
    BY <1>2, <1>3, <1>5, <1>6 DEF ScopeInv

\* A key that is provisioned, revoked or provisioned again parts no two
\* sessions less.
LEMMA ChangeKeysKept ==
  ASSUME TableTyped, ScopeInv, ChangeKeys
  PROVE  ScopeInv'
  <1>k. \A k \in Key :
          /\ keyState[k] = "again" => keyState'[k] = "again"
          /\ keyState[k] = "revoked" => keyState'[k] \in {"revoked", "again"}
          /\ keyState[k] # "new" => keyState'[k] # "new"
    BY KeysChange
  <1>s. \A s \in Session : KeyScope[s] \subseteq Key
    BY SessionAssumption
  <1>u. /\ now' = now /\ row' = row /\ scope' = scope /\ op' = op
        /\ metered' = metered /\ dismantled' = dismantled
    BY DEF ChangeKeys, kvVars, historyVars
  <1>1. \A s \in Session : (Engaged(s)' <=> Engaged(s)) /\ (Active(s)' <=> Active(s))
    BY <1>u DEF Engaged, Active
  <1>2. \A s, t \in Session : Disjoint(s, t) => Disjoint(s, t)'
    BY <1>k, <1>s DEF Disjoint, Gone
  <1>3. \A p \in Pair : (\A t \in Session : Off(p, t) => Off(p, t)')
                        /\ (p[2] \in Revived => p[2] \in Revived')
    BY <1>k, <1>s DEF Off, Revived, Pair
  <1>4. \A s \in Session : metered[s] \in SUBSET Pair /\ (Aware(s) => Aware(s)')
    BY <1>k, <1>s DEF TableTyped, Aware
  <1>5. Scoped'
    BY <1>u DEF ScopeInv, Scoped
  <1>6. Separate'
    BY <1>u, <1>1, <1>2, <1>3, <1>4 DEF ScopeInv, Separate, Apart
  <1>7. \A s \in Session : Entered(s) => Entered(s)'
    BY <1>u, <1>3, <1>4 DEF Entered
  <1>8. ASSUME NEW o \in Operator PROVE Course(o)'
    <2>1. /\ Course(o) /\ (op[o].ph # "idle" => op[o].s \in Session)
          /\ op[o].ph \in {"clear", "scopes", "endScopes"} => \A p \in op[o].todo : p \in Pair
      BY DEF ScopeInv, TableTyped, Progress, Covers
    <2>2. op[o].ph \in {"clear", "scopes", "endScopes"} =>
            \A t \in Session : t # op[o].s /\ Engaged(t)' =>
              \A p \in op[o].todo : Off(p, t)' /\ (p \in metered[t] => p[2] \in Revived')
      BY <1>1, <1>3, <2>1 DEF Course
    <2> QED
      BY <1>u, <1>7, <2>1, <2>2 DEF Course
  <1>9. \A s \in Session : Metered(s)'
    BY <1>u, <1>1, <1>7 DEF ScopeInv, Metered
  <1> QED
    BY <1>u, <1>5, <1>6, <1>8, <1>9 DEF ScopeInv

\* What expires belongs to a session that is over.
LEMMA ScopeExpiresKept ==
  ASSUME TableTyped, ScopeInv, ScopeExpires
  PROVE  ScopeInv'
  <1>u. /\ now' = now /\ row' = row /\ keyState' = keyState /\ op' = op
        /\ metered' = metered /\ dismantled' = dismantled
    BY DEF ScopeExpires, historyVars
  <1>1. PICK p \in Pair : /\ scope[p] # NoSession
                          /\ row[scope[p]].expires <= now
                          /\ scope' = [scope EXCEPT ![p] = NoSession]
    BY DEF ScopeExpires
  <1>2. scope' \in [Pair -> Session \cup {NoSession}]
    BY <1>1 DEF ScopeInv
  <1>3. \A s \in Session : Entered(s) => Entered(s)'
    <2> SUFFICES ASSUME NEW s \in Session, Entered(s) PROVE Entered(s)'
      OBVIOUS
    <2>1. metered[s] \in SUBSET Pair /\ row[s].expires \in Nat /\ now \in Nat
      BY DEF TableTyped, RowType
    <2>2. ASSUME now < row[s].expires, NEW q \in metered[s]
          PROVE  scope'[q] = s \/ q[2] \in Revived
      <3>1. scope[q] = s => q # p
        BY <1>1, <2>1, <2>2
      <3> QED
        BY <1>1, <2>1, <2>2, <3>1 DEF Entered, ScopeInv
    <2> QED
      BY <1>u, <2>2 DEF Entered, Revived
  <1>4. Scoped' /\ Separate'
    BY <1>u DEF ScopeInv, Scoped, Separate, Engaged, Active, Aware, Apart, Disjoint, Gone, Off
  <1>5. ASSUME NEW o \in Operator PROVE Course(o)'
    <2>1. Course(o) /\ (op[o].ph # "idle" => op[o].s \in Session)
      BY DEF ScopeInv, TableTyped, Progress
    <2>2. ASSUME op[o].ph \in {"scopes", "activate"} PROVE Entered(op[o].s)'
      <3>1. op[o].s \in Session /\ Entered(op[o].s)
        BY <2>1, <2>2 DEF Course
      <3>2. op'[o].s = op[o].s
        BY <1>u
      <3> QED
        BY <1>3, <3>1, <3>2
    <2>3. \A t \in Session : Engaged(t)' <=> Engaged(t)
      BY <1>u DEF Engaged, Active
    <2>4. /\ Revived' = Revived
          /\ \A t \in Session, q \in op[o].todo : Off(q, t)' <=> Off(q, t)
      BY <1>u DEF Off, Revived
    <2> QED
      BY <1>u, <2>1, <2>2, <2>3, <2>4 DEF Course
  <1>6. \A s \in Session : Metered(s)'
    BY <1>u, <1>3 DEF ScopeInv, Metered, Active
  <1> QED
    BY <1>2, <1>4, <1>5, <1>6 DEF ScopeInv

-----------------------------------------------------------------------------
(* The steps of the one command.                                           *)

LEMMA Continues ==
  ASSUME OneOperator, NEW o \in Operator, scope' \in [Pair -> Session \cup {NoSession}],
         Scoped', Separate', Course(o)', \A s \in Session : Metered(s)'
  PROVE  ScopeInv'
  BY DEF OneOperator, ScopeInv

LEMMA SeparateKept ==
  ASSUME ScopeInv, keyState' = keyState, metered' = metered,
         \A s \in Session : Engaged(s)' => Engaged(s)
  PROVE  Separate'
  BY DEF ScopeInv, Separate, Aware, Apart, Disjoint, Gone, Off

\* A session stays metered where its entries stay.
LEMMA MeteredKept ==
  ASSUME TableTyped, ScopeInv, NEW s \in Session, Active(s)' => Active(s),
         Active(s)' => row'[s].expires = row[s].expires, now' = now, keyState' = keyState,
         metered'[s] = metered[s], s \in dismantled => s \in dismantled',
         Active(s) /\ s \notin dismantled' =>
           \A p \in metered[s] : scope'[p] = scope[p] \/ p[2] \in Revived
  PROVE  Metered(s)'
  BY DEF ScopeInv, Metered, Entered, Revived

\* The sessions that the command is about are no others than before.
LEMMA EngagedComes ==
  ASSUME OneOperator, TableTyped, NEW o \in Operator,
         \A s \in Session : Active(s)' => Engaged(s),
         Ends(o) \/ (op'[o].s = op[o].s /\ op'[o].rest = op[o].rest)
  PROVE  \A s \in Session : Engaged(s)' => Engaged(s)
  BY SessionAssumption DEF OneOperator, Engaged, Ends, Idle

LEMMA EndedCourse ==
  ASSUME NEW o \in Operator, Ends(o)
  PROVE  Course(o)'
  BY DEF Ends, Course, Idle

LEMMA StartCheckKept ==
  ASSUME OneOperator, TableTyped, TableTyped', ScopeInv, NEW o \in Operator,
         NEW s \in Session, StartCheck(o, s), ~Clashes(s)
  PROVE  ScopeInv'
  <1>u. /\ row' = Refreshed /\ now' = now /\ keyState' = keyState /\ scope' = scope
        /\ metered' = metered /\ dismantled' = dismantled
    BY DEF StartCheck, kvVars, historyVars
  <1>1. Settles /\ metered[s] = {} /\ KeyScope[s] \subseteq Live
    BY <1>u, RefreshSettles DEF StartCheck, ScopeInv, Scoped
  <1>2. Comes(o, "checked", s, {})
    BY StartCheckSteps
  <1>3. \A t \in Session : Engaged(t)' => t = s \/ Active(t)'
    BY <1>2 DEF OneOperator, Engaged, Comes
  <1>4. \A t \in Session : Active(t)' => t \in ActiveIn(Refreshed) /\ Engaged(t)
    BY <1>u, <1>1 DEF Active, ActiveIn, Settles, Engaged
  <1>5. Separate'
    <2>1. Aware(s)
      BY <1>1 DEF Aware, Live
    <2>2. \A t \in Session : Active(t)' => Apart(s, t) /\ Apart(t, s)
      BY <1>1, <1>4, CheckedIsApart DEF StartCheck
    <2>3. \A t \in Session : Engaged(t)' => Aware(t)
      BY <1>3, <1>4, <2>1 DEF ScopeInv, Separate
    <2>4. \A t, v \in Session : t # v /\ Engaged(t)' /\ Engaged(v)' => Apart(t, v)
      BY <1>3, <1>4, <2>2 DEF ScopeInv, Separate
    <2>5. \A t, v \in Session : Apart(t, v)' = Apart(t, v)
      BY <1>u DEF Apart, Disjoint, Gone, Off
    <2> QED
      BY <1>u, <2>3, <2>4, <2>5 DEF Separate, Aware
  <1>6. Scoped'
    BY <1>u, <1>1 DEF ScopeInv, Scoped, Settles
  <1>7. Course(o)'
    BY <1>u, <1>1, <1>2 DEF Course, Comes
  <1>8. \A t \in Session : Metered(t)'
    BY <1>u, <1>1, MeteredKept DEF Settles
  <1> QED
    BY <1>u, <1>5, <1>6, <1>7, <1>8, Continues DEF ScopeInv

LEMMA StartInsertKept ==
  ASSUME OneOperator, TableTyped, TableTyped', ScopeInv, NEW o \in Operator,
         NEW s \in Session, s = op[o].s, StartInsert(o)
  PROVE  ScopeInv'
  <1>1. Comes(o, "clear", s, op[o].rest) /\ op'[o].todo = Pairs(s) /\ s \in Session
    BY StartInsertSteps
  <1>u. /\ row' = [row EXCEPT ![s] = [st |-> "pending", expires |-> op[o].until, signs |-> 0]]
        /\ now' = now /\ keyState' = keyState /\ scope' = scope
        /\ metered' = metered /\ dismantled' = dismantled /\ op[o].ph = "checked"
    BY DEF StartInsert, InPhase, kvVars, historyVars
  <1>2. /\ row'[s].st = "pending" /\ ~Active(s)'
        /\ \A t \in Session : t # s => row'[t] = row[t]
    BY <1>1, <1>u DEF TableTyped, Active
  <1>3. \A t \in Session : Engaged(t)' => Engaged(t)
    <2>1. \A t \in Session : Active(t)' => Engaged(t)
      BY <1>2 DEF Active, Engaged
    <2> QED
      BY <1>1, <2>1, EngagedComes DEF Comes
  <1>4. Separate'
    BY <1>u, <1>3, SeparateKept
  <1>5. Scoped' /\ metered[s] = {}
    BY <1>1, <1>u, <1>2 DEF ScopeInv, Scoped, Course
  <1>6. \A t \in Session : t # s /\ Engaged(t) =>
          \A p \in Pairs(s) : Off(p, t) /\ (p \in metered[t] => p[2] \in Revived)
    <2>1. Engaged(s)
      BY DEF Engaged
    <2> QED
      BY <1>1, <2>1, PairsApart DEF ScopeInv, Separate
  <1>7. Course(o)'
    <2>1. \A t \in Session : t # s /\ Engaged(t)' =>
            \A p \in Pairs(s) : Off(p, t)' /\ (p \in metered'[t] => p[2] \in Revived')
      BY <1>u, <1>3, <1>6 DEF Off, Revived
    <2> QED
      BY <1>1, <1>u, <1>2, <1>5, <2>1 DEF Course, Comes
  <1>8. \A t \in Session : Metered(t)'
    BY <1>u, <1>2, MeteredKept DEF Active
  <1> QED
    BY <1>u, <1>4, <1>5, <1>7, <1>8, Continues DEF ScopeInv

\* An entry of the loop's pairs is none that another active session needs.
LEMMA FirstIsHarmless ==
  ASSUME TableTyped, ScopeInv, NEW o \in Operator,
         op[o].ph \in {"clear", "scopes", "endScopes"},
         NEW t \in Session, t # op[o].s, Active(t),
         NEW v, scope' = [scope EXCEPT ![First(op[o].todo)] = v]
  PROVE  \A p \in metered[t] : scope'[p] = scope[p] \/ p[2] \in Revived
  <1>1. First(op[o].todo) \in op[o].todo
    BY FirstIsIn DEF TableTyped, Progress
  <1>2. First(op[o].todo) \in metered[t] => First(op[o].todo)[2] \in Revived
    BY <1>1 DEF ScopeInv, Course, Engaged
  <1>3. metered[t] \in SUBSET Pair
    BY DEF TableTyped
  <1> QED
    BY <1>2, <1>3 DEF ScopeInv

LEMMA StartClearKept ==
  ASSUME OneOperator, TableTyped, TableTyped', ScopeInv, NEW o \in Operator,
         NEW s \in Session, s = op[o].s, StartClear(o)
  PROVE  ScopeInv'
  <1>u. /\ scope' = [scope EXCEPT ![First(op[o].todo)] = NoSession]
        /\ row' = row /\ now' = now /\ keyState' = keyState
        /\ metered' = metered /\ dismantled' = dismantled /\ op[o].ph = "clear"
    BY DEF StartClear, InPhase, historyVars
  <1>1. /\ s \in Session
        /\ \/ SignLimit[s] > 0 /\ Comes(o, "scopes", s, op[o].rest) /\ op'[o].todo = Pairs(s)
           \/ ~(SignLimit[s] > 0) /\ Comes(o, "activate", s, op[o].rest)
           \/ Comes(o, "clear", s, op[o].rest)
              /\ op'[o].todo = op[o].todo \ {First(op[o].todo)}
    BY StartClearSteps
  <1>2. row[s].st = "pending" /\ metered[s] = {} /\ ~Active(s)
    BY <1>u DEF ScopeInv, Course, Active
  <1>3. \A t \in Session : Engaged(t)' => Engaged(t)
    <2>1. \A t \in Session : Active(t)' => Engaged(t)
      BY <1>u DEF Active, Engaged
    <2> QED
      BY <1>1, <2>1, EngagedComes DEF Comes
  <1>4. Separate' /\ Scoped'
    BY <1>u, <1>3, SeparateKept DEF ScopeInv, Scoped
  <1>5. \A t \in Session : t # s /\ Engaged(t) =>
          \A p \in Pairs(s) : Off(p, t) /\ (p \in metered[t] => p[2] \in Revived)
    <2>1. Engaged(s)
      BY DEF Engaged
    <2> QED
      BY <1>1, <2>1, PairsApart DEF ScopeInv, Separate
  <1>6. \A t \in Session : t # s /\ Engaged(t) =>
          \A p \in op[o].todo : Off(p, t) /\ (p \in metered[t] => p[2] \in Revived)
    BY <1>u DEF ScopeInv, Course
  <1>7. Course(o)'
    <2>1. \A t \in Session : t # s /\ Engaged(t)' =>
            \A p \in Pairs(s) \cup op[o].todo :
              Off(p, t)' /\ (p \in metered'[t] => p[2] \in Revived')
      BY <1>u, <1>3, <1>5, <1>6 DEF Off, Revived
    <2>2. row'[s].st = "pending" /\ metered'[s] = {} /\ (op'[o].s = s => Entered(op[o].s)')
      BY <1>u, <1>2 DEF Entered
    <2> QED
      BY <1>1, <1>u, <2>1, <2>2 DEF Course, Comes, Entered
  <1>8. ASSUME NEW t \in Session PROVE Metered(t)'
    <2>1. Active(t) => \A p \in metered[t] : scope'[p] = scope[p] \/ p[2] \in Revived
      BY <1>u, <1>2, FirstIsHarmless
    <2> QED
      BY <1>u, <2>1, MeteredKept DEF Active
  <1> QED
    BY <1>u, <1>4, <1>7, <1>8, Continues DEF ScopeInv

LEMMA StartScopeKept ==
  ASSUME OneOperator, TableTyped, TableTyped', ScopeInv, NEW o \in Operator,
         NEW s \in Session, s = op[o].s, StartScope(o)
  PROVE  ScopeInv'
  <1> DEFINE x == First(op[o].todo)
  <1>u. /\ scope' = [scope EXCEPT ![x] = s]
        /\ metered' = [metered EXCEPT ![s] = @ \cup {x}]
        /\ row' = row /\ now' = now /\ keyState' = keyState
        /\ dismantled' = dismantled /\ op[o].ph = "scopes"
    BY DEF StartScope, InPhase
  <1>1. /\ x \in op[o].todo /\ Covers(s, x)
        /\ \/ Comes(o, "activate", s, op[o].rest)
           \/ Comes(o, "scopes", s, op[o].rest) /\ op'[o].todo = op[o].todo \ {x}
    BY StartScopeSteps
  <1>2. row[s].st = "pending" /\ ~Active(s) /\ Entered(s)
    BY <1>u DEF ScopeInv, Course, Active
  <1>3. x \in Pair /\ metered \in [Session -> SUBSET Pair]
    BY <1>1 DEF Covers, TableTyped
  <1>4. /\ metered'[s] = metered[s] \cup {x}
        /\ \A t \in Session : t # s => metered'[t] = metered[t]
        /\ scope'[x] = s /\ \A p \in Pair : p # x => scope'[p] = scope[p]
    BY <1>u, <1>3 DEF ScopeInv
  <1>5. \A t \in Session : Engaged(t)' => Engaged(t)
    <2>1. \A t \in Session : Active(t)' => Engaged(t)
      BY <1>u DEF Active, Engaged
    <2> QED
      BY <1>1, <2>1, EngagedComes DEF Comes
  <1>6. \A t \in Session : t # s /\ Engaged(t) =>
          \A p \in op[o].todo : Off(p, t) /\ (p \in metered[t] => p[2] \in Revived)
    BY <1>u DEF ScopeInv, Course
  <1>7. Separate'
    <2>1. \A t \in Session : Engaged(t)' => Aware(t)'
      BY <1>u, <1>5 DEF ScopeInv, Separate, Aware
    <2>2. ASSUME NEW t \in Session, NEW v \in Session, t # v, Engaged(t)', Engaged(v)'
          PROVE  Apart(t, v)'
      <3>1. Apart(t, v) /\ (t = s => Off(x, v))
        BY <1>1, <1>5, <1>6, <2>2 DEF ScopeInv, Separate
      <3>2. Disjoint(t, v)' /\ \A p \in metered'[t] : Off(p, v)
        BY <1>u, <1>4, <3>1 DEF Apart, Disjoint, Gone
      <3> QED
        BY <1>u, <3>2 DEF Apart, Off
    <2> QED
      BY <2>1, <2>2 DEF Separate
  <1>8. Scoped'
    BY <1>u, <1>1, <1>2, <1>4 DEF ScopeInv, Scoped, Covers
  <1>9. Course(o)'
    <2>1. Entered(s)'
      BY <1>u, <1>2, <1>3, <1>4 DEF Entered, Revived
    <2>2. \A t \in Session : t # s /\ Engaged(t)' =>
            \A p \in op[o].todo : Off(p, t)' /\ (p \in metered'[t] => p[2] \in Revived')
      BY <1>u, <1>4, <1>5, <1>6 DEF Off, Revived
    <2>3. op'[o].s = s => Entered(op[o].s)'
      BY <2>1 DEF Entered, Revived
    <2> QED
      BY <1>1, <1>u, <1>2, <1>4, <2>2, <2>3 DEF Course, Comes
  <1>10. ASSUME NEW t \in Session PROVE Metered(t)'
    <2>1. CASE t = s
      BY <1>u, <1>2, <2>1 DEF Metered, Active
    <2>2. CASE t # s
      <3>1. Active(t) => \A p \in metered[t] : scope'[p] = scope[p] \/ p[2] \in Revived
        BY <1>u, <2>2, FirstIsHarmless
      <3> QED
        BY <1>u, <1>4, <2>2, <3>1, MeteredKept DEF Active
    <2> QED
      BY <2>1, <2>2
  <1>11. scope' \in [Pair -> Session \cup {NoSession}]
    BY <1>u DEF ScopeInv
  <1> QED
    BY <1>7, <1>8, <1>9, <1>10, <1>11, Continues

\* The steps that write no scopes and make no session active.
LEMMA QuietKept ==
  ASSUME OneOperator, TableTyped, TableTyped', ScopeInv, NEW o \in Operator,
         \A t \in Session : /\ Active(t)' => Active(t)
                            /\ row'[t].st = "none" => row[t].st = "none"
                            /\ Active(t)' => row'[t].expires = row[t].expires
                            /\ Engaged(t)' => Engaged(t),
         now' = now, keyState' = keyState, scope' = scope, metered' = metered,
         dismantled \subseteq dismantled', Course(o)'
  PROVE  ScopeInv'
  <1>1. Separate' /\ Scoped'
    BY SeparateKept DEF ScopeInv, Scoped
  <1>2. \A t \in Session : Metered(t)'
    BY MeteredKept
  <1> QED
    BY <1>1, <1>2, Continues DEF ScopeInv

LEMMA StartFailsKept ==
  ASSUME OneOperator, TableTyped, TableTyped', ScopeInv, NEW o \in Operator, StartFails(o)
  PROVE  ScopeInv'
  <1>u. /\ row' = row /\ now' = now /\ keyState' = keyState /\ scope' = scope
        /\ metered' = metered /\ dismantled' = dismantled \cup {op[o].s}
    BY DEF StartFails, kvVars
  <1>1. Comes(o, "undo", op[o].s, op[o].rest)
    BY StartFailsSteps
  <1>2. \A t \in Session : Engaged(t)' => Engaged(t)
    <2>1. \A t \in Session : Active(t)' => Engaged(t)
      BY <1>u DEF Active, Engaged
    <2> QED
      BY <1>1, <2>1, EngagedComes DEF Comes
  <1>3. Course(o)'
    BY <1>1, <1>u DEF Course, Comes
  <1> QED
    BY <1>u, <1>2, <1>3, QuietKept DEF Active

LEMMA StartActivateKept ==
  ASSUME OneOperator, TableTyped, TableTyped', ScopeInv, NEW o \in Operator,
         NEW s \in Session, s = op[o].s, StartActivate(o)
  PROVE  ScopeInv'
  <1>u. /\ row' = [Refreshed EXCEPT ![s].st =
                     IF row[s].expires < now THEN "expired" ELSE "active"]
        /\ now' = now /\ keyState' = keyState /\ scope' = scope
        /\ metered' = metered /\ dismantled' = dismantled /\ op[o].ph = "activate"
    BY DEF StartActivate, InPhase, kvVars, historyVars
  <1>1. Comes(o, "gates", s, op[o].rest)
    BY StartActivateSteps
  <1>2. /\ row'[s].st # "none" /\ row'[s].expires = row[s].expires
        /\ \A t \in Session : t # s => row'[t] = Refreshed[t]
    BY <1>u, RefreshedTyped DEF RowType
  <1>3. \A t \in Session : t # s => /\ Active(t)' => Active(t)
                                    /\ row'[t].st = "none" => row[t].st = "none"
                                    /\ row'[t].expires = row[t].expires
    BY <1>2, RefreshedTyped DEF Active
  <1>4. \A t \in Session : Engaged(t)' => Engaged(t)
    <2>1. \A t \in Session : Active(t)' => Engaged(t)
      BY <1>3 DEF Active, Engaged
    <2> QED
      BY <1>1, <2>1, EngagedComes DEF Comes
  <1>5. Separate' /\ Scoped'
    BY <1>u, <1>2, <1>3, <1>4, SeparateKept DEF ScopeInv, Scoped
  <1>6. Course(o)'
    BY <1>1, <1>u DEF Course, Comes
  <1>7. ASSUME NEW t \in Session PROVE Metered(t)'
    <2>1. CASE t = s
      <3>1. Entered(s) /\ (SignLimit[s] > 0 => metered[s] # {})
        BY <1>u DEF ScopeInv, Course
      <3>2. Entered(s)'
        BY <1>u, <1>2, <3>1 DEF Entered, Revived
      <3> QED
        BY <1>u, <2>1, <3>1, <3>2 DEF Metered
    <2>2. CASE t # s
      BY <1>u, <1>3, <2>2, MeteredKept
    <2> QED
      BY <2>1, <2>2
  <1> QED
    BY <1>u, <1>5, <1>6, <1>7, Continues DEF ScopeInv

LEMMA GateKept ==
  ASSUME OneOperator, TableTyped, TableTyped', ScopeInv, NEW o \in Operator,
         StartGate(o) \/ UndoGate(o)
  PROVE  ScopeInv'
  <1>u. /\ row' = row /\ now' = now /\ keyState' = keyState /\ scope' = scope
        /\ metered' = metered /\ dismantled' = dismantled
        /\ op[o].ph \in {"gates", "undoGates"}
    BY DEF StartGate, UndoGate, InPhase, historyVars
  <1>1. Ends(o) \/ Comes(o, op[o].ph, op[o].s, op[o].rest)
    BY GateSteps
  <1>2. \A t \in Session : Engaged(t)' => Engaged(t)
    <2>1. \A t \in Session : Active(t)' => Engaged(t)
      BY <1>u DEF Active, Engaged
    <2> QED
      BY <1>1, <2>1, EngagedComes DEF Comes
  <1>3. Course(o)'
    <2>1. ASSUME Comes(o, op[o].ph, op[o].s, op[o].rest) PROVE Course(o)'
      <3>1. op[o].ph = "undoGates" => op[o].s \in dismantled
        BY DEF ScopeInv, Course
      <3> QED
        BY <1>u, <2>1, <3>1 DEF Course, Comes
    <2> QED
      BY <1>1, <2>1, EndedCourse
  <1> QED
    BY <1>u, <1>2, <1>3, QuietKept DEF Active

\* Only entries that name the session go, and it is being taken down.
LEMMA UndoScopeKept ==
  ASSUME OneOperator, TableTyped, TableTyped', ScopeInv, NEW o \in Operator,
         NEW s \in Session, s = op[o].s, UndoScope(o)
  PROVE  ScopeInv'
  <1>u. /\ row' = row /\ now' = now /\ keyState' = keyState /\ op' = op
        /\ metered' = metered /\ dismantled' = dismantled /\ op[o].ph = "undo"
    BY DEF UndoScope, InPhase, historyVars
  <1>1. PICK p \in metered[s] : scope[p] = s /\ scope' = [scope EXCEPT ![p] = NoSession]
    BY DEF UndoScope
  <1>2. s \in dismantled /\ p \in Pair
    BY <1>u DEF ScopeInv, Course, TableTyped
  <1>3. \A t \in Session : Engaged(t)' => Engaged(t)
    BY <1>u DEF Engaged, Active
  <1>4. Separate' /\ Scoped'
    BY <1>u, <1>3, SeparateKept DEF ScopeInv, Scoped
  <1>5. Course(o)'
    BY <1>u, <1>2 DEF Course
  <1>6. ASSUME NEW t \in Session PROVE Metered(t)'
    <2>1. CASE t = s
      BY <1>u, <1>2, <2>1 DEF Metered
    <2>2. CASE t # s
      <3>1. ASSUME Metered(t), Active(t), SignLimit[t] > 0, t \notin dismantled,
                   now < row[t].expires, NEW q \in metered[t]
            PROVE  scope'[q] = t \/ q[2] \in Revived
        <4>1. q \in Pair /\ (scope[q] = t \/ q[2] \in Revived)
          BY <3>1 DEF Metered, Entered, TableTyped
        <4>2. scope[q] = t => scope'[q] = t
          BY <1>1, <2>2, <4>1 DEF ScopeInv
        <4> QED
          BY <4>1, <4>2
      <3>2. Metered(t)
        BY DEF ScopeInv
      <3> QED
        BY <1>u, <3>1, <3>2 DEF Metered, Entered, Active, Revived
    <2> QED
      BY <2>1, <2>2
  <1>7. scope' \in [Pair -> Session \cup {NoSession}]
    BY <1>1 DEF ScopeInv
  <1> QED
    BY <1>4, <1>5, <1>6, <1>7, Continues

LEMMA UndoRowKept ==
  ASSUME OneOperator, TableTyped, TableTyped', ScopeInv, NEW o \in Operator,
         NEW s \in Session, s = op[o].s, UndoRow(o)
  PROVE  ScopeInv'
  <1>u. /\ row' = [Refreshed EXCEPT ![s].st = "deleted"]
        /\ now' = now /\ keyState' = keyState /\ scope' = scope
        /\ metered' = metered /\ dismantled' = dismantled /\ op[o].ph = "undo"
    BY DEF UndoRow, InPhase, kvVars
  <1>1. Comes(o, "undoGates", s, op[o].rest) /\ s \in dismantled
    BY <1>u, UndoRowSteps DEF ScopeInv, Course
  <1>2. \A t \in Session : /\ Active(t)' => Active(t)
                           /\ row'[t].st = "none" => row[t].st = "none"
                           /\ row'[t].expires = row[t].expires
    <2>1. row'[s].st = "deleted" /\ row'[s].expires = Refreshed[s].expires
          /\ \A t \in Session : t # s => row'[t] = Refreshed[t]
      BY <1>u, RefreshedTyped DEF RowType
    <2> QED
      BY <2>1, RefreshedTyped DEF Active
  <1>3. \A t \in Session : Engaged(t)' => Engaged(t)
    <2>1. \A t \in Session : Active(t)' => Engaged(t)
      BY <1>2 DEF Engaged
    <2> QED
      BY <1>1, <2>1, EngagedComes DEF Comes
  <1>4. Course(o)'
    BY <1>u, <1>1 DEF Course, Comes
  <1> QED
    BY <1>u, <1>2, <1>3, <1>4, QuietKept

LEMMA EndStartKept ==
  ASSUME OneOperator, TableTyped, TableTyped', ScopeInv, NEW o \in Operator, EndStart(o)
  PROVE  ScopeInv'
  <1>u. /\ row' = Refreshed /\ now' = now /\ keyState' = keyState /\ scope' = scope
        /\ metered' = metered
    BY DEF EndStart, kvVars
  <1>1. PICK targets \in SUBSET Session :
          /\ targets \subseteq ActiveIn(Refreshed) /\ First(targets) \in targets
          /\ Comes(o, "endGates", First(targets), targets \ {First(targets)})
          /\ dismantled' = dismantled \cup {First(targets)}
    BY EndStartSteps
  <1>2. Settles /\ \A t \in targets : Active(t)
    BY <1>u, <1>1, RefreshSettles, RefreshedTyped DEF ActiveIn, Active
  <1>3. \A t \in Session : Engaged(t)' => Engaged(t)
    BY <1>1, <1>2 DEF OneOperator, Engaged, Comes, Settles
  <1>4. Course(o)'
    BY <1>1 DEF Course, Comes
  <1> QED
    BY <1>u, <1>1, <1>2, <1>3, <1>4, QuietKept DEF Settles

LEMMA EndGateKept ==
  ASSUME OneOperator, TableTyped, TableTyped', ScopeInv, NEW o \in Operator,
         NEW s \in Session, s = op[o].s, EndGate(o)
  PROVE  ScopeInv'
  <1>u. /\ row' = row /\ now' = now /\ keyState' = keyState /\ scope' = scope
        /\ metered' = metered /\ dismantled' = dismantled /\ op[o].ph = "endGates"
    BY DEF EndGate, InPhase, historyVars
  <1>1. \/ Comes(o, "endScopes", s, op[o].rest) /\ op'[o].todo = Pairs(s)
        \/ Comes(o, "close", s, op[o].rest)
        \/ Comes(o, "endGates", s, op[o].rest)
    BY EndGateSteps
  <1>2. \A t \in Session : Engaged(t)' => Engaged(t)
    <2>1. \A t \in Session : Active(t)' => Engaged(t)
      BY <1>u DEF Active, Engaged
    <2> QED
      BY <1>1, <2>1, EngagedComes DEF Comes
  <1>3. s \in dismantled
    BY <1>u DEF ScopeInv, Course
  <1>4. \A t \in Session : t # s /\ Engaged(t)' =>
          \A p \in Pairs(s) : Off(p, t)' /\ (p \in metered'[t] => p[2] \in Revived')
    <2>1. \A t \in Session : t # s /\ Engaged(t) =>
            \A p \in Pairs(s) : Off(p, t) /\ (p \in metered[t] => p[2] \in Revived)
      <3>1. Engaged(s)
        BY DEF Engaged
      <3> QED
        BY <3>1, PairsApart DEF ScopeInv, Separate
    <2> QED
      BY <1>u, <1>2, <2>1 DEF Off, Revived
  <1>5. Course(o)'
    BY <1>u, <1>1, <1>3, <1>4 DEF Course, Comes
  <1> QED
    BY <1>u, <1>2, <1>5, QuietKept DEF Active

LEMMA EndScopeKept ==
  ASSUME OneOperator, TableTyped, TableTyped', ScopeInv, NEW o \in Operator,
         NEW s \in Session, s = op[o].s, EndScope(o)
  PROVE  ScopeInv'
  <1> DEFINE x == First(op[o].todo)
  <1>u. /\ scope' = [scope EXCEPT ![x] = NoSession]
        /\ row' = row /\ now' = now /\ keyState' = keyState
        /\ metered' = metered /\ dismantled' = dismantled /\ op[o].ph = "endScopes"
    BY DEF EndScope, InPhase, historyVars
  <1>1. \/ Comes(o, "close", s, op[o].rest)
        \/ Comes(o, "endScopes", s, op[o].rest) /\ op'[o].todo = op[o].todo \ {x}
    BY EndScopeSteps
  <1>2. s \in dismantled
    BY <1>u DEF ScopeInv, Course
  <1>3. \A t \in Session : Engaged(t)' => Engaged(t)
    <2>1. \A t \in Session : Active(t)' => Engaged(t)
      BY <1>u DEF Active, Engaged
    <2> QED
      BY <1>1, <2>1, EngagedComes DEF Comes
  <1>4. Separate' /\ Scoped'
    BY <1>u, <1>3, SeparateKept DEF ScopeInv, Scoped
  <1>5. Course(o)'
    <2>1. \A t \in Session : t # s /\ Engaged(t)' =>
            \A p \in op[o].todo : Off(p, t)' /\ (p \in metered'[t] => p[2] \in Revived')
      BY <1>u, <1>3 DEF ScopeInv, Course, Off, Revived
    <2> QED
      BY <1>1, <1>u, <1>2, <2>1 DEF Course, Comes
  <1>6. ASSUME NEW t \in Session PROVE Metered(t)'
    <2>1. CASE t = s
      BY <1>u, <1>2, <2>1 DEF Metered
    <2>2. CASE t # s
      <3>1. Active(t) => \A p \in metered[t] : scope'[p] = scope[p] \/ p[2] \in Revived
        BY <1>u, <2>2, FirstIsHarmless
      <3> QED
        BY <1>u, <3>1, MeteredKept DEF Active
    <2> QED
      BY <2>1, <2>2
  <1> QED
    BY <1>u, <1>4, <1>5, <1>6, Continues DEF ScopeInv

LEMMA EndCloseKept ==
  ASSUME OneOperator, TableTyped, TableTyped', ScopeInv, NEW o \in Operator, EndClose(o)
  PROVE  ScopeInv'
  <1> DEFINE s == op[o].s
  <1>u. /\ row' = [row EXCEPT ![s].st = IF @ = "active" THEN "closed" ELSE @]
        /\ now' = now /\ keyState' = keyState /\ scope' = scope /\ metered' = metered
    BY DEF EndClose, kvVars
  <1>1. /\ s \in Session
        /\ \/ Ends(o) /\ dismantled' = dismantled
           \/ /\ First(op[o].rest) \in op[o].rest
              /\ Comes(o, "endGates", First(op[o].rest), op[o].rest \ {First(op[o].rest)})
              /\ dismantled' = dismantled \cup {First(op[o].rest)}
    BY EndCloseSteps
  <1>2. \A t \in Session : /\ Active(t)' => Active(t)
                           /\ row'[t].st = "none" => row[t].st = "none"
                           /\ row'[t].expires = row[t].expires
    <2>1. row \in [Session -> RowType]
      BY DEF TableTyped
    <2>2. /\ row'[s].st = IF row[s].st = "active" THEN "closed" ELSE row[s].st
          /\ row'[s].expires = row[s].expires
          /\ \A t \in Session : t # s => row'[t] = row[t]
      BY <1>u, <1>1, <2>1 DEF RowType
    <2> QED
      BY <2>2 DEF Active
  <1>3. \A t \in Session : Engaged(t)' => Engaged(t)
    <2>1. CASE Ends(o)
      BY <1>2, <2>1, EngagedComes DEF Engaged
    <2>2. CASE /\ First(op[o].rest) \in op[o].rest
               /\ Comes(o, "endGates", First(op[o].rest), op[o].rest \ {First(op[o].rest)})
      BY <1>2, <2>2 DEF OneOperator, Engaged, Comes
    <2> QED
      BY <1>1, <2>1, <2>2
  <1>4. Course(o)'
    <2>1. CASE Ends(o)
      BY <2>1, EndedCourse
    <2>2. CASE /\ Comes(o, "endGates", First(op[o].rest), op[o].rest \ {First(op[o].rest)})
               /\ dismantled' = dismantled \cup {First(op[o].rest)}
      BY <2>2 DEF Course, Comes
    <2> QED
      BY <1>1, <2>1, <2>2
  <1> QED
    BY <1>u, <1>1, <1>2, <1>3, <1>4, QuietKept

LEMMA QuitKept ==
  ASSUME OneOperator, TableTyped, TableTyped', ScopeInv, NEW o \in Operator, Quit(o)
  PROVE  ScopeInv'
  <1>u. /\ row' = row /\ now' = now /\ keyState' = keyState /\ scope' = scope
        /\ metered' = metered /\ dismantled' = dismantled
    BY DEF Quit, kvVars, historyVars
  <1>1. Ends(o) /\ Course(o)'
    BY QuitSteps, EndedCourse
  <1>2. \A t \in Session : Engaged(t)' => Engaged(t)
    <2>1. \A t \in Session : Active(t)' => Engaged(t)
      BY <1>u DEF Active, Engaged
    <2> QED
      BY <1>1, <2>1, EngagedComes
  <1> QED
    BY <1>u, <1>1, <1>2, QuietKept DEF Active

LEMMA CommandKept ==
  ASSUME OneOperator, TableTyped, TableTyped', ScopeInv, NEW o \in Operator, Command(o)
  PROVE  ScopeInv'
  <1>p. op[o].ph # "idle" => op[o].s \in Session
    BY DEF TableTyped, Progress
  <1>1. ASSUME NEW s \in Session, StartCheck(o, s) PROVE ScopeInv'
    <2>1. CASE Clashes(s)
      <3>1. /\ row' = Refreshed /\ now' = now /\ keyState' = keyState /\ scope' = scope
            /\ op' = op /\ metered' = metered /\ dismantled' = dismantled
        BY <1>1, <2>1 DEF StartCheck, kvVars, historyVars
      <3>2. now' >= now
        BY <3>1 DEF TableTyped
      <3> QED
        BY <3>1, <3>2, RefreshSettles, SettlesKept
    <2>2. CASE ~Clashes(s)
      BY <1>1, <2>2, StartCheckKept
    <2> QED
      BY <2>1, <2>2
  <1>2. CASE StartInsert(o)
    BY <1>p, <1>2, StartInsertKept DEF StartInsert, InPhase
  <1>3. CASE StartClear(o)
    BY <1>p, <1>3, StartClearKept DEF StartClear, InPhase
  <1>4. CASE StartScope(o)
    BY <1>p, <1>4, StartScopeKept DEF StartScope, InPhase
  <1>5. CASE StartActivate(o)
    BY <1>p, <1>5, StartActivateKept DEF StartActivate, InPhase
  <1>6. CASE StartGate(o) \/ UndoGate(o)
    BY <1>6, GateKept
  <1>7. CASE StartFails(o)
    BY <1>7, StartFailsKept
  <1>8. CASE UndoScope(o)
    BY <1>p, <1>8, UndoScopeKept DEF UndoScope, InPhase
  <1>9. CASE UndoRow(o)
    BY <1>p, <1>9, UndoRowKept DEF UndoRow, InPhase
  <1>10. CASE EndStart(o)
    BY <1>10, EndStartKept
  <1>11. CASE EndGate(o)
    BY <1>p, <1>11, EndGateKept DEF EndGate, InPhase
  <1>12. CASE EndScope(o)
    BY <1>p, <1>12, EndScopeKept DEF EndScope, InPhase
  <1>13. CASE EndClose(o)
    BY <1>13, EndCloseKept
  <1>14. CASE Quit(o)
    BY <1>14, QuitKept
  <1> QED
    BY <1>1, <1>2, <1>3, <1>4, <1>5, <1>6, <1>7, <1>8, <1>9, <1>10, <1>11, <1>12,
       <1>13, <1>14 DEF Command

LEMMA ScopeStep ==
  ASSUME OneOperator, TableTyped, TableTyped', CallInv, ScopeInv, [Next]_vars
  PROVE  ScopeInv'
  <1>n. now \in Nat
    BY DEF TableTyped
  <1>1. ASSUME NEW o \in Operator, Command(o) PROVE ScopeInv'
    BY <1>1, CommandKept
  <1>2. CASE Sweep
    <2>1. /\ row' = Refreshed /\ now' >= now /\ keyState' = keyState /\ scope' = scope
          /\ op' = op /\ metered' = metered /\ dismantled' = dismantled
      BY <1>n, <1>2 DEF Sweep, kvVars, historyVars
    <2> QED
      BY <2>1, RefreshSettles, SettlesKept
  <1>3. CASE Tick
    <2>1. /\ row' = row /\ now' >= now /\ keyState' = keyState /\ scope' = scope
          /\ op' = op /\ metered' = metered /\ dismantled' = dismantled
      BY <1>n, <1>3 DEF Tick, kvVars, historyVars
    <2> QED
      BY <2>1, SettlesKept DEF Settles, Active
  <1>4. ASSUME NEW r \in Request, Reflect(r) PROVE ScopeInv'
    <2>1. /\ now' >= now /\ keyState' = keyState /\ scope' = scope
          /\ op' = op /\ metered' = metered /\ dismantled' = dismantled
      BY <1>n, <1>4 DEF Reflect, kvVars, historyVars
    <2>2. Settles
      BY <1>4, ReflectedRow, RefreshedTyped DEF Settles, Active
    <2> QED
      BY <2>1, <2>2, SettlesKept
  <1>5. ASSUME \/ \E r \in Request : Serve(r) /\ ~Reflect(r)
               \/ UNCHANGED vars
        PROVE  ScopeInv'
    <2>1. /\ row' = row /\ now' = now /\ keyState' = keyState /\ scope' = scope
          /\ op' = op /\ metered' = metered /\ dismantled' = dismantled
      BY <1>5, ServeStays DEF vars, sessionVars, kvVars, historyVars
    <2>2. now' >= now
      BY <1>n, <2>1
    <2> QED
      BY <2>1, <2>2, SettlesKept DEF Settles, Active
  <1> QED
    BY <1>1, <1>2, <1>3, <1>4, <1>5, ChangeKeysKept, ScopeExpiresKept
    DEF Next, SessionNext, Serve

LEMMA ScopesKept ==
  ASSUME OneOperator
  PROVE  Spec => []ScopeInv
  <1>1. TableTyped /\ CallInv /\ TableTyped' /\ ScopeInv /\ [Next]_vars => ScopeInv'
    BY ScopeStep
  <1> QED
    BY <1>1, ScopeInit, TypesKept, PTL DEF Spec

\* With one operator at a time a session with --max-sign-ops has, while it is
\* active, the entries that make the Worker count its signatures, until
\* somebody begins to take it down (_ssh_session_scope_pairs), whichever call
\* to KV failed and whatever other sessions were started, undone and ended.
THEOREM ActiveSessionsAreMetered ==
  ASSUME OneOperator
  PROVE  Spec => []MeteredWhileActive
  <1>1. ScopeInv => MeteredWhileActive
    BY DEF ScopeInv, Metered, Entered, MeteredWhileActive, Active, ActiveIn
  <1> QED
    BY <1>1, ScopesKept, PTL

-----------------------------------------------------------------------------
(* The greatest of a finite set of integers, which the gate of a consumer  *)
(* is opened for.                                                          *)

\* Every finite set of integers has a greatest element: a smallest subset that
\* had none would have one, as it has one without any of its elements.
LEMMA Greatest ==
  ASSUME NEW S, IsFiniteSet(S), S \subseteq Int, S # {}
  PROVE  \E m \in S : \A y \in S : m >= y
  <1> DEFINE Bad == {T \in SUBSET S : T # {} /\ ~ \E m \in T : \A y \in T : m >= y}
  <1>1. SUFFICES ASSUME Bad # {} PROVE FALSE
    OBVIOUS
  <1>2. Bad \subseteq FiniteSubsetsOf(S)
    BY FS_Subset DEF FiniteSubsetsOf
  <1>3. PICK T \in Bad : \A U \in Bad : <<U, T>> \notin StrictSubsetOrdering(S)
    <2> HIDE DEF Bad
    <2> QED
      BY <1>1, <1>2, WFMin, FS_StrictSubsetOrderingWellFounded
  <1>4. PICK x \in T : TRUE
    BY <1>3
  <1>5. <<T \ {x}, T>> \in StrictSubsetOrdering(S)
    BY <1>3, <1>4 DEF StrictSubsetOrdering
  <1>6. T \ {x} \notin Bad
    BY <1>3, <1>5
  <1>7. CASE T \ {x} = {}
    BY <1>3, <1>4, <1>7
  <1>8. CASE T \ {x} # {}
    <2>1. PICK m \in T \ {x} : \A y \in T \ {x} : m >= y
      BY <1>3, <1>6, <1>8
    <2>2. \A y \in T : (IF m >= x THEN m ELSE x) >= y
      BY <1>3, <1>4, <2>1
    <2>3. (IF m >= x THEN m ELSE x) \in T
      BY <1>4, <2>1
    <2> QED
      BY <1>3, <2>2, <2>3
  <1> QED
    BY <1>7, <1>8

LEMMA MaxIs ==
  ASSUME NEW S, IsFiniteSet(S), S \subseteq Int, S # {}
  PROVE  Max(S) \in S /\ \A y \in S : Max(S) >= y
  BY Greatest DEF Max

\* The longest remaining time is that of a session that covers the consumer.
LEMMA LongestIs ==
  ASSUME TableTyped, NEW c, NEW seen \in SUBSET Session
  PROVE  /\ LongestRemaining(c, seen) \in Nat
         /\ LongestRemaining(c, seen) > 0 =>
              \E t \in seen : /\ c \in ConsumerScope[t]
                              /\ LongestRemaining(c, seen) = row[t].expires - now
  <1> DEFINE T == {t \in seen : c \in ConsumerScope[t]}
             f == [t \in T |-> row[t].expires - now]
             R == {row[t].expires - now : t \in T}
  <1>1. IsFiniteSet(T)
    BY SessionAssumption, FS_Subset
  <1>2. f \in Surjection(T, R)
    BY DEF Surjection
  <1>3. IsFiniteSet(R)
    <2> HIDE DEF T, f, R
    <2> QED
      BY <1>1, <1>2, FS_Surjection
  <1>4. R \subseteq Int
    BY DEF TableTyped, RowType
  <1>5. LongestRemaining(c, seen) = Max({0} \cup R)
    BY DEF LongestRemaining
  <1>6. IsFiniteSet({0} \cup R)
    <2> HIDE DEF R
    <2>1. IsFiniteSet(R \cup {0}) /\ R \cup {0} = {0} \cup R
      BY <1>3, FS_AddElement
    <2> QED
      BY <2>1
  <1>7. Max({0} \cup R) \in {0} \cup R /\ \A y \in {0} \cup R : Max({0} \cup R) >= y
    <2> HIDE DEF R
    <2>1. {0} \cup R \subseteq Int /\ {0} \cup R # {}
      BY <1>4
    <2> HIDE DEF Max
    <2> QED
      BY <1>6, <2>1, MaxIs
  <1>8. LongestRemaining(c, seen) \in {0} \cup R /\ LongestRemaining(c, seen) >= 0
    BY <1>5, <1>7
  <1>9. LongestRemaining(c, seen) \in Nat
    BY <1>4, <1>8
  <1>10. ASSUME LongestRemaining(c, seen) > 0
         PROVE  LongestRemaining(c, seen) \in R
    BY <1>8, <1>10
  <1> QED
    BY <1>9, <1>10

-----------------------------------------------------------------------------
(* The types of what is left: the stores of the Worker and the histories.  *)

StoresTyped ==
  /\ now \in 0..MaxTime
  /\ gate \in [Consumer -> Nat]
  /\ scope \in [Pair -> Session \cup {NoSession}]
  /\ {dismantled, ended, strayed} \subseteq SUBSET Session

LEMMA ReconcileSteps ==
  ASSUME TableTyped, StoresTyped, NEW c, NEW seen \in SUBSET Session, Reconcile(c, seen)
  PROVE  /\ gate' \in [Consumer -> Nat]
         /\ \A d \in Consumer \ {c} : gate'[d] = gate[d]
         /\ c \in Consumer /\ gate'[c] # 0 =>
              \E t \in seen : /\ c \in ConsumerScope[t]
                              /\ gate'[c] <= row[t].expires + Latency
  <1> DEFINE remaining == LongestRemaining(c, seen)
  <1>1. /\ remaining \in Nat
        /\ remaining > 0 => \E t \in seen : /\ c \in ConsumerScope[t]
                                            /\ remaining = row[t].expires - now
    BY LongestIs
  <1>2. PICK late \in 0..Latency :
          gate' = [gate EXCEPT ![c] = IF remaining > 0 THEN now + remaining + late ELSE 0]
    BY DEF Reconcile
  <1>3. Latency \in Nat /\ late \in Nat /\ late <= Latency /\ now \in Nat
    BY <1>2, SessionAssumption DEF TableTyped
  <1> HIDE DEF remaining
  <1>4. now + remaining + late \in Nat
    BY <1>1, <1>3
  <1>5. gate' \in [Consumer -> Nat]
    BY <1>2, <1>4 DEF StoresTyped
  <1>6. \A d \in Consumer \ {c} : gate'[d] = gate[d]
    BY <1>2 DEF StoresTyped
  <1>7. ASSUME c \in Consumer, gate'[c] # 0
        PROVE  \E t \in seen : /\ c \in ConsumerScope[t]
                               /\ gate'[c] <= row[t].expires + Latency
    <2>1. remaining > 0 /\ gate'[c] = now + remaining + late
      BY <1>2, <1>7 DEF StoresTyped
    <2>2. PICK t \in seen : c \in ConsumerScope[t] /\ remaining = row[t].expires - now
      BY <1>1, <2>1
    <2>3. row[t].expires \in Nat
      BY <2>2 DEF TableTyped, RowType
    <2> QED
      BY <1>3, <2>1, <2>2, <2>3
  <1> QED
    BY <1>5, <1>6, <1>7

LEMMA StoresInit == Init => StoresTyped
  BY SessionAssumption DEF Init, SessionInit, StoresTyped

LEMMA CommandStores ==
  ASSUME TableTyped, StoresTyped, NEW o \in Operator, Command(o)
  PROVE  StoresTyped'
  <1>s. op[o].ph # "idle" => op[o].s \in Session
    BY DEF TableTyped, Progress
  <1>o. op[o].seen \in SUBSET Session
    BY DEF TableTyped, OpType
  <1>n. /\ now \in 0..MaxTime /\ scope \in [Pair -> Session \cup {NoSession}]
        /\ dismantled \subseteq Session /\ ended \subseteq Session /\ strayed \subseteq Session
    BY DEF StoresTyped
  <1>1. CASE \E s \in Session : StartCheck(o, s)
    BY <1>1 DEF StartCheck, kvVars, historyVars, StoresTyped
  <1>2. CASE StartInsert(o) \/ StartActivate(o) \/ Quit(o)
    BY <1>2 DEF StartInsert, StartActivate, Quit, kvVars, historyVars, StoresTyped
  <1>3. CASE StartFails(o)
    BY <1>s, <1>n, <1>3 DEF StartFails, kvVars, StoresTyped
  <1>4. CASE StartClear(o)
    BY <1>n, <1>4 DEF StartClear, historyVars, StoresTyped
  <1>5. CASE StartScope(o)
    BY <1>s, <1>n, <1>5 DEF StartScope, InPhase, StoresTyped
  <1>6. CASE StartGate(o)
    BY <1>o, <1>n, <1>6, ReconcileSteps DEF StartGate, historyVars, StoresTyped
  <1>7. CASE UndoScope(o)
    BY <1>n, <1>7 DEF UndoScope, historyVars, StoresTyped
  <1>8. CASE UndoRow(o)
    BY <1>s, <1>n, <1>8 DEF UndoRow, InPhase, kvVars, StoresTyped
  <1>9. CASE UndoGate(o)
    <2>1. strayed' \subseteq Session
      BY <1>n, <1>9 DEF UndoGate
    <2> QED
      BY <1>o, <1>n, <1>9, <2>1, ReconcileSteps DEF UndoGate, StoresTyped
  <1>10. CASE EndStart(o)
    <2>1. PICK targets \in SUBSET Session :
            First(targets) \in targets /\ dismantled' = dismantled \cup {First(targets)}
      BY <1>10, EndStartSteps
    <2> QED
      BY <1>n, <1>10, <2>1 DEF EndStart, kvVars, StoresTyped
  <1>11. CASE EndGate(o)
    BY <1>o, <1>n, <1>11, ReconcileSteps DEF EndGate, historyVars, StoresTyped
  <1>12. CASE EndScope(o)
    BY <1>n, <1>12 DEF EndScope, historyVars, StoresTyped
  <1>13. CASE EndClose(o)
    <2>1. dismantled' \subseteq Session
      <3>1. op[o].rest \in SUBSET Session
        BY DEF TableTyped, OpType
      <3> QED
        BY <1>n, <1>13, <3>1, EndCloseSteps
    <2>2. ended' = ended \cup {op[o].s} /\ op[o].s \in Session
      BY <1>s, <1>13 DEF EndClose, InPhase
    <2> QED
      BY <1>n, <1>13, <2>1, <2>2 DEF EndClose, kvVars, StoresTyped
  <1> QED
    BY <1>1, <1>2, <1>3, <1>4, <1>5, <1>6, <1>7, <1>8, <1>9, <1>10, <1>11, <1>12,
       <1>13 DEF Command

LEMMA StoresStep == TableTyped /\ StoresTyped /\ [Next]_vars => StoresTyped'
  <1> SUFFICES ASSUME TableTyped, StoresTyped, [Next]_vars PROVE StoresTyped'
    OBVIOUS
  <1>1. CASE Sweep \/ ChangeKeys
    BY <1>1 DEF Sweep, ChangeKeys, kvVars, historyVars, StoresTyped
  <1>2. CASE ScopeExpires
    BY <1>2 DEF ScopeExpires, historyVars, StoresTyped
  <1>3. CASE Tick
    <2>1. now' \in 0..MaxTime
      BY <1>3, SessionAssumption DEF Tick, StoresTyped
    <2> QED
      BY <1>3, <2>1 DEF Tick, kvVars, historyVars, StoresTyped
  <1>4. ASSUME (\E r \in Request : Serve(r)) \/ UNCHANGED vars
        PROVE  StoresTyped'
    <2>1. UNCHANGED <<now, gate, scope, dismantled, ended, strayed>>
      BY <1>4 DEF Serve, AskProxy, Ask, Send, ReadGate, ReadScope, VaultSign, VaultUnmetered,
                  Reflect, Lose, vars, sessionVars, kvVars, historyVars
    <2> QED
      BY <2>1 DEF StoresTyped
  <1> QED
    BY <1>1, <1>2, <1>3, <1>4, CommandStores DEF Next, SessionNext

LEMMA StoresKept == Spec => []StoresTyped
  BY StoresInit, StoresStep, TypesKept, PTL DEF Spec

\* The pairs that raced are sessions.
LEMMA RacedTyped == Spec => [](raced \subseteq SUBSET Session)
  <1> DEFINE R == raced \subseteq SUBSET Session
  <1>1. Init => R
    BY DEF Init, SessionInit
  <1>2. ASSUME TableTyped, R, [Next]_vars PROVE R'
    <2>1. CASE \E o \in Operator, s \in Session : StartCheck(o, s)
      <3>1. PICK o \in Operator, s \in Session : StartCheck(o, s)
        BY <2>1
      <3>2. ASSUME NEW p \in Operator, Starting(p) PROVE op[p].s \in Session
        <4>1. Progress(p)
          BY <1>2 DEF TableTyped
        <4> QED
          BY <3>2, <4>1 DEF Progress, Starting
      <3>3. raced' = raced \cup {{s, op[p].s} : p \in {q \in Operator : Starting(q)}}
        BY <3>1 DEF StartCheck
      <3>4. \A x \in {{s, op[p].s} : p \in {q \in Operator : Starting(q)}} : x \subseteq Session
        BY <3>2
      <3> QED
        BY <1>2, <3>3, <3>4
    <2>2. CASE ~\E o \in Operator, s \in Session : StartCheck(o, s)
      <3>1. raced' = raced
        <4>1. ASSUME NEW o \in Operator, Command(o) PROVE raced' = raced
          BY <2>2, <4>1
          DEF Command, StartInsert, StartFails, StartClear, StartScope, StartActivate,
              StartGate, UndoScope, UndoRow, UndoGate, EndStart, EndGate, EndScope,
              EndClose, Quit, historyVars
        <4>2. ASSUME NEW r \in Request, Serve(r) PROVE raced' = raced
          BY <4>2 DEF Serve, AskProxy, Ask, Send, ReadGate, ReadScope, VaultSign,
                      VaultUnmetered, Reflect, Lose, sessionVars, historyVars
        <4>3. CASE Sweep \/ ChangeKeys \/ ScopeExpires \/ Tick \/ UNCHANGED vars
          BY <4>3 DEF Sweep, ChangeKeys, ScopeExpires, Tick, vars, sessionVars, historyVars
        <4> QED
          BY <1>2, <4>1, <4>2, <4>3 DEF Next, SessionNext
      <3> QED
        BY <1>2, <3>1
    <2> QED
      BY <2>1, <2>2
  <1> QED
    BY <1>1, <1>2, TypesKept, PTL DEF Spec

\* The stores, the commands at work and the calls keep their types, for every
\* number of operators; a gate is never put with a time before now, since the
\* longest remaining time (_session_remaining_ttl_seconds) is none below zero.
THEOREM TypesAreKept == Spec => []TypeOK
  <1>1. TableTyped /\ CallInv /\ StoresTyped /\ raced \subseteq SUBSET Session => TypeOK
    BY DEF TableTyped, CallInv, CallsTyped, StoresTyped, TypeOK, SessionTypeOK, OpType,
           RowType, CallType
  <1> QED
    BY <1>1, TypesKept, StoresKept, RacedTyped, PTL

-----------------------------------------------------------------------------
(* One operator at a time: every open gate has a session that accounts for *)
(* it.  While a session is ended or undone, the gates that the command has *)
(* reconciled already are held by others than the session that goes.       *)

\* A session that may hold a gate open.
Standing(s) == row[s].st \in {"active", "expired", "closed"}

HeldWithout(c, s) == Open(c) => \E t \in Session \ {s} : Backs(t, c)

\* The consumers whose gates the command has yet to reconcile.
Pending(o) == IF op[o].ph \in {"undoGates", "endGates"} THEN op[o].todo ELSE {}

\* What the command at work knows of the gates, by its phase.
Reconciling(o) ==
  LET s == op[o].s IN
  /\ op[o].ph = "checked" => row[s].st = "none"
  /\ op[o].ph \in {"clear", "scopes", "activate"} => row[s].st = "pending"
  /\ op[o].ph \in {"gates", "undoGates", "endGates", "endScopes", "close"} =>
       \A t \in op[o].seen : t \notin ended /\ Standing(t)
  /\ op[o].ph = "undoGates" => row[s].st = "deleted" /\ op[o].todo \subseteq ConsumerScope[s]
  /\ op[o].ph \in {"endGates", "endScopes", "close"} =>
       Standing(s) /\ \A t \in op[o].rest : Standing(t)
  /\ op[o].ph \in {"undoGates", "endGates", "endScopes", "close"} =>
       s \notin op[o].seen /\ \A c \in ConsumerScope[s] \ Pending(o) : HeldWithout(c, s)

Lapsed ==
  /\ \A s \in ended : row[s].st \in {"expired", "closed", "deleted"}
  /\ \A s \in strayed : row[s].st = "deleted"

GateInv == Lapsed /\ GateBacked /\ \A o \in Operator : Reconciling(o)

AllTyped == TableTyped /\ StoresTyped

LEMMA GateInit == Init => GateInv
  BY DEF Init, SessionInit, GateInv, Lapsed, GateBacked, Open, Reconciling, Idle

\* Rows that only age, and time that passes, leave every gate its session.
LEMMA BackedKept ==
  ASSUME AllTyped, AllTyped', now' >= now, gate' = gate,
         \A t \in Session, c \in Consumer : Backs(t, c) => Backs(t, c)'
  PROVE  /\ GateBacked => GateBacked'
         /\ \A c \in Consumer, s \in Session : HeldWithout(c, s) => HeldWithout(c, s)'
  <1>1. \A c \in Consumer : Open(c)' => Open(c)
    <2> SUFFICES ASSUME NEW c \in Consumer, now' < gate[c] PROVE now < gate[c]
      BY DEF Open
    <2>1. now \in Nat /\ now' \in Nat /\ gate[c] \in Nat
      BY DEF AllTyped, TableTyped, StoresTyped
    <2> QED
      BY <2>1
  <1>2. GateBacked => GateBacked'
    BY <1>1 DEF GateBacked
  <1>3. \A c \in Consumer, s \in Session : HeldWithout(c, s) => HeldWithout(c, s)'
    BY <1>1 DEF HeldWithout
  <1> QED
    BY <1>2, <1>3

LEMMA StillBacks ==
  ASSUME NEW t \in Session, NEW c \in Consumer, Backs(t, c), gate' = gate,
         Standing(t) \/ t \in strayed =>
           /\ row'[t].expires = row[t].expires
           /\ Standing(t)' \/ t \in strayed',
         t \notin ended'
  PROVE  Backs(t, c)'
  <1>1. Standing(t) \/ t \in strayed
    BY DEF Backs, Standing
  <1> QED
    BY <1>1 DEF Backs, Standing

\* Rows age outside of the commands: they expire, and the limit closes them.
Ages ==
  \A s \in Session :
    /\ row'[s].expires = row[s].expires
    /\ \/ row'[s].st = row[s].st
       \/ row[s].st = "active" /\ row'[s].st \in {"expired", "closed"}

LEMMA AgesKept ==
  ASSUME AllTyped, AllTyped', GateInv, Ages, now' >= now, gate' = gate, op' = op,
         ended' = ended, strayed' = strayed
  PROVE  GateInv'
  <1>1. ended \subseteq Session /\ strayed \subseteq Session
    BY DEF AllTyped, StoresTyped
  <1>2. \A s \in Session : Standing(s) => Standing(s)'
    BY DEF Ages, Standing
  <1>3. \A t \in Session, c \in Consumer : Backs(t, c) => Backs(t, c)'
    <2> SUFFICES ASSUME NEW t \in Session, NEW c \in Consumer, Backs(t, c) PROVE Backs(t, c)'
      OBVIOUS
    <2>1. t \notin ended'
      BY DEF Backs
    <2> QED
      BY <1>2, <2>1, StillBacks DEF Ages
  <1>4. /\ GateBacked'
        /\ \A c \in Consumer, s \in Session : HeldWithout(c, s) => HeldWithout(c, s)'
    BY <1>3, BackedKept DEF GateInv
  <1>5. Lapsed'
    BY <1>1 DEF GateInv, Lapsed, Ages
  <1>6. ASSUME NEW o \in Operator PROVE Reconciling(o)'
    <2>s. PICK s : s = op[o].s
      OBVIOUS
    <2>1. /\ Reconciling(o) /\ (op[o].ph # "idle" => s \in Session)
          /\ op[o].seen \subseteq Session /\ op[o].rest \subseteq Session
      BY <2>s DEF GateInv, AllTyped, TableTyped, Progress, OpType
    <2>2. /\ op[o].ph = "checked" => row'[s].st = "none"
          /\ op[o].ph \in {"clear", "scopes", "activate"} => row'[s].st = "pending"
          /\ op[o].ph = "undoGates" => row'[s].st = "deleted" /\ op[o].todo \subseteq ConsumerScope[s]
      BY <2>s, <2>1 DEF Reconciling, Ages
    <2>3. /\ op[o].ph \in {"gates", "undoGates", "endGates", "endScopes", "close"} =>
               \A t \in op[o].seen : t \notin ended /\ Standing(t)'
          /\ op[o].ph \in {"endGates", "endScopes", "close"} =>
               Standing(s)' /\ \A t \in op[o].rest : Standing(t)'
      BY <1>2, <2>s, <2>1 DEF Reconciling
    <2>4. op[o].ph \in {"undoGates", "endGates", "endScopes", "close"} =>
            s \notin op[o].seen /\ \A c \in ConsumerScope[s] \ Pending(o) : HeldWithout(c, s)'
      <3>1. s \in Session => ConsumerScope[s] \subseteq Consumer
        BY SessionAssumption
      <3> QED
        BY <1>4, <2>s, <2>1, <3>1 DEF Reconciling
    <2>5. op'[o] = op[o] /\ Pending(o)' = Pending(o)
      BY DEF Pending
    <2> QED
      BY <2>s, <2>2, <2>3, <2>4, <2>5 DEF Reconciling
  <1> QED
    BY <1>4, <1>5, <1>6 DEF GateInv


-----------------------------------------------------------------------------
(* The steps of a command that leave the gates as they are.                *)

\* The sessions that may hold a gate open go on to, for as long.
Steady ==
  \A t \in Session : Standing(t) \/ t \in strayed =>
    row'[t].expires = row[t].expires /\ (Standing(t)' \/ t \in strayed')

LEMMA SteadyGates ==
  ASSUME AllTyped, AllTyped', GateInv, Steady, gate' = gate, now' = now, ended' = ended
  PROVE  /\ GateBacked'
         /\ \A c \in Consumer, s \in Session : HeldWithout(c, s) => HeldWithout(c, s)'
  <1>1. \A t \in Session, c \in Consumer : Backs(t, c) => Backs(t, c)'
    <2> SUFFICES ASSUME NEW t \in Session, NEW c \in Consumer, Backs(t, c) PROVE Backs(t, c)'
      OBVIOUS
    <2>1. t \notin ended'
      BY DEF Backs
    <2> QED
      BY <2>1, StillBacks DEF Steady
  <1>2. now' >= now
    BY DEF AllTyped, TableTyped
  <1> QED
    BY <1>1, <1>2, BackedKept DEF GateInv

\* The only operator's record is the one that the invariant speaks of.
LEMMA Together ==
  ASSUME OneOperator, NEW o \in Operator, Lapsed', GateBacked', Reconciling(o)'
  PROVE  GateInv'
  <1>1. \A p \in Operator : p = o
    BY DEF OneOperator
  <1> QED
    BY <1>1 DEF GateInv

\* A command that is over has nothing to reconcile.
LEMMA EndedReconciling ==
  ASSUME NEW o \in Operator, Ends(o)
  PROVE  Reconciling(o)'
  BY DEF Ends, Reconciling, Idle

LEMMA StartCheckGates ==
  ASSUME OneOperator, AllTyped, AllTyped', GateInv, NEW o \in Operator,
         NEW s \in Session, StartCheck(o, s)
  PROVE  GateInv'
  <1>u. /\ row' = Refreshed /\ gate' = gate /\ now' = now /\ row[s].st = "none"
        /\ ended' = ended /\ strayed' = strayed
    BY DEF StartCheck, kvVars, historyVars
  <1>a. Ages /\ now' >= now
    BY <1>u, RefreshedTyped DEF AllTyped, Ages, TableTyped
  <1>1. CASE Clashes(s)
    BY <1>u, <1>a, <1>1, AgesKept DEF StartCheck
  <1>2. CASE ~Clashes(s)
    <2>1. op'[o].ph = "checked" /\ op'[o].s = s
      BY <1>2, StartCheckSteps DEF AllTyped, Comes
    <2>2. Lapsed' /\ Steady
      BY <1>u, <1>a DEF Ages, GateInv, Lapsed, Steady, Standing, AllTyped, StoresTyped
    <2>3. row'[s].st = "none"
      BY <1>u, <1>a DEF Ages
    <2>4. Reconciling(o)'
      BY <2>1, <2>3 DEF Reconciling
    <2> QED
      BY <1>u, <2>2, <2>4, SteadyGates, Together
  <1> QED
    BY <1>1, <1>2

LEMMA StartInsertGates ==
  ASSUME OneOperator, AllTyped, AllTyped', GateInv, NEW o \in Operator,
         NEW s \in Session, s = op[o].s, StartInsert(o)
  PROVE  GateInv'
  <1>u. /\ row' = [row EXCEPT ![s] = [st |-> "pending", expires |-> op[o].until, signs |-> 0]]
        /\ gate' = gate /\ now' = now /\ ended' = ended /\ strayed' = strayed
        /\ op[o].ph = "checked"
    BY DEF StartInsert, InPhase, kvVars, historyVars
  <1>1. row[s].st = "none"
    BY <1>u DEF GateInv, Reconciling
  <1>2. /\ row'[s].st = "pending"
        /\ \A t \in Session : t # s => row'[t] = row[t]
    BY <1>u DEF AllTyped, TableTyped
  <1>3. s \notin ended /\ s \notin strayed /\ ~Standing(s)
    BY <1>1 DEF GateInv, Lapsed, Standing
  <1>4. Lapsed' /\ Steady
    BY <1>u, <1>2, <1>3 DEF GateInv, Lapsed, Steady, Standing, AllTyped, StoresTyped
  <1>5. op'[o].ph = "clear" /\ op'[o].s = s
    BY StartInsertSteps DEF AllTyped, Comes
  <1>6. Reconciling(o)'
    BY <1>2, <1>5 DEF Reconciling
  <1> QED
    BY <1>u, <1>4, <1>6, SteadyGates, Together


\* The steps over the scopes of a session that starts, and the failed call.
LEMMA StartScopesGates ==
  ASSUME OneOperator, AllTyped, AllTyped', GateInv, NEW o \in Operator,
         NEW s \in Session, s = op[o].s, StartClear(o) \/ StartScope(o) \/ StartFails(o)
  PROVE  GateInv'
  <1>u. /\ row' = row /\ gate' = gate /\ now' = now /\ ended' = ended /\ strayed' = strayed
    BY DEF StartClear, StartScope, StartFails, kvVars, historyVars
  <1>1. Lapsed' /\ Steady
    BY <1>u DEF GateInv, Lapsed, Steady, Standing
  <1>2. CASE StartClear(o) \/ StartScope(o)
    <2>1. row[s].st = "pending"
      BY <1>2 DEF GateInv, Reconciling, StartClear, StartScope, InPhase
    <2>2. op'[o].ph \in {"clear", "scopes", "activate"} /\ op'[o].s = s
      BY <1>2, StartClearSteps, StartScopeSteps DEF AllTyped, Comes
    <2> QED
      BY <1>u, <2>1, <2>2 , <1>1, SteadyGates, Together DEF Reconciling
  <1>3. CASE StartFails(o)
    <2>1. op'[o].ph = "undo"
      BY <1>3, StartFailsSteps DEF AllTyped, Comes
    <2> QED
      BY <1>u, <2>1, <1>1, SteadyGates, Together DEF Reconciling
  <1> QED
    BY <1>2, <1>3

LEMMA StartActivateGates ==
  ASSUME OneOperator, AllTyped, AllTyped', GateInv, NEW o \in Operator,
         NEW s \in Session, s = op[o].s, StartActivate(o)
  PROVE  GateInv'
  <1>u. /\ row' = [Refreshed EXCEPT ![s].st =
                     IF row[s].expires < now THEN "expired" ELSE "active"]
        /\ gate' = gate /\ now' = now /\ ended' = ended /\ strayed' = strayed
        /\ op[o].ph = "activate"
    BY DEF StartActivate, InPhase, kvVars, historyVars
  <1>1. row[s].st = "pending"
    BY <1>u DEF GateInv, Reconciling
  <1>2. s \notin ended /\ s \notin strayed /\ ~Standing(s)
    BY <1>1 DEF GateInv, Lapsed, Standing
  <1>3. \A t \in Session : t # s => row'[t] = Refreshed[t]
    BY <1>u, RefreshedTyped DEF AllTyped
  <1>4. Lapsed' /\ Steady
    BY <1>u, <1>2, <1>3, RefreshedTyped
    DEF GateInv, Lapsed, Steady, Standing, AllTyped, StoresTyped
  <1>5. op'[o].ph = "gates" /\ op'[o].seen = ActiveIn(row')
    BY StartActivateSteps DEF AllTyped, Comes
  <1>6. \A t \in op'[o].seen : t \notin ended' /\ Standing(t)'
    BY <1>4, <1>5 DEF ActiveIn, Lapsed, Standing
  <1>7. Reconciling(o)'
    BY <1>5, <1>6 DEF Reconciling
  <1> QED
    BY <1>u, <1>4, <1>7, SteadyGates, Together

LEMMA UndoRowGates ==
  ASSUME OneOperator, AllTyped, AllTyped', GateInv, NEW o \in Operator,
         NEW s \in Session, s = op[o].s, UndoRow(o)
  PROVE  GateInv'
  <1>u. /\ row' = [Refreshed EXCEPT ![s].st = "deleted"]
        /\ gate' = gate /\ now' = now /\ ended' = ended /\ strayed' = strayed \cup {s}
    BY DEF UndoRow, kvVars
  <1>1. /\ row'[s].st = "deleted" /\ row'[s].expires = row[s].expires
        /\ \A t \in Session : t # s => row'[t] = Refreshed[t]
    BY <1>u, RefreshedTyped DEF AllTyped, RowType
  <1>2. Lapsed' /\ Steady
    BY <1>u, <1>1, RefreshedTyped
    DEF GateInv, Lapsed, Steady, Standing, AllTyped, StoresTyped
  <1>3. /\ op'[o].ph = "undoGates" /\ op'[o].s = s
        /\ op'[o].seen = ActiveIn(row') /\ op'[o].todo = ConsumerScope[s]
    BY UndoRowSteps DEF AllTyped, Comes
  <1>4. \A t \in op'[o].seen : t \notin ended' /\ Standing(t)'
    BY <1>2, <1>3 DEF ActiveIn, Lapsed, Standing
  <1>5. s \notin op'[o].seen
    BY <1>1, <1>3 DEF ActiveIn
  <1>6. Pending(o)' = ConsumerScope[s]
    BY <1>3 DEF Pending
  <1>7. Reconciling(o)'
    BY <1>1, <1>3, <1>4, <1>5, <1>6 DEF Reconciling
  <1> QED
    BY <1>u, <1>2, <1>7, SteadyGates, Together

LEMMA EndStartGates ==
  ASSUME OneOperator, AllTyped, AllTyped', GateInv, NEW o \in Operator, EndStart(o)
  PROVE  GateInv'
  <1>u. /\ row' = Refreshed /\ gate' = gate /\ now' = now
        /\ ended' = ended /\ strayed' = strayed
    BY DEF EndStart, kvVars
  <1>1. Lapsed' /\ Steady
    BY <1>u, RefreshedTyped DEF GateInv, Lapsed, Steady, Standing, AllTyped, StoresTyped
  <1>2. PICK targets \in SUBSET Session :
          /\ targets \subseteq ActiveIn(Refreshed)
          /\ First(targets) \in targets
          /\ Comes(o, "endGates", First(targets), targets \ {First(targets)})
          /\ op'[o].seen = ActiveIn(Refreshed) \ {First(targets)}
          /\ op'[o].todo = ConsumerScope[First(targets)]
    BY EndStartSteps DEF AllTyped
  <1>3. PICK s \in Session : s = First(targets)
    BY <1>2
  <1>4. /\ op'[o].ph = "endGates" /\ op'[o].s = s /\ op'[o].rest = targets \ {s}
        /\ op'[o].seen = ActiveIn(row') \ {s} /\ op'[o].todo = ConsumerScope[s]
    BY <1>u, <1>2, <1>3 DEF Comes
  <1>5. \A t \in ActiveIn(row') : t \notin ended' /\ Standing(t)'
    BY <1>1 DEF ActiveIn, Lapsed, Standing
  <1>6. Standing(s)' /\ \A t \in targets : Standing(t)'
    BY <1>u, <1>2, <1>3, <1>5
  <1>7. Pending(o)' = ConsumerScope[s]
    BY <1>4 DEF Pending
  <1>8. Reconciling(o)'
    BY <1>4, <1>5, <1>6, <1>7 DEF Reconciling
  <1> QED
    BY <1>u, <1>1, <1>8, SteadyGates, Together

LEMMA EndScopeGates ==
  ASSUME OneOperator, AllTyped, AllTyped', GateInv, NEW o \in Operator,
         NEW s \in Session, s = op[o].s, EndScope(o)
  PROVE  GateInv'
  <1>u. /\ row' = row /\ gate' = gate /\ now' = now
        /\ ended' = ended /\ strayed' = strayed /\ op[o].ph = "endScopes"
    BY DEF EndScope, InPhase, historyVars
  <1>1. Lapsed' /\ Steady
    BY <1>u DEF GateInv, Lapsed, Steady, Standing
  <1>2. /\ GateBacked'
        /\ \A c \in Consumer : HeldWithout(c, s) => HeldWithout(c, s)'
    BY <1>u, <1>1, SteadyGates
  <1>3. /\ op'[o].ph \in {"close", "endScopes"} /\ op'[o].s = s
        /\ op'[o].rest = op[o].rest /\ op'[o].seen = op[o].seen
    BY EndScopeSteps DEF AllTyped, Comes
  <1>4. /\ \A t \in op[o].seen : t \notin ended /\ Standing(t)
        /\ Standing(s) /\ \A t \in op[o].rest : Standing(t)
        /\ s \notin op[o].seen /\ \A c \in ConsumerScope[s] \ Pending(o) : HeldWithout(c, s)
    BY <1>u DEF GateInv, Reconciling
  <1>5. \A t : Standing(t)' = Standing(t)
    BY <1>u DEF Standing
  <1>6. Pending(o) = {} /\ Pending(o)' = {} /\ ConsumerScope[s] \subseteq Consumer
    BY <1>u, <1>3, SessionAssumption DEF Pending
  <1>7. \A c \in ConsumerScope[s] \ Pending(o)' : HeldWithout(c, s)'
    BY <1>2, <1>4, <1>6
  <1>8. Reconciling(o)'
    BY <1>u, <1>3, <1>4, <1>5, <1>7 DEF Reconciling
  <1> QED
    BY <1>1, <1>2, <1>8, Together


\* What was ended goes out of the account of the gates, which were reconciled.
LEMMA EndCloseGates ==
  ASSUME OneOperator, AllTyped, AllTyped', GateInv, NEW o \in Operator,
         NEW s \in Session, s = op[o].s, EndClose(o)
  PROVE  GateInv'
  <1>u. /\ row' = [row EXCEPT ![s].st = IF @ = "active" THEN "closed" ELSE @]
        /\ gate' = gate /\ now' = now
        /\ ended' = ended \cup {s} /\ strayed' = strayed /\ op[o].ph = "close"
    BY DEF EndClose, InPhase, kvVars
  <1>1. /\ \A t \in op[o].seen : t \notin ended /\ Standing(t)
        /\ Standing(s) /\ \A t \in op[o].rest : Standing(t)
        /\ s \notin op[o].seen /\ \A c \in ConsumerScope[s] \ Pending(o) : HeldWithout(c, s)
    BY <1>u DEF GateInv, Reconciling
  <1>2. /\ row'[s].expires = row[s].expires
        /\ row'[s].st \in {"expired", "closed"}
        /\ \A t \in Session : t # s => row'[t] = row[t]
    BY <1>u, <1>1 DEF Standing, AllTyped, TableTyped, RowType
  <1>3. Lapsed'
    BY <1>u, <1>2 DEF GateInv, Lapsed, AllTyped, StoresTyped
  <1>4. ASSUME NEW c \in Consumer, NEW t \in Session \ {s}, Backs(t, c)
        PROVE  Backs(t, c)'
    BY <1>u, <1>2, <1>4 DEF Backs
  <1>5. GateBacked'
    <2> SUFFICES ASSUME NEW c \in Consumer, Open(c)
                 PROVE  \E t \in Session \ {s} : Backs(t, c)
      BY <1>u, <1>4 DEF GateBacked, Open
    <2>1. PICK t \in Session : Backs(t, c)
      BY DEF GateInv, GateBacked
    <2>2. CASE t = s
      <3>1. c \in ConsumerScope[s] /\ Pending(o) = {}
        BY <1>u, <2>1, <2>2 DEF Backs, Pending
      <3> QED
        BY <1>1, <3>1 DEF HeldWithout
    <2> QED
      BY <2>1, <2>2
  <1>6. CASE Ends(o)
    BY <1>3, <1>5, <1>6, EndedReconciling, Together
  <1>7. CASE ~Ends(o)
    <2>1. /\ First(op[o].rest) \in op[o].rest
          /\ Comes(o, "endGates", First(op[o].rest), op[o].rest \ {First(op[o].rest)})
          /\ op'[o].seen = op[o].seen \ {First(op[o].rest)}
          /\ op'[o].todo = ConsumerScope[First(op[o].rest)]
      BY <1>7, EndCloseSteps DEF AllTyped
    <2>2. PICK next \in Session : next = First(op[o].rest)
      BY <2>1 DEF AllTyped, TableTyped, OpType
    <2>3. /\ op'[o].ph = "endGates" /\ op'[o].s = next /\ op'[o].rest = op[o].rest \ {next}
          /\ op'[o].seen = op[o].seen \ {next} /\ op'[o].todo = ConsumerScope[next]
          /\ next \in op[o].rest
      BY <2>1, <2>2 DEF Comes
    <2>4. op[o].seen \subseteq Session /\ op[o].rest \subseteq Session
      BY DEF AllTyped, TableTyped, OpType
    <2>5. \A t \in Session : Standing(t) => Standing(t)'
      BY <1>2 DEF Standing
    <2>6. /\ \A t \in op[o].seen : t \notin ended' /\ Standing(t)'
          /\ \A t \in op[o].rest : Standing(t)'
      BY <1>u, <1>1, <2>4, <2>5
    <2>7. Pending(o)' = ConsumerScope[next]
      BY <2>3 DEF Pending
    <2>8. Reconciling(o)'
      BY <2>3, <2>6, <2>7 DEF Reconciling
    <2> QED
      BY <1>3, <1>5, <2>8, Together
  <1> QED
    BY <1>6, <1>7

-----------------------------------------------------------------------------
(* The steps that reconcile a gate.                                        *)

\* The gate that was reconciled is held by a session that the command has
\* read as active; the others are held as before, but by what stops to count
\* as undone.
LEMMA Reconciled ==
  ASSUME AllTyped, AllTyped', NEW c, NEW seen \in SUBSET Session, Reconcile(c, seen),
         row' = row, now' = now, ended' = ended,
         \A t \in seen : t \notin ended /\ Standing(t)
  PROVE  /\ \A d \in Consumer \ {c} : Open(d)' = Open(d)
         /\ \A d \in Consumer \ {c}, t \in Session :
              Backs(t, d) /\ (t \in strayed => t \in strayed') => Backs(t, d)'
         /\ c \in Consumer /\ Open(c)' => \E t \in seen : Backs(t, c)'
  <1>1. /\ \A d \in Consumer \ {c} : gate'[d] = gate[d]
        /\ c \in Consumer /\ gate'[c] # 0 =>
              \E t \in seen : /\ c \in ConsumerScope[t]
                              /\ gate'[c] <= row[t].expires + Latency
    BY ReconcileSteps DEF AllTyped
  <1>2. \A d \in Consumer \ {c} : Open(d)' = Open(d)
    BY <1>1 DEF Open
  <1>3. ASSUME NEW d \in Consumer \ {c}, NEW t \in Session, Backs(t, d),
               t \in strayed => t \in strayed'
        PROVE  Backs(t, d)'
    BY <1>1, <1>3 DEF Backs
  <1>4. ASSUME c \in Consumer, Open(c)'
        PROVE  \E t \in seen : Backs(t, c)'
    <2>1. gate'[c] # 0
      BY <1>4 DEF Open, AllTyped, StoresTyped
    <2>2. PICK t \in seen : /\ c \in ConsumerScope[t]
                            /\ gate'[c] <= row[t].expires + Latency
      BY <1>1, <1>4, <2>1
    <2>3. Backs(t, c)'
      BY <2>2 DEF Backs, Standing
    <2> QED
      BY <2>3
  <1> QED
    BY <1>2, <1>3, <1>4

\* As long as no session stops to count as undone, every gate has its session,
\* and what others than the session s held they hold.
LEMMA ReconciledKept ==
  ASSUME AllTyped, AllTyped', GateInv, NEW c, NEW seen \in SUBSET Session, Reconcile(c, seen),
         row' = row, now' = now, ended' = ended, strayed' = strayed,
         \A t \in seen : t \notin ended /\ Standing(t)
  PROVE  /\ Lapsed' /\ GateBacked'
         /\ \A s \in Session, d \in Consumer :
              s \notin seen /\ (d = c \/ HeldWithout(d, s)) => HeldWithout(d, s)'
  <1>1. Lapsed'
    BY DEF GateInv, Lapsed
  <1>2. GateBacked'
    <2> SUFFICES ASSUME NEW d \in Consumer, Open(d)' PROVE \E t \in Session : Backs(t, d)'
      BY DEF GateBacked
    <2>1. CASE d = c
      BY <2>1, Reconciled
    <2>2. CASE d # c
      <3>1. PICK t \in Session : Backs(t, d)
        BY <2>2, Reconciled DEF GateInv, GateBacked
      <3> QED
        BY <2>2, <3>1, Reconciled
    <2> QED
      BY <2>1, <2>2
  <1>3. ASSUME NEW s \in Session, NEW d \in Consumer, s \notin seen, Open(d)',
               d = c \/ HeldWithout(d, s)
        PROVE  \E t \in Session \ {s} : Backs(t, d)'
    <2>1. CASE d = c
      <3>1. PICK t \in seen : Backs(t, d)'
        BY <1>3, <2>1, Reconciled
      <3> QED
        BY <1>3, <3>1
    <2>2. CASE d # c
      <3>1. PICK t \in Session \ {s} : Backs(t, d)
        BY <1>3, <2>2, Reconciled DEF HeldWithout
      <3>2. Backs(t, d)'
        BY <2>2, <3>1, Reconciled
      <3> QED
        BY <3>2
    <2> QED
      BY <2>1, <2>2
  <1> QED
    BY <1>1, <1>2, <1>3 DEF HeldWithout


LEMMA StartGateGates ==
  ASSUME OneOperator, AllTyped, AllTyped', GateInv, NEW o \in Operator, StartGate(o)
  PROVE  GateInv'
  <1>u. /\ row' = row /\ now' = now /\ ended' = ended /\ strayed' = strayed
        /\ op[o].ph = "gates" /\ Reconcile(First(op[o].todo), op[o].seen)
    BY DEF StartGate, InPhase, historyVars
  <1>1. \A t \in op[o].seen : t \notin ended /\ Standing(t)
    BY <1>u DEF GateInv, Reconciling
  <1>2. op[o].seen \in SUBSET Session
    BY DEF AllTyped, TableTyped, OpType
  <1>3. Lapsed' /\ GateBacked'
    BY <1>u, <1>1, <1>2, ReconciledKept
  <1>4. CASE Ends(o)
    BY <1>3, <1>4, EndedReconciling, Together
  <1>5. CASE ~Ends(o)
    <2>1. op'[o].ph = "gates" /\ op'[o].seen = op[o].seen
      BY <1>u, <1>5, GateSteps DEF AllTyped, Comes
    <2>2. \A t \in op'[o].seen : t \notin ended' /\ Standing(t)'
      BY <1>u, <1>1, <2>1 DEF Standing
    <2>3. Reconciling(o)'
      BY <2>1, <2>2 DEF Reconciling
    <2> QED
      BY <1>3, <2>3, Together
  <1> QED
    BY <1>4, <1>5

\* The last gate of a session that goes is reconciled: the others hold all.
LEMMA EndGateGates ==
  ASSUME OneOperator, AllTyped, AllTyped', GateInv, NEW o \in Operator,
         NEW s \in Session, s = op[o].s, EndGate(o)
  PROVE  GateInv'
  <1> DEFINE c == First(op[o].todo)
  <1>u. /\ row' = row /\ now' = now /\ ended' = ended /\ strayed' = strayed
        /\ op[o].ph = "endGates" /\ Reconcile(c, op[o].seen)
    BY DEF EndGate, InPhase, historyVars
  <1>1. /\ \A t \in op[o].seen : t \notin ended /\ Standing(t)
        /\ Standing(s) /\ \A t \in op[o].rest : Standing(t)
        /\ s \notin op[o].seen /\ \A d \in ConsumerScope[s] \ op[o].todo : HeldWithout(d, s)
    BY <1>u DEF GateInv, Reconciling, Pending
  <1>2. op[o].seen \in SUBSET Session /\ ConsumerScope[s] \subseteq Consumer
    BY SessionAssumption DEF AllTyped, TableTyped, OpType
  <1>3. /\ Lapsed' /\ GateBacked'
        /\ \A d \in Consumer : (d = c \/ HeldWithout(d, s)) => HeldWithout(d, s)'
    BY <1>u, <1>1, <1>2, ReconciledKept
  <1>4. /\ op'[o].ph \in {"endScopes", "close", "endGates"}
        /\ op'[o].s = s /\ op'[o].rest = op[o].rest /\ op'[o].seen = op[o].seen
        /\ \/ op[o].todo \ {c} = {}
           \/ op'[o].ph = "endGates" /\ op'[o].todo = op[o].todo \ {c}
    BY EndGateSteps DEF AllTyped, Comes
  <1> HIDE DEF c
  <1>5. op[o].todo \ {c} \subseteq Pending(o)'
    BY <1>4 DEF Pending
  <1>6. \A d \in ConsumerScope[s] \ Pending(o)' : HeldWithout(d, s)'
    BY <1>1, <1>2, <1>3, <1>5
  <1>7. \A t : Standing(t)' = Standing(t)
    BY <1>u DEF Standing
  <1>8. Reconciling(o)'
    BY <1>u, <1>1, <1>4, <1>6, <1>7 DEF Reconciling
  <1> QED
    BY <1>3, <1>8, Together

\* The session of a gate that was the last to reconcile no longer counts as
\* undone; whatever it held, another session holds.
LEMMA UndoGateGates ==
  ASSUME OneOperator, AllTyped, AllTyped', GateInv, NEW o \in Operator,
         NEW s \in Session, s = op[o].s, UndoGate(o)
  PROVE  GateInv'
  <1> DEFINE c    == First(op[o].todo)
             last == Cardinality(op[o].todo) = 1
  <1>u. /\ row' = row /\ now' = now /\ ended' = ended
        /\ strayed' = IF last THEN strayed \ {s} ELSE strayed
        /\ op[o].ph = "undoGates" /\ Reconcile(c, op[o].seen)
        /\ last => Stop(o)
    BY DEF UndoGate, InPhase
  <1>1. /\ \A t \in op[o].seen : t \notin ended /\ Standing(t)
        /\ row[s].st = "deleted" /\ op[o].todo \subseteq ConsumerScope[s]
        /\ s \notin op[o].seen /\ \A d \in ConsumerScope[s] \ op[o].todo : HeldWithout(d, s)
    BY <1>u DEF GateInv, Reconciling, Pending
  <1>2. op[o].seen \in SUBSET Session /\ ConsumerScope[s] \subseteq Consumer
    BY SessionAssumption DEF AllTyped, TableTyped, OpType
  <1>3. CASE last
    <2>1. op[o].todo \subseteq {c}
      <3>1. IsFiniteSet(op[o].todo)
        BY <1>1, <1>2, SessionAssumption, FS_Subset
      <3>2. PICK x : op[o].todo = {x}
        BY <1>3, <3>1, FS_Singleton
      <3> QED
        BY <3>2, FirstIsIn
    <2>2. Lapsed'
      BY <1>u DEF GateInv, Lapsed
    <2>3. GateBacked'
      <3> SUFFICES ASSUME NEW d \in Consumer, Open(d)' PROVE \E t \in Session : Backs(t, d)'
        BY DEF GateBacked
      <3> HIDE DEF c, last
      <3>1. CASE d = c
        BY <1>u, <1>1, <1>2, <3>1, Reconciled
      <3>2. CASE d # c
        <4>1. PICK t \in Session : Backs(t, d)
          BY <1>u, <1>1, <1>2, <3>2, Reconciled DEF GateInv, GateBacked
        <4>2. PICK r \in Session \ {s} : Backs(r, d)
          <5>1. CASE t = s
            <6>1. d \in ConsumerScope[s] \ op[o].todo
              BY <2>1, <3>2, <4>1, <5>1 DEF Backs
            <6>2. Open(d)
              BY <1>u, <1>1, <1>2, <3>2, Reconciled
            <6> QED
              BY <1>1, <6>1, <6>2 DEF HeldWithout
          <5>2. CASE t # s
            BY <4>1, <5>2
          <5> QED
            BY <5>1, <5>2
        <4>3. r \in strayed => r \in strayed'
          BY <1>u
        <4>4. Backs(r, d)'
          BY <1>u, <1>1, <1>2, <3>2, <4>2, <4>3, Reconciled
        <4> QED
          BY <4>4
      <3> QED
        BY <3>1, <3>2
    <2>4. Ends(o)
      BY <1>u, <1>3, StopSteps DEF AllTyped, Ends
    <2> QED
      BY <2>2, <2>3, <2>4, EndedReconciling, Together
  <1>4. CASE ~last
    <2>1. strayed' = strayed
      BY <1>u, <1>4
    <2>2. /\ Lapsed' /\ GateBacked'
          /\ \A d \in Consumer : (d = c \/ HeldWithout(d, s)) => HeldWithout(d, s)'
      <3> HIDE DEF c, last
      <3> QED
        BY <1>u, <1>1, <1>2, <2>1, ReconciledKept
    <2>3. CASE Ends(o)
      BY <2>2, <2>3, EndedReconciling, Together
    <2>4. CASE ~Ends(o)
      <3>1. /\ op'[o].ph = "undoGates" /\ op'[o].s = s /\ op'[o].seen = op[o].seen
            /\ op[o].todo \ {c} \subseteq op'[o].todo /\ op'[o].todo \subseteq op[o].todo
        BY <1>u, <2>4, GateSteps DEF AllTyped, Comes
      <3> HIDE DEF c, last
      <3>2. Pending(o)' = op'[o].todo
        BY <3>1 DEF Pending
      <3>3. \A d \in ConsumerScope[s] \ Pending(o)' : HeldWithout(d, s)'
        BY <1>1, <1>2, <2>2, <3>1, <3>2
      <3>4. \A t : Standing(t)' = Standing(t)
        BY <1>u DEF Standing
      <3>5. row'[s].st = "deleted" /\ op'[o].todo \subseteq ConsumerScope[s]
        BY <1>u, <1>1, <3>1
      <3>6. \A t \in op'[o].seen : t \notin ended' /\ Standing(t)'
        BY <1>u, <1>1, <3>1, <3>4
      <3>7. s \notin op'[o].seen
        BY <1>1, <3>1
      <3>8. Reconciling(o)'
        BY <3>1, <3>3, <3>5, <3>6, <3>7 DEF Reconciling
      <3> QED
        BY <2>2, <3>8, Together
    <2> QED
      BY <2>3, <2>4
  <1> QED
    BY <1>3, <1>4

LEMMA CommandGates ==
  ASSUME OneOperator, AllTyped, AllTyped', GateInv, NEW o \in Operator, Command(o)
  PROVE  GateInv'
  <1>p. op[o].ph # "idle" => op[o].s \in Session
    BY DEF AllTyped, TableTyped, Progress
  <1>1. CASE \E s \in Session : StartCheck(o, s)
    BY <1>1, StartCheckGates
  <1>2. CASE StartInsert(o)
    BY <1>p, <1>2, StartInsertGates DEF StartInsert, InPhase
  <1>3. CASE StartClear(o) \/ StartScope(o) \/ StartFails(o)
    BY <1>p, <1>3, StartScopesGates DEF StartClear, StartScope, StartFails, InPhase
  <1>4. CASE StartActivate(o)
    BY <1>p, <1>4, StartActivateGates DEF StartActivate, InPhase
  <1>5. CASE StartGate(o)
    BY <1>5, StartGateGates
  <1>6. CASE UndoScope(o)
    <2>1. /\ row' = row /\ gate' = gate /\ now' = now /\ op' = op
          /\ ended' = ended /\ strayed' = strayed
      BY <1>6 DEF UndoScope, historyVars
    <2>2. Ages /\ now' >= now
      BY <2>1 DEF Ages, AllTyped, TableTyped
    <2> QED
      BY <2>1, <2>2, AgesKept
  <1>7. CASE UndoRow(o)
    BY <1>p, <1>7, UndoRowGates DEF UndoRow, InPhase
  <1>8. CASE UndoGate(o)
    BY <1>p, <1>8, UndoGateGates DEF UndoGate, InPhase
  <1>9. CASE EndStart(o)
    BY <1>9, EndStartGates
  <1>10. CASE EndGate(o)
    BY <1>p, <1>10, EndGateGates DEF EndGate, InPhase
  <1>11. CASE EndScope(o)
    BY <1>p, <1>11, EndScopeGates DEF EndScope, InPhase
  <1>12. CASE EndClose(o)
    BY <1>p, <1>12, EndCloseGates DEF EndClose, InPhase
  <1>13. CASE Quit(o)
    <2>1. /\ row' = row /\ gate' = gate /\ now' = now
          /\ ended' = ended /\ strayed' = strayed
      BY <1>13 DEF Quit, kvVars, historyVars
    <2>2. Lapsed' /\ Steady
      BY <2>1 DEF GateInv, Lapsed, Steady, Standing
    <2>3. Reconciling(o)'
      BY <1>13, QuitSteps, EndedReconciling DEF AllTyped
    <2> QED
      BY <2>1, <2>2, <2>3, SteadyGates, Together
  <1> QED
    BY <1>1, <1>2, <1>3, <1>4, <1>5, <1>6, <1>7, <1>8, <1>9, <1>10, <1>11, <1>12,
       <1>13 DEF Command

LEMMA GateStep ==
  ASSUME OneOperator, AllTyped, AllTyped', CallInv, GateInv, [Next]_vars
  PROVE  GateInv'
  <1>n. now \in Nat
    BY DEF AllTyped, TableTyped
  <1>1. ASSUME NEW o \in Operator, Command(o) PROVE GateInv'
    BY <1>1, CommandGates
  <1>2. CASE Sweep
    <2>1. /\ gate' = gate /\ now' >= now /\ op' = op /\ ended' = ended /\ strayed' = strayed
      BY <1>n, <1>2 DEF Sweep, kvVars, historyVars
    <2>2. Ages
      BY <1>2, RefreshedTyped DEF Sweep, Ages, AllTyped
    <2> QED
      BY <2>1, <2>2, AgesKept
  <1>3. ASSUME NEW r \in Request, Reflect(r) PROVE GateInv'
    <2>1. /\ gate' = gate /\ now' >= now /\ op' = op /\ ended' = ended /\ strayed' = strayed
      BY <1>n, <1>3 DEF Reflect, kvVars, historyVars
    <2>2. Ages
      BY <1>3, ReflectedRow, RefreshedTyped DEF Ages, AllTyped
    <2> QED
      BY <2>1, <2>2, AgesKept
  <1>4. ASSUME \/ ChangeKeys \/ ScopeExpires \/ Tick
               \/ \E r \in Request : Serve(r) /\ ~Reflect(r)
               \/ UNCHANGED vars
        PROVE  GateInv'
    <2>1. /\ row' = row /\ gate' = gate /\ op' = op /\ ended' = ended /\ strayed' = strayed
          /\ now' \in {now, now + 1}
      BY <1>4, ServeStays DEF ChangeKeys, ScopeExpires, Tick, vars, sessionVars, kvVars,
                              historyVars
    <2>2. Ages /\ now' >= now
      BY <1>n, <2>1 DEF Ages
    <2> QED
      BY <2>1, <2>2, AgesKept
  <1> QED
    BY <1>1, <1>2, <1>3, <1>4 DEF Next, SessionNext, Serve

\* With one operator at a time a gate stands open for a consumer only on
\* account of a session that is active, ran out or reached its limit, and not
\* beyond its time: whatever call to KV failed and wherever a command was
\* killed, no session that was ended with success, and none that was undone to
\* its last gate, leaves a consumer unlocked (_reconcile_active_consumer_gates).
THEOREM OpenGatesAreBacked ==
  ASSUME OneOperator
  PROVE  Spec => []GateBacked
  <1>1. AllTyped /\ AllTyped' /\ CallInv /\ GateInv /\ [Next]_vars => GateInv'
    BY GateStep
  <1>2. TableTyped /\ StoresTyped => AllTyped
    BY DEF AllTyped
  <1>3. GateInv => GateBacked
    BY DEF GateInv
  <1> QED
    BY <1>1, <1>2, <1>3, GateInit, TypesKept, StoresKept, PTL DEF Spec


-----------------------------------------------------------------------------
(* Any number of operators: the rows that the key service reads.           *)

\* A row becomes active once, not before it was inserted, for no longer than
\* its --ttl; it keeps its time from then on, and when it has come to its end
\* nothing but an undo touches it.  KeyService takes this for granted of the
\* commands (OpenSession, CloseSession).
RunsItsCourse(s) ==
  /\ row[s].st # "active" /\ row'[s].st = "active" =>
       row[s].st = "pending" /\ now <= row'[s].expires /\ row'[s].expires <= now + Ttl[s]
  /\ row[s].st \in {"active", "expired", "closed", "deleted"} =>
       /\ row'[s].expires = row[s].expires
       /\ row'[s].st \in {row[s].st, "expired", "closed", "deleted"}
  /\ row[s].st \in {"expired", "closed", "deleted"} =>
       row'[s].st \in {row[s].st, "deleted"} /\ row'[s].signs = row[s].signs

\* A session that has not been active.
Fresh(s) == row[s].st \in {"none", "pending"}

\* Nobody else is about a session that is being started.
Alone(o) == \A p \in Operator \ {o} : op[p].s # op[o].s

\* Where a command is tells how far its session has come.
Place(o) ==
  LET s == op[o].s IN
  /\ op[o].ph = "checked" => row[s].st = "none" /\ op[o].until <= now + Ttl[s]
  /\ op[o].ph \in {"clear", "scopes", "activate"} =>
       row[s].st = "pending" /\ row[s].expires <= now + Ttl[s]
  /\ \A t \in op[o].rest : ~Fresh(t)

Places == \A o \in Operator : Place(o) /\ (Starting(o) => Alone(o))

LEMMA PlacesInit == Init => Places
  BY DEF Init, SessionInit, Places, Place, Starting, Idle

\* Rows that have been active stay so, and those that have not are as they
\* were, but the one that the command is about.
RowsStay(o) ==
  \A t \in Session :
    /\ ~Fresh(t) => ~Fresh(t)'
    /\ Fresh(t) /\ t # op[o].s => /\ row'[t].st = row[t].st
                                  /\ row'[t].expires = row[t].expires

LEMMA PlacesKept ==
  ASSUME TableTyped, Places, NEW o \in Operator, Others(o), now' = now, RowsStay(o),
         Place(o)',
         \/ op'[o].s = op[o].s /\ (Starting(o)' => Starting(o))
         \/ op'[o].s = NoSession /\ ~Starting(o)'
         \/ op'[o].s \in Session /\ \A p \in Operator : op[p].s # op'[o].s
         \/ op'[o].s \in Session /\ ~Fresh(op'[o].s) /\ ~Starting(o)'
  PROVE  Places'
  <1>1. \A p \in Operator \ {o} : op'[p] = op[p]
    BY DEF Others
  <1>2. ASSUME NEW p \in Operator \ {o} PROVE Place(p)'
    <2>s. PICK s : s = op[p].s
      OBVIOUS
    <2>1. Place(p) /\ (Starting(p) => s \in Session /\ op[o].s # s)
      BY <2>s DEF Places, Alone, Starting, TableTyped, Progress
    <2>2. Starting(p) => Fresh(s)
      BY <2>s, <2>1 DEF Place, Starting, Fresh
    <2>3. Starting(p) => row'[s].st = row[s].st /\ row'[s].expires = row[s].expires
      BY <2>1, <2>2 DEF RowsStay
    <2>4. \A t \in op[p].rest : ~Fresh(t)'
      BY <2>1 DEF Place, RowsStay, TableTyped, OpType
    <2> QED
      BY <1>1, <2>s, <2>1, <2>3, <2>4 DEF Place, Starting
  <1>3. ASSUME NEW p \in Operator \ {o}, Starting(p)' PROVE Alone(p)'
    <2>1. Starting(p) /\ op[p].s \in Session
      BY <1>1, <1>3 DEF Starting, TableTyped, Progress
    <2>2. Alone(p) /\ Fresh(op[p].s)
      BY <2>1 DEF Places, Place, Starting, Fresh
    <2>3. op'[o].s # op[p].s
      BY <2>1, <2>2, SessionAssumption DEF Alone
    <2> QED
      BY <1>1, <2>2, <2>3 DEF Alone
  <1>4. ASSUME Starting(o)' PROVE Alone(o)'
    <2>1. \A p \in Operator \ {o} : op[p].s # op'[o].s
      BY <1>4 DEF Places, Alone
    <2> QED
      BY <1>1, <2>1 DEF Alone
  <1> QED
    BY <1>2, <1>3, <1>4 DEF Places

LEMMA RefreshStays ==
  ASSUME TableTyped, NEW o \in Operator, NEW s, s = op[o].s,
         \A t \in Session : t # s => row'[t] = Refreshed[t],
         s \in Session /\ ~Fresh(s) => ~Fresh(s)'
  PROVE  RowsStay(o)
  <1>1. ASSUME NEW t \in Session, t # s
        PROVE  /\ ~Fresh(t) => ~Fresh(t)'
               /\ Fresh(t) => row'[t].st = row[t].st /\ row'[t].expires = row[t].expires
    <2>1. row'[t] = Refreshed[t]
      BY <1>1
    <2> QED
      BY <2>1, RefreshedTyped DEF Fresh
  <1> QED
    BY <1>1 DEF RowsStay

LEMMA SameStays ==
  ASSUME NEW o \in Operator, row' = row
  PROVE  RowsStay(o)
  BY DEF RowsStay, Fresh

\* A command that only ends, or that goes on without its session being started.
LEMMA EndedPlace ==
  ASSUME NEW o \in Operator, Ends(o)
  PROVE  Place(o)' /\ op'[o].s = NoSession /\ ~Starting(o)'
  BY DEF Ends, Place, Starting, Idle

LEMMA LaterPlace ==
  ASSUME TableTyped, NEW o \in Operator, NEW ph \in Phase, NEW s, NEW rest \in SUBSET Session,
         Comes(o, ph, s, rest), ph \notin {"checked", "clear", "scopes", "activate"},
         \A t \in rest : ~Fresh(t)'
  PROVE  Place(o)' /\ op'[o].s = s /\ ~Starting(o)'
  BY DEF Comes, Place, Starting


LEMMA StartCheckPlaces ==
  ASSUME TableTyped, Places, NEW o \in Operator, NEW s \in Session, StartCheck(o, s)
  PROVE  Places'
  <1>u. /\ row' = Refreshed /\ now' = now /\ row[s].st = "none"
        /\ \A p \in Operator : op[p].s # s
    BY DEF StartCheck
  <1>1. RowsStay(o)
    <2>1. PICK t : t = op[o].s
      OBVIOUS
    <2>2. t \in Session /\ ~Fresh(t) => ~Fresh(t)'
      BY <1>u, RefreshedTyped DEF Fresh
    <2> QED
      BY <1>u, <2>1, <2>2, RefreshStays
  <1>2. CASE Clashes(s)
    <2>1. op' = op /\ Others(o)
      BY <1>2 DEF StartCheck, Others
    <2>2. Place(o)'
      <3>s. PICK t : t = op[o].s
        OBVIOUS
      <3>1. Place(o) /\ op[o].rest \subseteq Session /\ (Starting(o) => t \in Session)
        BY <3>s DEF Places, TableTyped, OpType, Starting, Progress
      <3>2. Starting(o) => row'[t].st = row[t].st /\ row'[t].expires = row[t].expires
        BY <1>u, <3>s, <3>1, RefreshedTyped DEF Place, Starting
      <3>3. \A r \in op[o].rest : ~Fresh(r)'
        BY <1>1, <3>1 DEF Place, RowsStay
      <3> QED
        BY <1>u, <2>1, <3>s, <3>1, <3>2, <3>3 DEF Place, Starting
    <2>3. Starting(o)' = Starting(o)
      BY <2>1 DEF Starting
    <2> QED
      BY <1>u, <1>1, <2>1, <2>2, <2>3, PlacesKept
  <1>3. CASE ~Clashes(s)
    <2>1. Comes(o, "checked", s, {}) /\ op'[o].until = now + Ttl[s]
      BY <1>3, StartCheckSteps
    <2>2. now + Ttl[s] \in Nat
      BY SessionAssumption DEF TableTyped
    <2>3. row'[s].st = "none"
      BY <1>u, RefreshedTyped
    <2>4. Place(o)'
      BY <1>u, <2>1, <2>2, <2>3 DEF Comes, Place
    <2> QED
      BY <1>u, <1>1, <2>1, <2>4, PlacesKept DEF Comes
  <1> QED
    BY <1>2, <1>3

LEMMA StartInsertPlaces ==
  ASSUME TableTyped, Places, NEW o \in Operator, NEW s \in Session, s = op[o].s,
         StartInsert(o)
  PROVE  Places'
  <1>u. /\ row' = [row EXCEPT ![s] = [st |-> "pending", expires |-> op[o].until, signs |-> 0]]
        /\ now' = now /\ op[o].ph = "checked"
    BY DEF StartInsert, InPhase
  <1>1. /\ row[s].st = "none" /\ op[o].until <= now + Ttl[s]
        /\ \A t \in op[o].rest : ~Fresh(t)
    BY <1>u DEF Places, Place
  <1>2. /\ row'[s].st = "pending" /\ row'[s].expires = op[o].until
        /\ \A t \in Session : t # s => row'[t] = row[t]
    BY <1>u DEF TableTyped
  <1>3. RowsStay(o)
    BY <1>1, <1>2 DEF RowsStay, Fresh
  <1>4. Comes(o, "clear", s, op[o].rest)
    BY StartInsertSteps
  <1>5. \A t \in op[o].rest : ~Fresh(t)'
    BY <1>1, <1>3 DEF RowsStay, TableTyped, OpType
  <1>6. Place(o)'
    BY <1>u, <1>1, <1>2, <1>4, <1>5 DEF Comes, Place
  <1> QED
    BY <1>u, <1>3, <1>4, <1>6, PlacesKept DEF Comes, Starting

\* The steps between the insertion and the activation, and the failed call.
LEMMA StartScopesPlaces ==
  ASSUME TableTyped, Places, NEW o \in Operator, NEW s \in Session, s = op[o].s,
         StartClear(o) \/ StartScope(o) \/ StartFails(o)
  PROVE  Places'
  <1>u. row' = row /\ now' = now
    BY DEF StartClear, StartScope, StartFails, historyVars
  <1>1. RowsStay(o)
    BY <1>u, SameStays
  <1>2. op[o].rest \subseteq Session /\ \A t \in op[o].rest : ~Fresh(t)'
    BY <1>u DEF Places, Place, Fresh, TableTyped, OpType
  <1>3. CASE StartClear(o) \/ StartScope(o)
    <2>1. /\ row[s].st = "pending" /\ row[s].expires <= now + Ttl[s] /\ Starting(o)
      BY <1>3 DEF StartClear, StartScope, InPhase, Places, Place, Starting
    <2>2. /\ op' \in [Operator -> OpType] /\ Others(o)
          /\ op'[o].s = s /\ op'[o].rest = op[o].rest
          /\ op'[o].ph \in {"clear", "scopes", "activate"}
      BY <1>3, StartClearSteps, StartScopeSteps DEF Comes
    <2>3. Place(o)'
      BY <1>u, <1>2, <2>1, <2>2 DEF Place
    <2> QED
      BY <1>u, <1>1, <2>1, <2>2, <2>3, PlacesKept
  <1>4. CASE StartFails(o)
    <2>1. Comes(o, "undo", s, op[o].rest)
      BY <1>4, StartFailsSteps
    <2>2. Place(o)' /\ op'[o].s = s /\ ~Starting(o)'
      BY <1>2, <2>1, LaterPlace DEF Phase
    <2> QED
      BY <1>u, <1>1, <2>1, <2>2, PlacesKept DEF Comes
  <1> QED
    BY <1>3, <1>4

\* The activation, and the undo of the row.
LEMMA StartUndoPlaces ==
  ASSUME TableTyped, Places, NEW o \in Operator, NEW s \in Session, s = op[o].s,
         StartActivate(o) \/ UndoRow(o)
  PROVE  Places'
  <1>1. PICK st \in {"active", "expired", "deleted"} : row' = [Refreshed EXCEPT ![s].st = st]
    BY DEF StartActivate, UndoRow
  <1>2. /\ row'[s].st = st /\ now' = now
        /\ \A t \in Session : t # s => row'[t] = Refreshed[t]
    BY <1>1, RefreshedTyped DEF RowType, StartActivate, UndoRow
  <1>3. RowsStay(o)
    <2>1. ~Fresh(s)'
      BY <1>2 DEF Fresh
    <2> QED
      BY <1>2, <2>1, RefreshStays
  <1>4. op[o].rest \in SUBSET Session /\ \A t \in op[o].rest : ~Fresh(t)'
    BY <1>3 DEF Places, Place, RowsStay, TableTyped, OpType
  <1>5. PICK ph \in {"gates", "undoGates"} : Comes(o, ph, s, op[o].rest)
    BY StartActivateSteps, UndoRowSteps
  <1>6. Place(o)' /\ op'[o].s = s /\ ~Starting(o)'
    BY <1>4, <1>5, LaterPlace DEF Phase
  <1> QED
    BY <1>2, <1>3, <1>5, <1>6, PlacesKept DEF Comes


\* The steps over gates and scopes that leave the rows alone, and the end of
\* a command.
LEMMA LoopsPlaces ==
  ASSUME TableTyped, Places, NEW o \in Operator,
         StartGate(o) \/ UndoGate(o) \/ EndGate(o) \/ EndScope(o) \/ Quit(o)
  PROVE  Places'
  <1>u. row' = row /\ now' = now
    BY DEF StartGate, UndoGate, EndGate, EndScope, Quit, historyVars
  <1>1. RowsStay(o)
    BY <1>u, SameStays
  <1>2. op[o].rest \in SUBSET Session /\ \A t \in op[o].rest : ~Fresh(t)'
    BY <1>u DEF Places, Place, Fresh, TableTyped, OpType
  <1>3. \/ Ends(o)
        \/ \E ph \in {"gates", "undoGates", "endGates", "endScopes", "close"} :
             Comes(o, ph, op[o].s, op[o].rest)
    <2>1. CASE StartGate(o) \/ UndoGate(o)
      <3>1. op[o].ph \in {"gates", "undoGates"}
        BY <2>1 DEF StartGate, UndoGate, InPhase
      <3> QED
        BY <2>1, <3>1, GateSteps
    <2>2. CASE EndGate(o) \/ EndScope(o) \/ Quit(o)
      BY <2>2, EndGateSteps, EndScopeSteps, QuitSteps
    <2> QED
      BY <2>1, <2>2
  <1>4. CASE Ends(o)
    BY <1>u, <1>1, <1>4, EndedPlace, PlacesKept DEF Ends
  <1>5. CASE ~Ends(o)
    <2>1. PICK ph \in {"gates", "undoGates", "endGates", "endScopes", "close"} :
            Comes(o, ph, op[o].s, op[o].rest)
      BY <1>3, <1>5
    <2>2. Place(o)' /\ op'[o].s = op[o].s /\ ~Starting(o)'
      BY <1>2, <2>1, LaterPlace DEF Phase
    <2> QED
      BY <1>u, <1>1, <2>1, <2>2, PlacesKept DEF Comes
  <1> QED
    BY <1>4, <1>5

LEMMA EndStartPlaces ==
  ASSUME TableTyped, Places, NEW o \in Operator, EndStart(o)
  PROVE  Places'
  <1>u. row' = Refreshed /\ now' = now
    BY DEF EndStart
  <1>1. RowsStay(o)
    <2>1. PICK t : t = op[o].s
      OBVIOUS
    <2>2. t \in Session /\ ~Fresh(t) => ~Fresh(t)'
      BY <1>u, RefreshedTyped DEF Fresh
    <2> QED
      BY <1>u, <2>1, <2>2, RefreshStays
  <1>2. PICK targets \in SUBSET Session :
          /\ targets \subseteq ActiveIn(Refreshed)
          /\ First(targets) \in targets
          /\ Comes(o, "endGates", First(targets), targets \ {First(targets)})
    BY EndStartSteps
  <1>3. \A t \in targets : ~Fresh(t) /\ ~Fresh(t)'
    BY <1>u, <1>2, RefreshedTyped DEF ActiveIn, Fresh
  <1>4. Place(o)' /\ op'[o].s = First(targets) /\ ~Starting(o)'
    BY <1>2, <1>3, LaterPlace DEF Phase
  <1> QED
    BY <1>u, <1>1, <1>2, <1>3, <1>4, PlacesKept DEF Comes

LEMMA EndClosePlaces ==
  ASSUME TableTyped, Places, NEW o \in Operator, NEW s \in Session, s = op[o].s, EndClose(o)
  PROVE  Places'
  <1>u. /\ row' = [row EXCEPT ![s].st = IF @ = "active" THEN "closed" ELSE @]
        /\ now' = now
    BY DEF EndClose
  <1>1. /\ row'[s].st = (IF row[s].st = "active" THEN "closed" ELSE row[s].st)
        /\ \A t \in Session : t # s => row'[t] = row[t]
    BY <1>u DEF TableTyped, RowType
  <1>2. RowsStay(o)
    BY <1>1 DEF RowsStay, Fresh
  <1>3. op[o].rest \in SUBSET Session /\ \A t \in op[o].rest : ~Fresh(t) /\ ~Fresh(t)'
    BY <1>2 DEF Places, Place, RowsStay, TableTyped, OpType
  <1>4. CASE Ends(o)
    BY <1>u, <1>2, <1>4, EndedPlace, PlacesKept DEF Ends
  <1>5. CASE ~Ends(o)
    <2>1. /\ First(op[o].rest) \in op[o].rest
          /\ Comes(o, "endGates", First(op[o].rest), op[o].rest \ {First(op[o].rest)})
      BY <1>5, EndCloseSteps
    <2>2. Place(o)' /\ op'[o].s = First(op[o].rest) /\ ~Starting(o)'
      BY <1>3, <2>1, LaterPlace DEF Phase
    <2> QED
      BY <1>u, <1>2, <1>3, <2>1, <2>2, PlacesKept DEF Comes
  <1> QED
    BY <1>4, <1>5

\* Rows that only age, and time that passes.
LEMMA PlacesAge ==
  ASSUME TableTyped, Places, Ages, now' \in Nat, now' >= now, op' = op
  PROVE  Places'
  <1>1. ASSUME NEW o \in Operator PROVE Place(o)' /\ (Starting(o)' => Alone(o)')
    <2>s. PICK s : s = op[o].s
      OBVIOUS
    <2>1. /\ Place(o) /\ (Starting(o) => Alone(o)) /\ op[o].rest \subseteq Session
          /\ (Starting(o) => s \in Session) /\ op[o].until \in Nat
      BY <2>s DEF Places, TableTyped, OpType, Starting, Progress
    <2>2. Starting(o) => row'[s].st = row[s].st /\ row'[s].expires = row[s].expires
      BY <2>s, <2>1 DEF Ages, Place, Starting
    <2>3. \A t \in op[o].rest : ~Fresh(t)'
      BY <2>1 DEF Place, Ages, Fresh
    <2>4. Starting(o) => /\ now \in Nat /\ Ttl[s] \in Nat /\ row[s].expires \in Nat
                         /\ op[o].until \in Nat
      BY <2>1, SessionAssumption DEF TableTyped, RowType
    <2>5. Starting(o) => /\ op[o].until <= now + Ttl[s] => op[o].until <= now' + Ttl[s]
                         /\ row[s].expires <= now + Ttl[s] => row[s].expires <= now' + Ttl[s]
      BY <2>4
    <2>6. Place(o)'
      BY <2>s, <2>1, <2>2, <2>3, <2>5 DEF Place, Starting
    <2> QED
      BY <2>1, <2>6 DEF Starting, Alone
  <1> QED
    BY <1>1 DEF Places

LEMMA PlacesStep ==
  ASSUME TableTyped, TableTyped', CallInv, Places, [Next]_vars
  PROVE  Places'
  <1>n. now \in Nat /\ now' \in Nat
    BY DEF TableTyped
  <1>1. ASSUME NEW o \in Operator, Command(o) PROVE Places'
    <2>p. op[o].ph # "idle" => op[o].s \in Session
      BY DEF TableTyped, Progress
    <2>1. CASE \E s \in Session : StartCheck(o, s)
      BY <2>1, StartCheckPlaces
    <2>2. CASE StartInsert(o)
      BY <2>p, <2>2, StartInsertPlaces DEF StartInsert, InPhase
    <2>3. CASE StartClear(o) \/ StartScope(o) \/ StartFails(o)
      BY <2>p, <2>3, StartScopesPlaces DEF StartClear, StartScope, StartFails, InPhase
    <2>4. CASE StartActivate(o) \/ UndoRow(o)
      BY <2>p, <2>4, StartUndoPlaces DEF StartActivate, UndoRow, InPhase
    <2>5. CASE StartGate(o) \/ UndoGate(o) \/ EndGate(o) \/ EndScope(o) \/ Quit(o)
      BY <2>5, LoopsPlaces
    <2>6. CASE EndStart(o)
      BY <2>6, EndStartPlaces
    <2>7. CASE EndClose(o)
      BY <2>p, <2>7, EndClosePlaces DEF EndClose, InPhase
    <2>8. CASE UndoScope(o)
      <3>1. row' = row /\ now' = now /\ op' = op
        BY <2>8 DEF UndoScope, historyVars
      <3>2. Ages /\ now' >= now
        BY <1>n, <3>1 DEF Ages
      <3> QED
        BY <1>n, <3>1, <3>2, PlacesAge
    <2> QED
      BY <1>1, <2>1, <2>2, <2>3, <2>4, <2>5, <2>6, <2>7, <2>8 DEF Command
  <1>2. CASE Sweep
    <2>1. op' = op /\ now' >= now
      BY <1>n, <1>2 DEF Sweep
    <2>2. Ages
      BY <1>2, RefreshedTyped DEF Sweep, Ages
    <2> QED
      BY <1>n, <2>1, <2>2, PlacesAge
  <1>3. ASSUME NEW r \in Request, Reflect(r) PROVE Places'
    <2>1. op' = op /\ now' >= now
      BY <1>n, <1>3 DEF Reflect
    <2>2. Ages
      BY <1>3, ReflectedRow, RefreshedTyped DEF Ages
    <2> QED
      BY <1>n, <2>1, <2>2, PlacesAge
  <1>4. ASSUME \/ ChangeKeys \/ ScopeExpires \/ Tick
               \/ \E r \in Request : Serve(r) /\ ~Reflect(r)
               \/ UNCHANGED vars
        PROVE  Places'
    <2>1. row' = row /\ op' = op /\ now' \in {now, now + 1}
      BY <1>4, ServeStays DEF ChangeKeys, ScopeExpires, Tick, vars, sessionVars, kvVars,
                              historyVars
    <2>2. Ages /\ now' >= now
      BY <1>n, <2>1 DEF Ages
    <2> QED
      BY <1>n, <2>1, <2>2, PlacesAge
  <1> QED
    BY <1>1, <1>2, <1>3, <1>4 DEF Next, SessionNext, Serve

LEMMA PlacesInvariant == Spec => []Places
  BY PlacesInit, PlacesStep, TypesKept, PTL DEF Spec

LEMMA CourseStep ==
  ASSUME TableTyped, TableTyped', CallInv, Places, [Next]_vars, NEW s \in Session
  PROVE  RunsItsCourse(s)
  <1>t. /\ row[s] \in RowType /\ Refreshed[s] \in RowType
        /\ Refreshed[s].expires = row[s].expires /\ Refreshed[s].signs = row[s].signs
        /\ \/ Refreshed[s].st = row[s].st
           \/ row[s].st = "active" /\ Refreshed[s].st = "expired"
    BY RefreshedTyped DEF TableTyped
  <1>1. ASSUME row'[s] \in {row[s], Refreshed[s]} PROVE RunsItsCourse(s)
    BY <1>t, <1>1 DEF RunsItsCourse
  <1>2. ASSUME NEW o \in Operator, Command(o) PROVE RunsItsCourse(s)
    <2>1. CASE StartInsert(o)
      <3>1. /\ op[o].ph = "checked"
            /\ row' = [row EXCEPT ![op[o].s] =
                         [st |-> "pending", expires |-> op[o].until, signs |-> 0]]
        BY <2>1 DEF StartInsert, InPhase
      <3>2. CASE s = op[o].s
        <4>1. row[s].st = "none"
          BY <3>1, <3>2 DEF Places, Place
        <4>2. row'[s].st = "pending"
          BY <3>1, <3>2 DEF TableTyped
        <4> QED
          BY <4>1, <4>2 DEF RunsItsCourse
      <3>3. CASE s # op[o].s
        BY <1>1, <3>1, <3>3 DEF TableTyped
      <3> QED
        BY <3>2, <3>3
    <2>2. CASE StartActivate(o)
      <3>1. /\ op[o].ph = "activate"
            /\ row' = [Refreshed EXCEPT ![op[o].s].st =
                         IF row[op[o].s].expires < now THEN "expired" ELSE "active"]
        BY <2>2 DEF StartActivate, InPhase
      <3>2. CASE s = op[o].s
        <4>1. row[s].st = "pending" /\ row[s].expires <= now + Ttl[s]
          BY <3>1, <3>2 DEF Places, Place
        <4>2. /\ row'[s].st = (IF row[s].expires < now THEN "expired" ELSE "active")
              /\ row'[s].expires = row[s].expires
          BY <1>t, <3>1, <3>2, RefreshedTyped DEF RowType
        <4>3. row[s].expires \in Nat /\ now \in Nat
          BY <1>t DEF RowType, TableTyped
        <4>4. row'[s].st = "active" => now <= row'[s].expires
          BY <4>2, <4>3
        <4> QED
          BY <4>1, <4>2, <4>4 DEF RunsItsCourse
      <3>3. CASE s # op[o].s
        BY <1>1, <3>1, <3>3, RefreshedTyped
      <3> QED
        BY <3>2, <3>3
    <2>3. CASE UndoRow(o)
      <3>1. row' = [Refreshed EXCEPT ![op[o].s].st = "deleted"]
        BY <2>3 DEF UndoRow
      <3>2. CASE s = op[o].s
        <4>1. /\ row'[s].st = "deleted" /\ row'[s].expires = row[s].expires
              /\ row'[s].signs = row[s].signs
          BY <1>t, <3>1, <3>2, RefreshedTyped DEF RowType
        <4> QED
          BY <4>1 DEF RunsItsCourse
      <3>3. CASE s # op[o].s
        BY <1>1, <3>1, <3>3, RefreshedTyped
      <3> QED
        BY <3>2, <3>3
    <2>4. CASE EndClose(o)
      <3>1. row' = [row EXCEPT ![op[o].s].st = IF @ = "active" THEN "closed" ELSE @]
        BY <2>4 DEF EndClose
      <3>2. CASE s = op[o].s
        <4>1. /\ row'[s].st = (IF row[s].st = "active" THEN "closed" ELSE row[s].st)
              /\ row'[s].expires = row[s].expires /\ row'[s].signs = row[s].signs
          BY <1>t, <3>1, <3>2 DEF TableTyped, RowType
        <4> QED
          BY <4>1 DEF RunsItsCourse
      <3>3. CASE s # op[o].s
        BY <1>1, <3>1, <3>3 DEF TableTyped
      <3> QED
        BY <3>2, <3>3
    <2>5. ASSUME ~StartInsert(o), ~StartActivate(o), ~UndoRow(o), ~EndClose(o)
          PROVE  row' \in {row, Refreshed}
      BY <1>2, <2>5 DEF Command, StartCheck, StartClear, StartScope, StartGate, StartFails,
                        UndoScope, UndoGate, EndStart, EndGate, EndScope, Quit
    <2> QED
      BY <1>1, <2>1, <2>2, <2>3, <2>4, <2>5
  <1>3. ASSUME NEW r \in Request, Reflect(r) PROVE RunsItsCourse(s)
    <2>1. \/ row'[s] = Refreshed[s]
          \/ /\ row'[s].expires = row[s].expires /\ Refreshed[s].st = "active"
             /\ row'[s].st \in {"active", "closed"}
      BY <1>3, ReflectedRow
    <2> QED
      BY <1>1, <1>t, <2>1 DEF RunsItsCourse
  <1>4. ASSUME \/ Sweep \/ ChangeKeys \/ ScopeExpires \/ Tick
               \/ \E r \in Request : Serve(r) /\ ~Reflect(r)
               \/ UNCHANGED vars
        PROVE  row' \in {row, Refreshed}
    BY <1>4, ServeStays DEF Sweep, ChangeKeys, ScopeExpires, Tick, vars, sessionVars
  <1> QED
    BY <1>1, <1>2, <1>3, <1>4 DEF Next, SessionNext, Serve

\* Whatever number of operators start, undo and end sessions at the same time,
\* and though the key service expires rows and closes those that reached their
\* limit: a session is active once, for no longer than its --ttl, and none that
\* expired, was ended or was undone comes back (run_session_start,
\* run_session_end, _expire_active_sessions, _reflect_session_ssh_sign).
THEOREM SessionsRunTheirCourse == Spec => [][\A s \in Session : RunsItsCourse(s)]_vars
  <1>1. TableTyped /\ TableTyped' /\ CallInv /\ Places /\ [Next]_vars =>
          [\A s \in Session : RunsItsCourse(s)]_vars
    BY CourseStep
  <1> QED
    BY <1>1, TypesKept, PlacesInvariant, PTL DEF Spec

-----------------------------------------------------------------------------
(* Any number of operators: what overlaps was started at the same time.    *)

\* The sessions that are active, or on their way to it since their check.
Claims(s) == Active(s) \/ \E o \in Operator : Starting(o) /\ op[o].s = s

RaceInv ==
  /\ \A s \in Session : Claims(s) => Aware(s)
  /\ \A s, t \in Session :
       s # t /\ Claims(s) /\ Claims(t) => {s, t} \in raced \/ Disjoint(s, t)

LEMMA RaceInit == Init => RaceInv
  BY DEF Init, SessionInit, RaceInv, Claims, Active, Starting, Idle

\* Keys come and go, and sessions that do not claim anything anew.
LEMMA RaceKept ==
  ASSUME TableTyped, RaceInv, keyState' = keyState \/ ChangeKeys, raced \subseteq raced',
         \A s \in Session : Claims(s)' => Claims(s)
  PROVE  RaceInv'
  <1>k. \A k \in Key :
          /\ keyState[k] = "revoked" => keyState'[k] \in {"revoked", "again"}
          /\ keyState[k] = "again" => keyState'[k] = "again"
          /\ keyState[k] # "new" => keyState'[k] # "new"
    BY KeysChange
  <1>s. \A s \in Session : KeyScope[s] \subseteq Key
    BY SessionAssumption
  <1>1. \A s \in Session : Aware(s) => Aware(s)'
    BY <1>k, <1>s DEF Aware
  <1>2. \A s, t \in Session : Disjoint(s, t) => Disjoint(s, t)'
    BY <1>k, <1>s DEF Disjoint, Gone
  <1> QED
    BY <1>1, <1>2 DEF RaceInv

\* A start that passes its check joins the pairs that race.
LEMMA StartCheckRaces ==
  ASSUME TableTyped, RaceInv, NEW o \in Operator, NEW s \in Session, StartCheck(o, s)
  PROVE  RaceInv'
  <1>u. /\ row' = Refreshed /\ keyState' = keyState /\ KeyScope[s] \subseteq Live
        /\ raced' = raced \cup {{s, op[p].s} : p \in {q \in Operator : Starting(q)}}
    BY DEF StartCheck
  <1>1. \A t \in Session : Active(t)' => t \in ActiveIn(Refreshed) /\ Active(t)
    BY <1>u, RefreshedTyped DEF Active, ActiveIn
  <1>2. CASE Clashes(s)
    <2>1. op' = op
      BY <1>2 DEF StartCheck
    <2>2. \A t \in Session : Claims(t)' => Claims(t)
      BY <1>1, <2>1 DEF Claims, Starting
    <2> QED
      BY <1>u, <2>2, RaceKept
  <1>3. CASE ~Clashes(s)
    <2>1. Others(o) /\ op'[o].s = s
      BY <1>3, StartCheckSteps DEF Comes
    <2>2. ASSUME NEW t \in Session, t # s, Claims(t)'
          PROVE  Claims(t) /\ ({s, t} \in raced' \/ Disjoint(s, t))
      <3>1. CASE Active(t)'
        <4>1. t \in ActiveIn(Refreshed) /\ Claims(t)
          BY <1>1, <3>1 DEF Claims
        <4>2. Aware(t)
          BY <4>1 DEF RaceInv
        <4> QED
          BY <1>u, <1>3, <4>1, <4>2, CheckedIsDisjoint
      <3>2. CASE ~Active(t)'
        <4>1. PICK p \in Operator : Starting(p)' /\ op'[p].s = t
          BY <2>2, <3>2 DEF Claims
        <4>2. Starting(p) /\ op[p].s = t
          BY <2>1, <2>2, <4>1 DEF Others, Starting
        <4> QED
          BY <1>u, <4>2 DEF Claims
      <3> QED
        BY <3>1, <3>2
    <2>3. Aware(s)
      BY <1>u DEF Aware, Live
    <2>4. \A t \in Session : Aware(t)' <=> Aware(t)
      BY <1>u DEF Aware
    <2>5. \A t, v \in Session : Disjoint(t, v)' <=> Disjoint(t, v)
      BY <1>u DEF Disjoint, Gone
    <2>6. ASSUME NEW t \in Session, Claims(t)' PROVE Aware(t)'
      BY <2>2, <2>3, <2>4, <2>6 DEF RaceInv
    <2>7. ASSUME NEW t \in Session, NEW v \in Session, t # v, Claims(t)', Claims(v)'
          PROVE  {t, v} \in raced' \/ Disjoint(t, v)'
      <3>1. CASE t = s
        BY <2>2, <2>5, <2>7, <3>1
      <3>2. CASE v = s
        <4>1. {s, t} \in raced' \/ Disjoint(s, t)
          BY <2>2, <2>7, <3>2
        <4>2. {t, v} = {s, t} /\ (Disjoint(s, t) => Disjoint(t, s))
          BY <3>2 DEF Disjoint
        <4> QED
          BY <2>5, <3>2, <4>1, <4>2
      <3>3. CASE t # s /\ v # s
        BY <1>u, <2>2, <2>5, <2>7, <3>3 DEF RaceInv
      <3> QED
        BY <3>1, <3>2, <3>3
    <2> QED
      BY <2>6, <2>7 DEF RaceInv
  <1> QED
    BY <1>2, <1>3

\* In the other steps of a command a start goes on, or it is over.
GoesOn(o) ==
  /\ op' \in [Operator -> OpType]
  /\ Others(o)
  /\ Starting(o)' => Starting(o) /\ op'[o].s = op[o].s

LEMMA CommandGoesOn ==
  ASSUME TableTyped, NEW o \in Operator, Command(o), \A s \in Session : ~StartCheck(o, s)
  PROVE  GoesOn(o)
  <1>1. CASE StartInsert(o) \/ StartClear(o) \/ StartScope(o)
    BY <1>1, StartInsertSteps, StartClearSteps, StartScopeSteps
    DEF GoesOn, Comes, Starting, StartInsert, StartClear, StartScope, InPhase
  <1>2. CASE StartFails(o) \/ StartActivate(o) \/ UndoRow(o)
    BY <1>2, StartFailsSteps, StartActivateSteps, UndoRowSteps DEF GoesOn, Comes, Starting
  <1>3. CASE StartGate(o) \/ UndoGate(o)
    <2>1. op[o].ph \in {"gates", "undoGates"}
      BY <1>3 DEF StartGate, UndoGate, InPhase
    <2> QED
      BY <1>3, <2>1, GateSteps DEF GoesOn, Ends, Comes, Starting, Idle
  <1>4. CASE EndGate(o) \/ EndScope(o) \/ Quit(o) \/ EndClose(o)
    BY <1>4, EndGateSteps, EndScopeSteps, QuitSteps, EndCloseSteps
    DEF GoesOn, Ends, Comes, Starting, Idle
  <1>5. CASE EndStart(o)
    BY <1>5, EndStartSteps DEF GoesOn, Comes, Starting
  <1>6. CASE UndoScope(o)
    BY <1>6 DEF UndoScope, GoesOn, Others, Starting, TableTyped
  <1> QED
    BY <1>1, <1>2, <1>3, <1>4, <1>5, <1>6 DEF Command

LEMMA NoneElseActive ==
  ASSUME TableTyped, NEW o \in Operator, Command(o), NEW s \in Session, Active(s)',
         ~(StartActivate(o) /\ s = op[o].s)
  PROVE  Active(s)
  <1>p. op[o].ph # "idle" => op[o].s \in Session
    BY DEF TableTyped, Progress
  <1>1. CASE row' = Refreshed \/ row' = row
    BY <1>1, RefreshedTyped DEF Active
  <1>2. CASE StartActivate(o)
    <2>1. s # op[o].s /\ row'[s] = Refreshed[s]
      BY <1>2, RefreshedTyped DEF StartActivate
    <2> QED
      BY <2>1, RefreshedTyped DEF Active
  <1>3. CASE UndoRow(o)
    <2>1. row' = [Refreshed EXCEPT ![op[o].s].st = "deleted"]
      BY <1>3 DEF UndoRow
    <2>2. row'[s].st = "deleted" \/ row'[s] = Refreshed[s]
      BY <2>1, RefreshedTyped DEF RowType
    <2> QED
      BY <2>2, RefreshedTyped DEF Active
  <1>4. CASE StartInsert(o)
    <2>1. row' = [row EXCEPT ![op[o].s] =
                    [st |-> "pending", expires |-> op[o].until, signs |-> 0]]
      BY <1>4 DEF StartInsert
    <2>2. row'[s].st = "pending" \/ row'[s] = row[s]
      BY <2>1 DEF TableTyped
    <2> QED
      BY <2>2 DEF Active
  <1>5. CASE EndClose(o)
    <2>1. row' = [row EXCEPT ![op[o].s].st = IF @ = "active" THEN "closed" ELSE @]
      BY <1>5 DEF EndClose
    <2>2. row'[s].st = "active" => row[s].st = "active"
      BY <2>1 DEF TableTyped, RowType
    <2> QED
      BY <2>2 DEF Active
  <1>6. ASSUME ~StartInsert(o), ~StartActivate(o), ~UndoRow(o), ~EndClose(o)
        PROVE  row' \in {row, Refreshed}
    BY <1>6 DEF Command, StartCheck, StartClear, StartScope, StartGate, StartFails,
                UndoScope, UndoGate, EndStart, EndGate, EndScope, Quit
  <1> QED
    BY <1>1, <1>2, <1>3, <1>4, <1>5, <1>6

LEMMA OutsideSettles ==
  ASSUME TableTyped, CallInv, [Next]_vars, ~\E o \in Operator : Command(o)
  PROVE  /\ op' = op /\ raced' = raced /\ (keyState' = keyState \/ ChangeKeys)
         /\ \A s \in Session : Active(s)' => Active(s)
  <1>1. CASE Sweep
    BY <1>1, RefreshedTyped DEF Sweep, historyVars, Active
  <1>2. ASSUME NEW r \in Request, Reflect(r)
        PROVE  /\ op' = op /\ raced' = raced /\ keyState' = keyState
               /\ \A s \in Session : Active(s)' => Active(s)
    BY <1>2, ReflectedRow, RefreshedTyped DEF Reflect, historyVars, Active
  <1>3. CASE ChangeKeys \/ ScopeExpires \/ Tick
    BY <1>3 DEF ChangeKeys, ScopeExpires, Tick, historyVars, Active
  <1>4. CASE (\E r \in Request : Serve(r) /\ ~Reflect(r)) \/ UNCHANGED vars
    BY <1>4, ServeStays DEF vars, sessionVars, historyVars, Active
  <1> QED
    BY <1>1, <1>2, <1>3, <1>4 DEF Next, SessionNext, Serve

LEMMA RaceStep ==
  ASSUME TableTyped, CallInv, RaceInv, [Next]_vars
  PROVE  RaceInv'
  <1>1. ASSUME NEW o \in Operator, Command(o) PROVE RaceInv'
    <2>1. CASE \E s \in Session : StartCheck(o, s)
      BY <2>1, StartCheckRaces
    <2>2. CASE \A s \in Session : ~StartCheck(o, s)
      <3>1. GoesOn(o) /\ keyState' = keyState /\ raced' = raced
        BY <1>1, <2>2, CommandGoesOn
        DEF Command, StartInsert, StartFails, StartClear, StartScope, StartActivate,
            StartGate, UndoScope, UndoRow, UndoGate, EndStart, EndGate, EndScope, EndClose,
            Quit, historyVars
      <3>2. ASSUME NEW s \in Session, Active(s)' PROVE Claims(s)
        <4>1. CASE StartActivate(o) /\ s = op[o].s
          BY <4>1 DEF StartActivate, InPhase, Starting, Claims
        <4>2. CASE ~(StartActivate(o) /\ s = op[o].s)
          BY <1>1, <2>2, <3>2, <4>2, NoneElseActive DEF Claims
        <4> QED
          BY <4>1, <4>2
      <3>3. \A s \in Session : Claims(s)' => Claims(s)
        <4>1. \A p \in Operator : Starting(p)' => Starting(p) /\ op'[p].s = op[p].s
          BY <3>1 DEF GoesOn, Others, Starting
        <4> QED
          BY <3>2, <4>1 DEF Claims
      <3> QED
        BY <3>1, <3>3, RaceKept
    <2> QED
      BY <2>1, <2>2
  <1>2. ASSUME ~\E o \in Operator : Command(o) PROVE RaceInv'
    <2>1. /\ op' = op /\ raced' = raced /\ (keyState' = keyState \/ ChangeKeys)
          /\ \A s \in Session : Active(s)' => Active(s)
      BY <1>2, OutsideSettles
    <2>2. \A s \in Session : Claims(s)' => Claims(s)
      BY <2>1 DEF Claims, Starting
    <2> QED
      BY <2>1, <2>2, RaceKept
  <1> QED
    BY <1>1, <1>2

\* Whatever number of operators start and end sessions at the same time, fail
\* and are killed, whatever sessions run out or reach their limit and whatever
\* keys come and go: two active sessions that cover a consumer and a key were
\* started at the same time, or the id of the key came back from revocation
\* (_ensure_session_start_has_no_overlap, run_session_start).
THEOREM OnlyRacingStartsOverlap == Spec => []OverlapsRaced
  <1>1. RaceInv => OverlapsRaced
    <2> SUFFICES ASSUME RaceInv, NEW s \in ActiveIn(row), NEW t \in ActiveIn(row),
                        s # t, ConsumerScope[s] \cap ConsumerScope[t] # {},
                        {s, t} \notin raced,
                        NEW k \in EffectiveKeys(s) \cap EffectiveKeys(t)
                 PROVE  k \in Revived
      BY DEF OverlapsRaced
    <2>1. s \in Session /\ t \in Session /\ Disjoint(s, t)
      BY DEF ActiveIn, RaceInv, Claims, Active
    <2>2. KeyScope[s] \in SUBSET Key /\ KeyScope[t] \in SUBSET Key
      BY <2>1, SessionAssumption
    <2> QED
      BY <2>1, <2>2 DEF Disjoint, Gone, EffectiveKeys, Live, Revived
  <1> QED
    BY <1>1, RaceInit, RaceStep, TypesKept, PTL DEF Spec
=============================================================================
