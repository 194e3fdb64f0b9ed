-------------------------- MODULE VaultExecute_proofs --------------------------
(***************************************************************************)
(* Proofs about VaultExecute for every set of keys, consumers and calls,   *)
(* and for all limits, windows, cooldowns and numbers of restarts.         *)
(***************************************************************************)
EXTENDS VaultExecute, FiniteSetTheorems, TLAPS

-----------------------------------------------------------------------------
(* Windows.                                                                *)

LEMMA Constants ==
  /\ KeyRpm \in Nat \ {0} /\ ConsumerRpm \in Nat \ {0} /\ BreakerFailures \in Nat \ {0}
  /\ Cooldown \in Nat \ {0} /\ Window \in Nat \ {0}
  /\ MaxRestarts \in Nat /\ MaxTime \in Nat /\ IsFiniteSet(Caller)
BY VaultExecuteAssumption

LEMMA WindowsInOrder ==
  ASSUME NEW s \in Nat, NEW t \in Nat, s <= t
  PROVE  WindowOf(s) <= WindowOf(t) /\ WindowOf(s) \in Nat
<1>1. /\ s \div Window \in Nat /\ t \div Window \in Nat
      /\ Window * (s \div Window) <= s /\ t < Window * (t \div Window + 1)
  BY Constants
<1> DEFINE p == s \div Window  q == t \div Window
<1>2. p <= q
  <2> SUFFICES ASSUME p > q PROVE FALSE
    BY <1>1
  <2>1. p >= q + 1 /\ p \in Nat /\ q \in Nat /\ Window * p <= s /\ t < Window * (q + 1)
    BY <1>1
  <2> HIDE DEF p, q
  <2>2. PICK d \in Nat : p = (q + 1) + d
    BY <2>1
  <2>3. Window * p = Window * (q + 1) + Window * d /\ Window * d >= 0
    BY <2>1, <2>2, Constants
  <2> QED
    BY <2>1, <2>3, Constants
<1> QED
  BY <1>1, <1>2 DEF WindowOf

-----------------------------------------------------------------------------
(* Types.                                                                  *)

\* An invocation is for a key and a consumer, and began in some window.
LEMMA CallParts ==
  ASSUME NEW x \in Call, x.st \in {"admitted", "sent"}
  PROVE  /\ x \in [ st : {"admitted", "sent"}, key : Key, consumer : Consumer,
                    at : 0..MaxTime, probe : BOOLEAN ]
         /\ x.key \in Key /\ x.consumer \in Consumer
         /\ x.at \in 0..MaxTime /\ WindowOf(x.at) \in Windows
BY DEF Call, Idle, Windows

LEMMA IdleType == Idle \in Call /\ Closed \in Breaker
BY Constants DEF Idle, Call, Closed, Breaker

LEMMA AfterFailureType ==
  ASSUME NEW b \in Breaker, NEW t \in 0..MaxTime
  PROVE  /\ AfterFailure(b, t) \in Breaker
         /\ b.st = "closed" /\ AfterFailure(b, t).st = "closed" =>
              AfterFailure(b, t).failures = b.failures + 1
         /\ b.st = "closed" /\ AfterFailure(b, t).st = "open" =>
              b.failures + 1 >= BreakerFailures
         /\ b.st = "open" => AfterFailure(b, t) = b
         /\ b.st = "half_open" => AfterFailure(b, t).st = "open"
<1>1. CASE b.st = "closed" /\ b.failures + 1 >= BreakerFailures
  BY <1>1 DEF AfterFailure, Opened, Breaker
<1>2. CASE b.st = "closed" /\ ~(b.failures + 1 >= BreakerFailures)
  <2>1. AfterFailure(b, t) = [b EXCEPT !.failures = @ + 1]
    BY <1>2, Constants DEF AfterFailure, Breaker
  <2> QED
    BY <1>2, <2>1 DEF Breaker
<1>3. CASE b.st = "half_open"
  BY <1>3, Constants DEF AfterFailure, Opened, Greater, Breaker
<1>4. CASE b.st = "open"
  BY <1>4 DEF AfterFailure
<1> QED
  BY <1>1, <1>2, <1>3, <1>4 DEF Breaker

LEMMA AfterAnswerType ==
  ASSUME NEW b \in Breaker, NEW good \in BOOLEAN
  PROVE  /\ AfterAnswer(b, good) \in Breaker
         /\ b.st = "closed" => AfterAnswer(b, good).st = "closed"
         /\ b.st = "closed" /\ ~good => AfterAnswer(b, good) = b
         /\ b.st # "open" /\ (good \/ b.st # "closed") => AfterAnswer(b, good).failures = 0
         /\ b.st = "open" => AfterAnswer(b, good) = b
<1>1. CASE b.st = "closed"
  BY <1>1 DEF AfterAnswer, Breaker
<1>2. CASE b.st = "half_open"
  BY <1>2 DEF AfterAnswer, Breaker
<1>3. CASE b.st = "open"
  BY <1>3 DEF AfterAnswer
<1> QED
  BY <1>1, <1>2, <1>3 DEF Breaker

LEMMA TypeInit == Init => TypeOK
<1> SUFFICES ASSUME Init PROVE TypeOK
  OBVIOUS
<1>1. 0 \in 0..MaxTime /\ 0 \in 0..MaxRestarts /\ 0 \in 0..KeyRpm /\ 0 \in 0..ConsumerRpm
  BY Constants
<1> QED
  BY <1>1, IdleType DEF Init, TypeOK

LEMMA TypeAdmit ==
  ASSUME TypeOK, NEW c \in Caller, NEW k \in Key, NEW a \in Consumer, Admit(c, k, a)
  PROVE  TypeOK'
<1>1. now \in 0..MaxTime /\ WindowOf(now) \in Windows
  BY DEF TypeOK, Windows
<1>2. /\ keyCount[k][WindowOf(now)] \in 0..KeyRpm /\ keyCount[k][WindowOf(now)] < KeyRpm
      /\ consumerCount[a][WindowOf(now)] \in 0..ConsumerRpm
      /\ consumerCount[a][WindowOf(now)] < ConsumerRpm
  BY <1>1 DEF TypeOK, Admit, UnderLimits
<1>3. keyCount' \in [Key -> [Windows -> 0..KeyRpm]]
  <2>1. keyCount[k][WindowOf(now)] + 1 \in 0..KeyRpm
    BY <1>2, Constants
  <2> QED
    BY <1>1, <2>1 DEF TypeOK, Admit
<1>4. consumerCount' \in [Consumer -> [Windows -> 0..ConsumerRpm]]
  <2>1. consumerCount[a][WindowOf(now)] + 1 \in 0..ConsumerRpm
    BY <1>2, Constants
  <2> QED
    BY <1>1, <2>1 DEF TypeOK, Admit
<1>5. breaker' \in [Key -> Breaker]
  BY DEF TypeOK, Admit, Breaker
<1>6. call' \in [Caller -> Call]
  <2>1. [st |-> "admitted", key |-> k, consumer |-> a, at |-> now,
         probe |-> breaker[k].st # "closed"] \in Call
    BY <1>1 DEF Call
  <2> QED
    BY <2>1 DEF TypeOK, Admit
<1> QED
  BY <1>3, <1>4, <1>5, <1>6 DEF TypeOK, Admit, historyVars

LEMMA TypeContinue ==
  ASSUME TypeOK, NEW c \in Caller, Continue(c)
  PROVE  TypeOK'
<1>1. call \in [Caller -> Call] /\ call[c] \in Call
  BY DEF TypeOK
<1>2. CASE Refuse(c)
  BY <1>1, <1>2, IdleType DEF TypeOK, Refuse, rowVars, historyVars
<1>3. CASE Dispatch(c)
  <2>1. /\ call[c].key \in Key /\ call[c].consumer \in Consumer
        /\ WindowOf(call[c].at) \in Windows
        /\ call[c] \in [ st : {"admitted", "sent"}, key : Key, consumer : Consumer,
                         at : 0..MaxTime, probe : BOOLEAN ]
    BY <1>1, <1>3, CallParts DEF Dispatch
  <2>2. [call[c] EXCEPT !.st = "sent"] \in Call
    BY <2>1 DEF Call
  <2>3. call' \in [Caller -> Call]
    BY <1>1, <1>3, <2>2 DEF Dispatch
  <2>4. keySent' \in [Key -> [Windows -> Nat]]
    BY <1>3, <2>1 DEF TypeOK, Dispatch
  <2>5. consumerSent' \in [Consumer -> [Windows -> Nat]]
    BY <1>3, <2>1 DEF TypeOK, Dispatch
  <2> QED
    BY <1>3, <2>3, <2>4, <2>5 DEF TypeOK, Dispatch, rowVars
<1>4. CASE RecordFailure(c)
  <2>1. call[c].key \in Key /\ call[c].at \in 0..MaxTime
    BY <1>1, <1>4, CallParts DEF RecordFailure
  <2>2. breaker' \in [Key -> Breaker]
    BY <1>4, <2>1, AfterFailureType DEF TypeOK, RecordFailure
  <2>3. streak' \in [Key -> Nat] /\ trippedAt' \in [Key -> 0..MaxTime]
    BY <1>4, <2>1 DEF TypeOK, RecordFailure
  <2>4. call' \in [Caller -> Call]
    BY <1>1, <1>4, IdleType DEF RecordFailure
  <2> QED
    BY <1>4, <2>2, <2>3, <2>4 DEF TypeOK, RecordFailure
<1>5. CASE RecordAnswer(c)
  <2>1. call[c].key \in Key
    BY <1>1, <1>5, CallParts DEF RecordAnswer
  <2>2. breaker' \in [Key -> Breaker]
    BY <1>5, <2>1, AfterAnswerType DEF TypeOK, RecordAnswer
  <2>3. streak' \in [Key -> Nat]
    BY <1>5, <2>1 DEF TypeOK, RecordAnswer
  <2>4. call' \in [Caller -> Call]
    BY <1>1, <1>5, IdleType DEF RecordAnswer
  <2> QED
    BY <1>5, <2>2, <2>3, <2>4 DEF TypeOK, RecordAnswer
<1> QED
  BY <1>2, <1>3, <1>4, <1>5 DEF Continue

LEMMA TypeOther ==
  ASSUME TypeOK, Restart \/ Tick \/ UNCHANGED vars
  PROVE  TypeOK'
<1>1. CASE Restart
  <2>1. WindowOf(now) \in Windows
    BY DEF TypeOK, Windows
  <2>2. restarts' \in [Windows -> 0..MaxRestarts]
    <3>1. restarts[WindowOf(now)] + 1 \in 0..MaxRestarts
      BY <1>1, <2>1, Constants DEF TypeOK, Restart
    <3> QED
      BY <1>1, <3>1 DEF TypeOK, Restart
  <2>3. /\ keyCount' \in [Key -> [Windows -> 0..KeyRpm]]
        /\ consumerCount' \in [Consumer -> [Windows -> 0..ConsumerRpm]]
    BY <1>1, Constants DEF Restart
  <2> QED
    BY <1>1, <2>2, <2>3, IdleType DEF TypeOK, Restart
<1>2. CASE Tick
  <2>1. now + 1 \in 0..MaxTime
    BY <1>2, Constants DEF TypeOK, Tick
  <2> QED
    BY <1>2, <2>1 DEF TypeOK, Tick, rowVars, historyVars
<1>3. CASE UNCHANGED vars
  BY <1>3 DEF TypeOK, vars, rowVars, historyVars
<1> QED
  BY <1>1, <1>2, <1>3

LEMMA TypeStep == TypeOK /\ [Next]_vars => TypeOK'
BY TypeAdmit, TypeContinue, TypeOther DEF Next

\* Every variable of the vault's execution keeps its type; the counts of a
\* window stay within its limits.
THEOREM VaultTypeOK == Spec => []TypeOK
BY TypeInit, TypeStep, PTL DEF Spec

-----------------------------------------------------------------------------
(* The breaker.                                                            *)

\* A closed breaker has counted no failure that is not one of the latest row.
StreakInv == \A k \in Key : breaker[k].st = "closed" => breaker[k].failures <= streak[k]

\* What a step does to the breaker of a key.
LEMMA BreakerStep ==
  ASSUME TypeOK, [Next]_vars, NEW k \in Key
  PROVE  \/ breaker'[k] = breaker[k] /\ streak'[k] = streak[k]
         \/ breaker[k].st = "open" /\ breaker'[k].st = "half_open"
         \/ /\ streak'[k] = streak[k] + 1
            /\ \E t \in 0..MaxTime : breaker'[k] = AfterFailure(breaker[k], t)
         \/ \E good \in BOOLEAN : /\ breaker'[k] = AfterAnswer(breaker[k], good)
                                  /\ streak'[k] = IF good THEN 0 ELSE streak[k]
<1>1. breaker \in [Key -> Breaker] /\ streak \in [Key -> Nat] /\ call \in [Caller -> Call]
  BY DEF TypeOK
<1>2. ASSUME NEW c \in Caller, NEW q \in Key, NEW a \in Consumer, Admit(c, q, a)
      PROVE  \/ breaker'[k] = breaker[k] /\ streak'[k] = streak[k]
             \/ breaker[k].st = "open" /\ breaker'[k].st = "half_open"
  BY <1>1, <1>2 DEF Admit, historyVars, Breaker
<1>3. ASSUME NEW c \in Caller, RecordFailure(c)
      PROVE  \/ breaker'[k] = breaker[k] /\ streak'[k] = streak[k]
             \/ /\ streak'[k] = streak[k] + 1
                /\ \E t \in 0..MaxTime : breaker'[k] = AfterFailure(breaker[k], t)
  <2>1. call[c].key \in Key /\ call[c].at \in 0..MaxTime
    BY <1>1, <1>3, CallParts DEF RecordFailure
  <2>2. CASE call[c].key = k
    BY <1>1, <1>3, <2>1, <2>2 DEF RecordFailure
  <2>3. CASE call[c].key # k
    BY <1>1, <1>3, <2>3 DEF RecordFailure
  <2> QED
    BY <2>2, <2>3
<1>4. ASSUME NEW c \in Caller, RecordAnswer(c)
      PROVE  \/ breaker'[k] = breaker[k] /\ streak'[k] = streak[k]
             \/ \E good \in BOOLEAN : /\ breaker'[k] = AfterAnswer(breaker[k], good)
                                      /\ streak'[k] = IF good THEN 0 ELSE streak[k]
  <2>1. PICK good \in BOOLEAN :
           /\ breaker' = [breaker EXCEPT ![call[c].key] = AfterAnswer(@, good)]
           /\ streak' = IF good THEN [streak EXCEPT ![call[c].key] = 0] ELSE streak
    BY <1>4 DEF RecordAnswer
  <2>2. CASE call[c].key = k
    BY <1>1, <2>1, <2>2
  <2>3. CASE call[c].key # k
    BY <1>1, <2>1, <2>3
  <2> QED
    BY <2>2, <2>3
<1>5. CASE \/ \E c \in Caller : Refuse(c) \/ Dispatch(c)
           \/ Restart \/ Tick \/ UNCHANGED vars
  BY <1>5 DEF Refuse, Dispatch, Restart, Tick, vars, rowVars, historyVars
<1> QED
  BY <1>2, <1>3, <1>4, <1>5 DEF Next, Continue

LEMMA StreakStep == TypeOK /\ StreakInv /\ [Next]_vars => StreakInv'
<1> SUFFICES ASSUME TypeOK, StreakInv, [Next]_vars, NEW k \in Key,
                    breaker'[k].st = "closed"
             PROVE  breaker'[k].failures <= streak'[k]
  BY DEF StreakInv
<1>1. /\ breaker[k] \in Breaker /\ streak[k] \in Nat
      /\ breaker[k].st = "closed" => breaker[k].failures <= streak[k]
  BY DEF TypeOK, StreakInv
<1>2. CASE breaker'[k] = breaker[k] /\ streak'[k] = streak[k]
  BY <1>1, <1>2
<1>3. ASSUME streak'[k] = streak[k] + 1,
             NEW t \in 0..MaxTime, breaker'[k] = AfterFailure(breaker[k], t)
      PROVE  breaker'[k].failures <= streak'[k]
  <2>1. breaker[k].st \in {"closed", "open", "half_open"} /\ breaker[k].failures \in Nat
    BY <1>1 DEF Breaker
  <2>2. breaker[k].st # "half_open" /\ breaker[k].st # "open"
    BY <1>1, <1>3, AfterFailureType
  <2>3. breaker'[k].failures = breaker[k].failures + 1
    BY <1>1, <1>3, <2>1, <2>2, AfterFailureType
  <2> QED
    BY <1>1, <1>3, <2>1, <2>2, <2>3
<1>4. ASSUME NEW good \in BOOLEAN, breaker'[k] = AfterAnswer(breaker[k], good),
             streak'[k] = IF good THEN 0 ELSE streak[k]
      PROVE  breaker'[k].failures <= streak'[k]
  <2>1. breaker[k].st # "open"
    BY <1>1, <1>4, AfterAnswerType
  <2>2. CASE good \/ breaker[k].st # "closed"
    BY <1>1, <1>4, <2>1, <2>2, AfterAnswerType
  <2>3. CASE ~good /\ breaker[k].st = "closed"
    BY <1>1, <1>4, <2>3, AfterAnswerType
  <2> QED
    BY <2>2, <2>3
<1> QED
  BY <1>2, <1>3, <1>4, BreakerStep

LEMMA BreakerInvariance == Spec => [](TypeOK /\ StreakInv)
<1>1. Init => StreakInv
  BY DEF Init, StreakInv, Closed
<1> QED
  BY <1>1, TypeInit, TypeStep, StreakStep, PTL DEF Spec

\* The breaker opens on failures in a row only, whatever the order in which
\* the outcomes of concurrent calls come in.
THEOREM OpensOnFailuresInARow == Spec => TripsOnStreak
<1>1. TypeOK /\ StreakInv /\ [Next]_vars =>
        [\A k \in Key : breaker[k].st = "closed" /\ breaker'[k].st = "open"
                          => streak'[k] >= BreakerFailures]_vars
  <2> SUFFICES ASSUME TypeOK, StreakInv, [Next]_vars, NEW k \in Key,
                      breaker[k].st = "closed", breaker'[k].st = "open"
               PROVE  streak'[k] >= BreakerFailures
    OBVIOUS
  <2>1. /\ breaker[k] \in Breaker /\ streak[k] \in Nat /\ breaker[k].failures \in Nat
        /\ breaker[k].failures <= streak[k]
    BY DEF TypeOK, StreakInv, Breaker
  <2>2. PICK t \in 0..MaxTime : /\ breaker'[k] = AfterFailure(breaker[k], t)
                                /\ streak'[k] = streak[k] + 1
    BY <2>1, BreakerStep, AfterAnswerType
  <2>3. breaker[k].failures + 1 >= BreakerFailures
    BY <2>1, <2>2, AfterFailureType
  <2> QED
    BY <2>1, <2>2, <2>3, Constants
<1> QED
  BY <1>1, BreakerInvariance, PTL DEF Spec, TripsOnStreak

\* A breaker that is open leaves that state by the admission of a probe only.
THEOREM OpenNeedsProbe == Spec => OpenUntilProbed
<1>1. TypeOK /\ [Next]_vars =>
        [\A k \in Key : breaker[k].st = "open" => breaker'[k].st \in {"open", "half_open"}]_vars
  <2> SUFFICES ASSUME TypeOK, [Next]_vars, NEW k \in Key, breaker[k].st = "open"
               PROVE  breaker'[k].st \in {"open", "half_open"}
    OBVIOUS
  <2>1. breaker[k] \in Breaker
    BY DEF TypeOK
  <2> QED
    BY <2>1, BreakerStep, AfterFailureType, AfterAnswerType
<1> QED
  BY <1>1, VaultTypeOK, PTL DEF Spec, OpenUntilProbed

-----------------------------------------------------------------------------
(* The probe.                                                              *)

\* An open breaker has no probe under way that was admitted since it opened;
\* a half-open one is marked.
ProbeMarked(k) ==
  /\ breaker[k].st = "open" => ProbesSinceOpening(k) = {}
  /\ breaker[k].st = "half_open" => breaker[k].probing
  /\ \A c, d \in ProbesSinceOpening(k) : c = d

Begun == \A c \in Caller : call[c] # Idle => call[c].at <= now

ProbeInv == TypeOK /\ Begun /\ \A k \in Key : ProbeMarked(k)

\* A step that admits no probe and leaves the breaker as it is, or takes it out
\* of the open state, keeps what is said of the probes.
LEMMA NoNewProbe ==
  ASSUME NEW k \in Key, ProbeMarked(k),
         ProbesSinceOpening(k)' \subseteq ProbesSinceOpening(k),
         breaker'[k] = breaker[k] \/ breaker'[k].st = "closed"
  PROVE  ProbeMarked(k)'
BY DEF ProbeMarked

LEMMA ProbeAdmit ==
  ASSUME ProbeInv, NEW c \in Caller, NEW q \in Key, NEW a \in Consumer, Admit(c, q, a),
         NEW k \in Key
  PROVE  ProbeMarked(k)'
<1>1. /\ breaker \in [Key -> Breaker] /\ call \in [Caller -> Call]
      /\ ProbeMarked(k) /\ ProbeMarked(q)
      /\ UNCHANGED trippedAt
  BY DEF ProbeInv, TypeOK, Admit, historyVars
<1> DEFINE x == [st |-> "admitted", key |-> q, consumer |-> a, at |-> now,
                 probe |-> breaker[q].st # "closed"]
<1>2. call'[c] = x /\ \A d \in Caller \ {c} : call'[d] = call[d]
  BY <1>1 DEF Admit
<1>3. CASE k # q
  <2>1. breaker'[k] = breaker[k]
    BY <1>1, <1>3 DEF Admit
  <2>2. ProbesSinceOpening(k)' \subseteq ProbesSinceOpening(k)
    BY <1>1, <1>2, <1>3 DEF ProbesSinceOpening
  <2> QED
    BY <1>1, <2>1, <2>2, NoNewProbe
<1>4. CASE k = q /\ breaker[q].st = "open"
  <2>1. breaker'[k].st = "half_open" /\ breaker'[k].probing
    BY <1>1, <1>4 DEF Admit, Breaker
  <2>2. ProbesSinceOpening(k)' \subseteq {c}
    BY <1>1, <1>2, <1>4 DEF ProbesSinceOpening, ProbeMarked
  <2> QED
    BY <2>1, <2>2 DEF ProbeMarked
<1>5. CASE k = q /\ breaker[q].st # "open"
  <2>1. breaker[q].st = "closed" /\ breaker' = breaker
    BY <1>1, <1>5 DEF Admit, Passes, CooledDown, ProbeMarked
  <2>2. ~call'[c].probe
    <3>1. (breaker[q].st # "closed") = FALSE
      BY <2>1
    <3>2. call'[c].probe = (breaker[q].st # "closed")
      BY <1>2
    <3> QED
      BY <3>1, <3>2
  <2>3. ProbesSinceOpening(k)' \subseteq ProbesSinceOpening(k)
    BY <1>1, <1>2, <2>2 DEF ProbesSinceOpening
  <2> QED
    BY <1>1, <2>1, <2>3, NoNewProbe
<1> QED
  BY <1>3, <1>4, <1>5

LEMMA ProbeContinue ==
  ASSUME ProbeInv, NEW c \in Caller, Continue(c), NEW k \in Key
  PROVE  ProbeMarked(k)'
<1>1. /\ breaker \in [Key -> Breaker] /\ call \in [Caller -> Call] /\ call[c] \in Call
      /\ trippedAt \in [Key -> 0..MaxTime] /\ now \in 0..MaxTime /\ MaxTime \in Nat
      /\ ProbeMarked(k) /\ Begun
  BY Constants DEF ProbeInv, TypeOK
<1>2. ASSUME call' = [call EXCEPT ![c] = Idle], trippedAt'[k] = trippedAt[k]
      PROVE  ProbesSinceOpening(k)' \subseteq ProbesSinceOpening(k)
  BY <1>1, <1>2 DEF ProbesSinceOpening
<1>3. CASE Refuse(c)
  <2>1. ProbesSinceOpening(k)' \subseteq ProbesSinceOpening(k)
    BY <1>2, <1>3 DEF Refuse, historyVars
  <2> QED
    BY <1>1, <1>3, <2>1, NoNewProbe DEF Refuse, rowVars
<1>4. CASE Dispatch(c)
  <2>1. /\ call[c] \in [ st : {"admitted", "sent"}, key : Key, consumer : Consumer,
                         at : 0..MaxTime, probe : BOOLEAN ]
        /\ call' = [call EXCEPT ![c].st = "sent"] /\ UNCHANGED <<breaker, trippedAt>>
    BY <1>1, <1>4, CallParts DEF Dispatch, rowVars
  <2>2. /\ call'[c].key = call[c].key /\ call'[c].probe = call[c].probe
        /\ call'[c].at = call[c].at /\ call[c] # Idle
        /\ \A d \in Caller \ {c} : call'[d] = call[d]
    BY <1>1, <1>4, <2>1 DEF Dispatch, Idle
  <2>3. ProbesSinceOpening(k)' \subseteq ProbesSinceOpening(k)
    BY <2>1, <2>2 DEF ProbesSinceOpening
  <2> QED
    BY <1>1, <2>1, <2>3, NoNewProbe
<1>5. CASE RecordFailure(c)
  <2>1. /\ call[c].key \in Key /\ call[c].at \in 0..MaxTime
        /\ call' = [call EXCEPT ![c] = Idle] /\ now' = now
        /\ breaker' = [breaker EXCEPT ![call[c].key] = AfterFailure(@, call[c].at)]
    BY <1>1, <1>5, CallParts DEF RecordFailure
  <2>2. trippedAt' = IF breaker'[call[c].key].st = "open" /\ breaker[call[c].key].st # "open"
                     THEN [trippedAt EXCEPT ![call[c].key] = now] ELSE trippedAt
    BY <1>5 DEF RecordFailure
  <2>3. CASE call[c].key = k /\ breaker'[k].st = "open" /\ breaker[k].st # "open"
    <3>1. trippedAt'[k] = now
      BY <1>1, <2>2, <2>3
    <3>2. ASSUME NEW d \in Caller, call'[d] # Idle, call'[d].at > now PROVE FALSE
      <4>1. call[d] # Idle /\ call'[d] = call[d] /\ call[d] \in Call
        BY <1>1, <2>1, <3>2
      <4>2. call[d].at \in 0..MaxTime
        BY <4>1 DEF Call
      <4> QED
        BY <1>1, <3>2, <4>1, <4>2 DEF Begun
    <3>3. ProbesSinceOpening(k)' = {}
      BY <3>1, <3>2 DEF ProbesSinceOpening
    <3> QED
      BY <2>3, <3>3 DEF ProbeMarked
  <2>4. CASE ~(call[c].key = k /\ breaker'[k].st = "open" /\ breaker[k].st # "open")
    <3>1. trippedAt'[k] = trippedAt[k]
      BY <1>1, <2>1, <2>2, <2>4
    <3>2. breaker'[k] = breaker[k] \/ breaker'[k].st = "closed"
      <4>1. CASE call[c].key # k
        BY <1>1, <2>1, <4>1
      <4>2. CASE call[c].key = k
        <5>1. /\ breaker'[k] = AfterFailure(breaker[k], call[c].at)
              /\ breaker[k] \in Breaker /\ breaker'[k] \in Breaker
          BY <1>1, <2>1, <4>2, AfterFailureType
        <5>2. CASE breaker[k].st = "open"
          BY <2>1, <5>1, <5>2, AfterFailureType
        <5>3. CASE breaker[k].st = "half_open"
          BY <2>1, <2>4, <4>2, <5>1, <5>3, AfterFailureType
        <5>4. CASE breaker[k].st = "closed"
          <6>1. breaker'[k].st # "half_open"
            BY <5>1, <5>4, <2>1, Constants DEF AfterFailure, Opened, Breaker
          <6> QED
            BY <2>4, <4>2, <5>1, <5>4, <6>1 DEF Breaker
        <5> QED
          BY <5>1, <5>2, <5>3, <5>4 DEF Breaker
      <4> QED
        BY <4>1, <4>2
    <3> QED
      BY <1>1, <1>2, <2>1, <3>1, <3>2, NoNewProbe
  <2> QED
    BY <2>3, <2>4
<1>6. CASE RecordAnswer(c)
  <2>1. PICK good \in BOOLEAN : breaker' = [breaker EXCEPT ![call[c].key] = AfterAnswer(@, good)]
    BY <1>6 DEF RecordAnswer
  <2>2. call[c].key \in Key /\ call' = [call EXCEPT ![c] = Idle] /\ UNCHANGED trippedAt
    BY <1>1, <1>6, CallParts DEF RecordAnswer
  <2>3. breaker'[k] = breaker[k] \/ breaker'[k].st = "closed"
    <3>1. breaker[k] \in Breaker
      BY <1>1
    <3>2. CASE call[c].key # k
      BY <1>1, <2>1, <3>2
    <3>3. CASE call[c].key = k
      <4>1. breaker'[k] = AfterAnswer(breaker[k], good)
        BY <1>1, <2>1, <3>3
      <4> QED
        BY <3>1, <4>1 DEF AfterAnswer, Breaker
    <3> QED
      BY <3>2, <3>3
  <2> QED
    BY <1>1, <1>2, <2>2, <2>3, NoNewProbe
<1> QED
  BY <1>3, <1>4, <1>5, <1>6 DEF Continue

LEMMA ProbeOther ==
  ASSUME ProbeInv, Restart \/ Tick \/ UNCHANGED vars, NEW k \in Key
  PROVE  ProbeMarked(k)'
<1>1. ProbeMarked(k) /\ UNCHANGED <<breaker, trippedAt>>
  BY DEF ProbeInv, Restart, Tick, vars, rowVars, historyVars
<1>2. ProbesSinceOpening(k)' \subseteq ProbesSinceOpening(k)
  BY <1>1 DEF ProbesSinceOpening, Restart, Tick, vars
<1> QED
  BY <1>1, <1>2, NoNewProbe

LEMMA BegunStep == ProbeInv /\ [Next]_vars => Begun'
<1> SUFFICES ASSUME ProbeInv, [Next]_vars, NEW d \in Caller, call'[d] # Idle
             PROVE  call'[d].at <= now'
  BY DEF Begun
<1>1. /\ call \in [Caller -> Call] /\ call[d] \in Call /\ now \in 0..MaxTime /\ MaxTime \in Nat
      /\ call[d] # Idle => call[d].at <= now
  BY Constants DEF ProbeInv, TypeOK, Begun
<1>2. call[d] # Idle => call[d].at \in 0..MaxTime
  BY <1>1 DEF Call
<1>3. ASSUME NEW c \in Caller, NEW q \in Key, NEW a \in Consumer, Admit(c, q, a)
      PROVE  call'[d].at <= now'
  BY <1>1, <1>3 DEF Admit
<1>4. ASSUME NEW c \in Caller, Continue(c) PROVE call'[d].at <= now'
  <2>1. now' = now
    BY <1>4 DEF Continue, Refuse, Dispatch, RecordFailure, RecordAnswer
  <2>2. CASE call' = [call EXCEPT ![c] = Idle]
    BY <1>1, <2>1, <2>2
  <2>3. CASE Dispatch(c)
    <3>1. call'[d].at = call[d].at /\ call[d] # Idle
      <4>1. CASE d = c
        BY <1>1, <2>3, <4>1, CallParts DEF Dispatch, Idle
      <4>2. CASE d # c
        BY <1>1, <2>3, <4>2 DEF Dispatch
      <4> QED
        BY <4>1, <4>2
    <3> QED
      BY <1>1, <2>1, <3>1
  <2> QED
    BY <1>4, <2>2, <2>3 DEF Continue, Refuse, RecordFailure, RecordAnswer
<1>5. CASE Restart
  BY <1>5 DEF Restart
<1>6. CASE Tick
  BY <1>1, <1>2, <1>6 DEF Tick
<1>7. CASE UNCHANGED vars
  BY <1>1, <1>7 DEF vars
<1> QED
  BY <1>3, <1>4, <1>5, <1>6, <1>7 DEF Next

\* Of the calls that find the breaker cooled down one is let through: no two
\* probes of one opening are under way together, for any number of calls and
\* whatever outcomes of older calls are recorded meanwhile.
THEOREM OneProbeGoesThrough == Spec => []OneProbePerOpening
<1>1. Init => ProbeInv
  <2> SUFFICES ASSUME Init PROVE Begun /\ \A k \in Key : ProbeMarked(k)
    BY TypeInit DEF ProbeInv
  <2> QED
    BY DEF Init, Begun, ProbeMarked, ProbesSinceOpening, Closed
<1>2. ProbeInv /\ [Next]_vars => ProbeInv'
  <2> SUFFICES ASSUME ProbeInv, [Next]_vars PROVE ProbeInv'
    OBVIOUS
  <2>1. TypeOK' /\ Begun'
    BY TypeStep, BegunStep DEF ProbeInv
  <2>2. ASSUME NEW k \in Key PROVE ProbeMarked(k)'
    BY <2>2, ProbeAdmit, ProbeContinue, ProbeOther DEF Next
  <2> QED
    BY <2>1, <2>2 DEF ProbeInv
<1>3. ProbeInv => OneProbePerOpening
  BY DEF ProbeInv, ProbeMarked, OneProbePerOpening
<1> QED
  BY <1>1, <1>2, <1>3, PTL DEF Spec

-----------------------------------------------------------------------------
(* The limits.                                                             *)

\* The admitted calls of a window that have yet to reach the provider.
KeyWaits(k, w) ==
  {c \in Caller : call[c].st = "admitted" /\ call[c].key = k /\ WindowOf(call[c].at) = w}

ConsumerWaits(a, w) ==
  {c \in Caller : call[c].st = "admitted" /\ call[c].consumer = a /\ WindowOf(call[c].at) = w}

\* No moment of the window has come.
Ahead(w) == \A t \in 0..now : WindowOf(t) # w

\* Sent or on the way, the calls of a window are within its allowances; in
\* the current window they are the ones counted, but for the allowances that
\* restarts have written off, and in a window to come there is none.
KeyRate(k, w) ==
  LET load == keySent[k][w] + Cardinality(KeyWaits(k, w)) IN
  /\ load <= KeyRpm + KeyRpm * restarts[w]
  /\ w = WindowOf(now) => load <= keyCount[k][w] + KeyRpm * restarts[w]
  /\ Ahead(w) => load = 0

ConsumerRate(a, w) ==
  LET load == consumerSent[a][w] + Cardinality(ConsumerWaits(a, w)) IN
  /\ load <= ConsumerRpm + ConsumerRpm * restarts[w]
  /\ w = WindowOf(now) => load <= consumerCount[a][w] + ConsumerRpm * restarts[w]
  /\ Ahead(w) => load = 0

RateInv ==
  /\ TypeOK
  /\ \A w \in Windows : /\ \A k \in Key : KeyRate(k, w)
                        /\ \A a \in Consumer : ConsumerRate(a, w)

LEMMA KeyWaitsFinite ==
  ASSUME NEW k, NEW w
  PROVE  IsFiniteSet(KeyWaits(k, w)) /\ Cardinality(KeyWaits(k, w)) \in Nat
<1>1. KeyWaits(k, w) \subseteq Caller
  BY DEF KeyWaits
<1> QED
  BY <1>1, Constants, FS_Subset, FS_CardinalityType

\* The numbers that KeyRate relates.
LEMMA KeyNumbers ==
  ASSUME RateInv, NEW k \in Key, NEW w \in Windows
  PROVE  /\ KeyRate(k, w) /\ keySent[k][w] \in Nat /\ keyCount[k][w] \in Nat
         /\ keyCount[k][w] <= KeyRpm
         /\ restarts[w] \in Nat /\ KeyRpm * restarts[w] \in Nat /\ KeyRpm \in Nat
BY Constants DEF RateInv, TypeOK

LEMMA KeyRateAdmit ==
  ASSUME RateInv, TypeOK', NEW k \in Key, NEW w \in Windows,
         NEW c \in Caller, NEW q \in Key, NEW a \in Consumer, Admit(c, q, a)
  PROVE  KeyRate(k, w)'
<1>1. /\ KeyRate(k, w) /\ keySent[k][w] \in Nat /\ keyCount[k][w] \in Nat
      /\ restarts[w] \in Nat /\ KeyRpm * restarts[w] \in Nat /\ KeyRpm \in Nat
  BY KeyNumbers
<1>2. IsFiniteSet(KeyWaits(k, w)) /\ Cardinality(KeyWaits(k, w)) \in Nat
  BY KeyWaitsFinite
<1>3. /\ UNCHANGED <<now, keySent, restarts>> /\ call[c] = Idle /\ call \in [Caller -> Call]
      /\ call' = [call EXCEPT ![c] = [st |-> "admitted", key |-> q, consumer |-> a,
                                      at |-> now, probe |-> breaker[q].st # "closed"]]
      /\ now \in 0..MaxTime
  BY DEF RateInv, TypeOK, Admit, historyVars
<1>4. Ahead(w)' <=> Ahead(w)
  BY <1>3 DEF Ahead
<1>5. CASE q = k /\ w = WindowOf(now)
  <2>1. KeyWaits(k, w)' = KeyWaits(k, w) \cup {c} /\ c \notin KeyWaits(k, w)
    BY <1>3, <1>5 DEF KeyWaits, Idle
  <2>2. Cardinality(KeyWaits(k, w)') = Cardinality(KeyWaits(k, w)) + 1
    BY <1>2, <2>1, FS_AddElement
  <2>3. keyCount'[k][w] = keyCount[k][w] + 1
    BY <1>5 DEF Admit, RateInv, TypeOK
  <2>4. keyCount'[k][w] <= KeyRpm
    BY Constants DEF TypeOK
  <2>5. ~Ahead(w)
    BY <1>3, <1>5 DEF Ahead
  <2>6. keySent'[k][w] + Cardinality(KeyWaits(k, w)') <= keyCount'[k][w] + KeyRpm * restarts'[w]
    BY <1>1, <1>2, <1>3, <1>5, <2>2, <2>3 DEF KeyRate
  <2>7. keySent'[k][w] + Cardinality(KeyWaits(k, w)') <= KeyRpm + KeyRpm * restarts'[w]
    BY <1>1, <1>2, <1>3, <2>2, <2>3, <2>4, <2>6
  <2> QED
    BY <1>4, <2>5, <2>6, <2>7 DEF KeyRate
<1>6. CASE ~(q = k /\ w = WindowOf(now))
  <2>1. KeyWaits(k, w)' = KeyWaits(k, w)
    BY <1>3, <1>6 DEF KeyWaits, Idle
  <2>2. keyCount'[k][w] = keyCount[k][w]
    BY <1>6 DEF Admit, RateInv, TypeOK
  <2> QED
    BY <1>1, <1>3, <1>4, <2>1, <2>2 DEF KeyRate
<1> QED
  BY <1>5, <1>6

LEMMA KeyRateContinue ==
  ASSUME RateInv, NEW k \in Key, NEW w \in Windows, NEW c \in Caller, Continue(c)
  PROVE  KeyRate(k, w)'
<1>1. /\ KeyRate(k, w) /\ keySent[k][w] \in Nat /\ keyCount[k][w] \in Nat
      /\ restarts[w] \in Nat /\ KeyRpm * restarts[w] \in Nat /\ KeyRpm \in Nat
  BY KeyNumbers
<1>2. IsFiniteSet(KeyWaits(k, w)) /\ Cardinality(KeyWaits(k, w)) \in Nat
  BY KeyWaitsFinite
<1>3. UNCHANGED <<now, keyCount, restarts>> /\ call \in [Caller -> Call] /\ call[c] \in Call
  BY DEF RateInv, TypeOK, Continue, Refuse, Dispatch, RecordFailure, RecordAnswer,
         rowVars, historyVars
<1>4. Ahead(w)' <=> Ahead(w)
  BY <1>3 DEF Ahead
<1>5. ASSUME keySent' = keySent, KeyWaits(k, w)' \subseteq KeyWaits(k, w)
      PROVE  KeyRate(k, w)'
  <2>1. /\ Cardinality(KeyWaits(k, w)') <= Cardinality(KeyWaits(k, w))
        /\ Cardinality(KeyWaits(k, w)') \in Nat
    BY <1>2, <1>5, FS_Subset, FS_CardinalityType
  <2> QED
    BY <1>1, <1>2, <1>3, <1>4, <1>5, <2>1 DEF KeyRate
<1>6. CASE Refuse(c)
  <2>1. KeyWaits(k, w)' \subseteq KeyWaits(k, w)
    BY <1>3, <1>6 DEF KeyWaits, Refuse, Idle
  <2> QED
    BY <1>5, <1>6, <2>1 DEF Refuse, historyVars
<1>7. CASE RecordFailure(c) \/ RecordAnswer(c)
  <2>1. call' = [call EXCEPT ![c] = Idle] /\ keySent' = keySent
    BY <1>7 DEF RecordFailure, RecordAnswer
  <2>2. KeyWaits(k, w)' \subseteq KeyWaits(k, w)
    BY <1>3, <2>1 DEF KeyWaits, Idle
  <2> QED
    BY <1>5, <2>1, <2>2
<1>8. CASE Dispatch(c)
  <2>1. /\ call' = [call EXCEPT ![c].st = "sent"] /\ call[c].st = "admitted"
        /\ keySent' = [keySent EXCEPT ![call[c].key][WindowOf(call[c].at)] = @ + 1]
    BY <1>8 DEF Dispatch
  <2>2. /\ call[c] \in [ st : {"admitted", "sent"}, key : Key, consumer : Consumer,
                         at : 0..MaxTime, probe : BOOLEAN ]
        /\ call[c].key \in Key /\ WindowOf(call[c].at) \in Windows
    BY <1>3, <2>1, CallParts
  <2>3. call'[c].st = "sent" /\ \A d \in Caller \ {c} : call'[d] = call[d]
    BY <1>3, <2>1, <2>2
  <2>4. keySent \in [Key -> [Windows -> Nat]]
    BY DEF RateInv, TypeOK
  <2>5. CASE call[c].key = k /\ WindowOf(call[c].at) = w
    <3>1. KeyWaits(k, w)' = KeyWaits(k, w) \ {c} /\ c \in KeyWaits(k, w)
      BY <2>1, <2>3, <2>5 DEF KeyWaits
    <3>2. Cardinality(KeyWaits(k, w)') = Cardinality(KeyWaits(k, w)) - 1
      BY <1>2, <3>1, FS_RemoveElement
    <3>3. keySent'[k][w] = keySent[k][w] + 1
      BY <2>1, <2>2, <2>4, <2>5
    <3>4. keySent'[k][w] + Cardinality(KeyWaits(k, w)') = keySent[k][w] + Cardinality(KeyWaits(k, w))
      BY <1>1, <1>2, <3>2, <3>3
    <3> QED
      BY <1>1, <1>3, <1>4, <3>4 DEF KeyRate
  <2>6. CASE ~(call[c].key = k /\ WindowOf(call[c].at) = w)
    <3>1. KeyWaits(k, w)' = KeyWaits(k, w)
      BY <2>1, <2>3, <2>6 DEF KeyWaits
    <3>2. keySent'[k][w] = keySent[k][w]
      BY <2>1, <2>2, <2>4, <2>6
    <3> QED
      BY <1>1, <1>3, <1>4, <3>1, <3>2 DEF KeyRate
  <2> QED
    BY <2>5, <2>6
<1> QED
  BY <1>6, <1>7, <1>8 DEF Continue

LEMMA KeyRateOther ==
  ASSUME RateInv, TypeOK', Restart \/ Tick \/ UNCHANGED vars, NEW k \in Key, NEW w \in Windows
  PROVE  KeyRate(k, w)'
<1>1. /\ KeyRate(k, w) /\ keySent[k][w] \in Nat /\ keyCount[k][w] \in Nat
      /\ keyCount[k][w] <= KeyRpm
      /\ restarts[w] \in Nat /\ KeyRpm * restarts[w] \in Nat /\ KeyRpm \in Nat
  BY KeyNumbers
<1>2. IsFiniteSet(KeyWaits(k, w)) /\ Cardinality(KeyWaits(k, w)) \in Nat
  BY KeyWaitsFinite
<1>3. now \in 0..MaxTime /\ MaxTime \in Nat /\ restarts \in [Windows -> 0..MaxRestarts]
  BY Constants DEF RateInv, TypeOK
<1>4. CASE Restart
  <2>1. KeyWaits(k, w)' = {}
    BY <1>4 DEF Restart, KeyWaits, Idle
  <2>2. Cardinality(KeyWaits(k, w)') = 0
    BY <2>1, FS_EmptySet
  <2>3. UNCHANGED <<now, keySent>> /\ (Ahead(w)' <=> Ahead(w)) /\ keyCount'[k][w] = 0
    BY <1>4 DEF Restart, Ahead
  <2>4. CASE w = WindowOf(now)
    <3>1. restarts'[w] = restarts[w] + 1
      BY <1>3, <1>4, <2>4, Constants DEF Restart, RateInv, TypeOK
    <3>2. KeyRpm * restarts'[w] = KeyRpm + KeyRpm * restarts[w]
      BY <1>1, <3>1
    <3> QED
      BY <1>1, <1>2, <2>2, <2>3, <2>4, <3>2 DEF KeyRate
  <2>5. CASE w # WindowOf(now)
    <3>1. restarts'[w] = restarts[w]
      BY <1>3, <1>4, <2>5 DEF Restart
    <3> QED
      BY <1>1, <1>2, <2>2, <2>3, <2>5, <3>1 DEF KeyRate
  <2> QED
    BY <2>4, <2>5
<1>5. CASE Tick
  <2>1. now' = now + 1 /\ UNCHANGED <<keySent, keyCount, restarts>>
        /\ KeyWaits(k, w)' = KeyWaits(k, w)
    BY <1>5 DEF Tick, rowVars, historyVars, KeyWaits
  <2>2. Ahead(w)' => Ahead(w)
    BY <1>3, <2>1 DEF Ahead
  <2>3. ASSUME w = WindowOf(now + 1) PROVE w = WindowOf(now) \/ Ahead(w)
    <3> SUFFICES ASSUME NEW t \in 0..now, WindowOf(t) = w PROVE w = WindowOf(now)
      BY DEF Ahead
    <3>1. WindowOf(t) <= WindowOf(now) /\ WindowOf(now) <= WindowOf(now + 1)
          /\ WindowOf(t) \in Nat /\ WindowOf(now) \in Nat
      BY <1>3, WindowsInOrder
    <3> QED
      BY <2>3, <3>1
  <2>4. keySent[k][w] + Cardinality(KeyWaits(k, w)) \in Nat
    BY <1>1, <1>2
  <2> QED
    BY <1>1, <2>1, <2>2, <2>3, <2>4 DEF KeyRate
<1>6. CASE UNCHANGED vars
  BY <1>1, <1>6 DEF KeyRate, KeyWaits, Ahead, vars, rowVars, historyVars
<1> QED
  BY <1>4, <1>5, <1>6

-----------------------------------------------------------------------------
(* The same for a consumer.                                                *)

LEMMA ConsumerWaitsFinite ==
  ASSUME NEW b, NEW w
  PROVE  IsFiniteSet(ConsumerWaits(b, w)) /\ Cardinality(ConsumerWaits(b, w)) \in Nat
<1>1. ConsumerWaits(b, w) \subseteq Caller
  BY DEF ConsumerWaits
<1> QED
  BY <1>1, Constants, FS_Subset, FS_CardinalityType

\* The numbers that ConsumerRate relates.
LEMMA ConsumerNumbers ==
  ASSUME RateInv, NEW b \in Consumer, NEW w \in Windows
  PROVE  /\ ConsumerRate(b, w) /\ consumerSent[b][w] \in Nat /\ consumerCount[b][w] \in Nat
         /\ consumerCount[b][w] <= ConsumerRpm
         /\ restarts[w] \in Nat /\ ConsumerRpm * restarts[w] \in Nat /\ ConsumerRpm \in Nat
BY Constants DEF RateInv, TypeOK

LEMMA ConsumerRateAdmit ==
  ASSUME RateInv, TypeOK', NEW b \in Consumer, NEW w \in Windows,
         NEW c \in Caller, NEW q \in Key, NEW a \in Consumer, Admit(c, q, a)
  PROVE  ConsumerRate(b, w)'
<1>1. /\ ConsumerRate(b, w) /\ consumerSent[b][w] \in Nat /\ consumerCount[b][w] \in Nat
      /\ restarts[w] \in Nat /\ ConsumerRpm * restarts[w] \in Nat /\ ConsumerRpm \in Nat
  BY ConsumerNumbers
<1>2. IsFiniteSet(ConsumerWaits(b, w)) /\ Cardinality(ConsumerWaits(b, w)) \in Nat
  BY ConsumerWaitsFinite
<1>3. /\ UNCHANGED <<now, consumerSent, restarts>> /\ call[c] = Idle /\ call \in [Caller -> Call]
      /\ call' = [call EXCEPT ![c] = [st |-> "admitted", key |-> q, consumer |-> a,
                                      at |-> now, probe |-> breaker[q].st # "closed"]]
      /\ now \in 0..MaxTime
  BY DEF RateInv, TypeOK, Admit, historyVars
<1>4. Ahead(w)' <=> Ahead(w)
  BY <1>3 DEF Ahead
<1>5. CASE a = b /\ w = WindowOf(now)
  <2>1. ConsumerWaits(b, w)' = ConsumerWaits(b, w) \cup {c} /\ c \notin ConsumerWaits(b, w)
    BY <1>3, <1>5 DEF ConsumerWaits, Idle
  <2>2. Cardinality(ConsumerWaits(b, w)') = Cardinality(ConsumerWaits(b, w)) + 1
    BY <1>2, <2>1, FS_AddElement
  <2>3. consumerCount'[b][w] = consumerCount[b][w] + 1
    BY <1>5 DEF Admit, RateInv, TypeOK
  <2>4. consumerCount'[b][w] <= ConsumerRpm
    BY Constants DEF TypeOK
  <2>5. ~Ahead(w)
    BY <1>3, <1>5 DEF Ahead
  <2>6. consumerSent'[b][w] + Cardinality(ConsumerWaits(b, w)') <= consumerCount'[b][w] + ConsumerRpm * restarts'[w]
    BY <1>1, <1>2, <1>3, <1>5, <2>2, <2>3 DEF ConsumerRate
  <2>7. consumerSent'[b][w] + Cardinality(ConsumerWaits(b, w)') <= ConsumerRpm + ConsumerRpm * restarts'[w]
    BY <1>1, <1>2, <1>3, <2>2, <2>3, <2>4, <2>6
  <2> QED
    BY <1>4, <2>5, <2>6, <2>7 DEF ConsumerRate
<1>6. CASE ~(a = b /\ w = WindowOf(now))
  <2>1. ConsumerWaits(b, w)' = ConsumerWaits(b, w)
    BY <1>3, <1>6 DEF ConsumerWaits, Idle
  <2>2. consumerCount'[b][w] = consumerCount[b][w]
    BY <1>6 DEF Admit, RateInv, TypeOK
  <2> QED
    BY <1>1, <1>3, <1>4, <2>1, <2>2 DEF ConsumerRate
<1> QED
  BY <1>5, <1>6

LEMMA ConsumerRateContinue ==
  ASSUME RateInv, NEW b \in Consumer, NEW w \in Windows, NEW c \in Caller, Continue(c)
  PROVE  ConsumerRate(b, w)'
<1>1. /\ ConsumerRate(b, w) /\ consumerSent[b][w] \in Nat /\ consumerCount[b][w] \in Nat
      /\ restarts[w] \in Nat /\ ConsumerRpm * restarts[w] \in Nat /\ ConsumerRpm \in Nat
  BY ConsumerNumbers
<1>2. IsFiniteSet(ConsumerWaits(b, w)) /\ Cardinality(ConsumerWaits(b, w)) \in Nat
  BY ConsumerWaitsFinite
<1>3. UNCHANGED <<now, consumerCount, restarts>> /\ call \in [Caller -> Call] /\ call[c] \in Call
  BY DEF RateInv, TypeOK, Continue, Refuse, Dispatch, RecordFailure, RecordAnswer,
         rowVars, historyVars
<1>4. Ahead(w)' <=> Ahead(w)
  BY <1>3 DEF Ahead
<1>5. ASSUME consumerSent' = consumerSent, ConsumerWaits(b, w)' \subseteq ConsumerWaits(b, w)
      PROVE  ConsumerRate(b, w)'
  <2>1. /\ Cardinality(ConsumerWaits(b, w)') <= Cardinality(ConsumerWaits(b, w))
        /\ Cardinality(ConsumerWaits(b, w)') \in Nat
    BY <1>2, <1>5, FS_Subset, FS_CardinalityType
  <2> QED
    BY <1>1, <1>2, <1>3, <1>4, <1>5, <2>1 DEF ConsumerRate
<1>6. CASE Refuse(c)
  <2>1. ConsumerWaits(b, w)' \subseteq ConsumerWaits(b, w)
    BY <1>3, <1>6 DEF ConsumerWaits, Refuse, Idle
  <2> QED
    BY <1>5, <1>6, <2>1 DEF Refuse, historyVars
<1>7. CASE RecordFailure(c) \/ RecordAnswer(c)
  <2>1. call' = [call EXCEPT ![c] = Idle] /\ consumerSent' = consumerSent
    BY <1>7 DEF RecordFailure, RecordAnswer
  <2>2. ConsumerWaits(b, w)' \subseteq ConsumerWaits(b, w)
    BY <1>3, <2>1 DEF ConsumerWaits, Idle
  <2> QED
    BY <1>5, <2>1, <2>2
<1>8. CASE Dispatch(c)
  <2>1. /\ call' = [call EXCEPT ![c].st = "sent"] /\ call[c].st = "admitted"
        /\ consumerSent' = [consumerSent EXCEPT ![call[c].consumer][WindowOf(call[c].at)] = @ + 1]
    BY <1>8 DEF Dispatch
  <2>2. /\ call[c] \in [ st : {"admitted", "sent"}, key : Key, consumer : Consumer,
                         at : 0..MaxTime, probe : BOOLEAN ]
        /\ call[c].consumer \in Consumer /\ WindowOf(call[c].at) \in Windows
    BY <1>3, <2>1, CallParts
  <2>3. call'[c].st = "sent" /\ \A d \in Caller \ {c} : call'[d] = call[d]
    BY <1>3, <2>1, <2>2
  <2>4. consumerSent \in [Consumer -> [Windows -> Nat]]
    BY DEF RateInv, TypeOK
  <2>5. CASE call[c].consumer = b /\ WindowOf(call[c].at) = w
    <3>1. ConsumerWaits(b, w)' = ConsumerWaits(b, w) \ {c} /\ c \in ConsumerWaits(b, w)
      BY <2>1, <2>3, <2>5 DEF ConsumerWaits
    <3>2. Cardinality(ConsumerWaits(b, w)') = Cardinality(ConsumerWaits(b, w)) - 1
      BY <1>2, <3>1, FS_RemoveElement
    <3>3. consumerSent'[b][w] = consumerSent[b][w] + 1
      BY <2>1, <2>2, <2>4, <2>5
    <3>4. consumerSent'[b][w] + Cardinality(ConsumerWaits(b, w)') = consumerSent[b][w] + Cardinality(ConsumerWaits(b, w))
      BY <1>1, <1>2, <3>2, <3>3
    <3> QED
      BY <1>1, <1>3, <1>4, <3>4 DEF ConsumerRate
  <2>6. CASE ~(call[c].consumer = b /\ WindowOf(call[c].at) = w)
    <3>1. ConsumerWaits(b, w)' = ConsumerWaits(b, w)
      BY <2>1, <2>3, <2>6 DEF ConsumerWaits
    <3>2. consumerSent'[b][w] = consumerSent[b][w]
      BY <2>1, <2>2, <2>4, <2>6
    <3> QED
      BY <1>1, <1>3, <1>4, <3>1, <3>2 DEF ConsumerRate
  <2> QED
    BY <2>5, <2>6
<1> QED
  BY <1>6, <1>7, <1>8 DEF Continue

LEMMA ConsumerRateOther ==
  ASSUME RateInv, TypeOK', Restart \/ Tick \/ UNCHANGED vars, NEW b \in Consumer, NEW w \in Windows
  PROVE  ConsumerRate(b, w)'
<1>1. /\ ConsumerRate(b, w) /\ consumerSent[b][w] \in Nat /\ consumerCount[b][w] \in Nat
      /\ consumerCount[b][w] <= ConsumerRpm
      /\ restarts[w] \in Nat /\ ConsumerRpm * restarts[w] \in Nat /\ ConsumerRpm \in Nat
  BY ConsumerNumbers
<1>2. IsFiniteSet(ConsumerWaits(b, w)) /\ Cardinality(ConsumerWaits(b, w)) \in Nat
  BY ConsumerWaitsFinite
<1>3. now \in 0..MaxTime /\ MaxTime \in Nat /\ restarts \in [Windows -> 0..MaxRestarts]
  BY Constants DEF RateInv, TypeOK
<1>4. CASE Restart
  <2>1. ConsumerWaits(b, w)' = {}
    BY <1>4 DEF Restart, ConsumerWaits, Idle
  <2>2. Cardinality(ConsumerWaits(b, w)') = 0
    BY <2>1, FS_EmptySet
  <2>3. UNCHANGED <<now, consumerSent>> /\ (Ahead(w)' <=> Ahead(w)) /\ consumerCount'[b][w] = 0
    BY <1>4 DEF Restart, Ahead
  <2>4. CASE w = WindowOf(now)
    <3>1. restarts'[w] = restarts[w] + 1
      BY <1>3, <1>4, <2>4, Constants DEF Restart, RateInv, TypeOK
    <3>2. ConsumerRpm * restarts'[w] = ConsumerRpm + ConsumerRpm * restarts[w]
      BY <1>1, <3>1
    <3> QED
      BY <1>1, <1>2, <2>2, <2>3, <2>4, <3>2 DEF ConsumerRate
  <2>5. CASE w # WindowOf(now)
    <3>1. restarts'[w] = restarts[w]
      BY <1>3, <1>4, <2>5 DEF Restart
    <3> QED
      BY <1>1, <1>2, <2>2, <2>3, <2>5, <3>1 DEF ConsumerRate
  <2> QED
    BY <2>4, <2>5
<1>5. CASE Tick
  <2>1. now' = now + 1 /\ UNCHANGED <<consumerSent, consumerCount, restarts>>
        /\ ConsumerWaits(b, w)' = ConsumerWaits(b, w)
    BY <1>5 DEF Tick, rowVars, historyVars, ConsumerWaits
  <2>2. Ahead(w)' => Ahead(w)
    BY <1>3, <2>1 DEF Ahead
  <2>3. ASSUME w = WindowOf(now + 1) PROVE w = WindowOf(now) \/ Ahead(w)
    <3> SUFFICES ASSUME NEW t \in 0..now, WindowOf(t) = w PROVE w = WindowOf(now)
      BY DEF Ahead
    <3>1. WindowOf(t) <= WindowOf(now) /\ WindowOf(now) <= WindowOf(now + 1)
          /\ WindowOf(t) \in Nat /\ WindowOf(now) \in Nat
      BY <1>3, WindowsInOrder
    <3> QED
      BY <2>3, <3>1
  <2>4. consumerSent[b][w] + Cardinality(ConsumerWaits(b, w)) \in Nat
    BY <1>1, <1>2
  <2> QED
    BY <1>1, <2>1, <2>2, <2>3, <2>4 DEF ConsumerRate
<1>6. CASE UNCHANGED vars
  BY <1>1, <1>6 DEF ConsumerRate, ConsumerWaits, Ahead, vars, rowVars, historyVars
<1> QED
  BY <1>4, <1>5, <1>6

-----------------------------------------------------------------------------
LEMMA RateInit == Init => RateInv
<1> SUFFICES ASSUME Init PROVE RateInv
  OBVIOUS
<1>1. \A c \in Caller : call[c].st = "idle"
  BY DEF Init, Idle
<1>2. ASSUME NEW w \in Windows, NEW k \in Key PROVE KeyRate(k, w)
  <2>1. KeyWaits(k, w) = {}
    BY <1>1 DEF KeyWaits
  <2>2. keySent[k][w] = 0 /\ keyCount[k][w] = 0 /\ restarts[w] = 0
    BY DEF Init
  <2> QED
    BY <2>1, <2>2, FS_EmptySet, Constants DEF KeyRate
<1>3. ASSUME NEW w \in Windows, NEW a \in Consumer PROVE ConsumerRate(a, w)
  <2>1. ConsumerWaits(a, w) = {}
    BY <1>1 DEF ConsumerWaits
  <2>2. consumerSent[a][w] = 0 /\ consumerCount[a][w] = 0 /\ restarts[w] = 0
    BY DEF Init
  <2> QED
    BY <2>1, <2>2, FS_EmptySet, Constants DEF ConsumerRate
<1> QED
  BY <1>1, <1>2, <1>3, TypeInit DEF RateInv

LEMMA RateStep == RateInv /\ [Next]_vars => RateInv'
<1> SUFFICES ASSUME RateInv, [Next]_vars PROVE RateInv'
  OBVIOUS
<1>1. TypeOK'
  BY TypeStep DEF RateInv
<1>2. ASSUME NEW w \in Windows, NEW k \in Key PROVE KeyRate(k, w)'
  BY <1>1, <1>2, KeyRateAdmit, KeyRateContinue, KeyRateOther DEF Next
<1>3. ASSUME NEW w \in Windows, NEW a \in Consumer PROVE ConsumerRate(a, w)'
  BY <1>1, <1>3, ConsumerRateAdmit, ConsumerRateContinue, ConsumerRateOther DEF Next
<1> QED
  BY <1>1, <1>2, <1>3 DEF RateInv

\* What reaches the provider in a window is within key_rpm and consumer_rpm,
\* for any number of concurrent calls; a restart allows as many again.
THEOREM RateKept == Spec => []WithinRate
<1>1. RateInv => WithinRate
  <2> SUFFICES ASSUME RateInv, NEW w \in Windows
               PROVE  /\ \A k \in Key : keySent[k][w] <= KeyRpm * (1 + restarts[w])
                      /\ \A a \in Consumer : consumerSent[a][w] <= ConsumerRpm * (1 + restarts[w])
    BY DEF WithinRate
  <2>1. ASSUME NEW k \in Key PROVE keySent[k][w] <= KeyRpm * (1 + restarts[w])
    BY KeyNumbers, KeyWaitsFinite DEF KeyRate
  <2>2. ASSUME NEW a \in Consumer PROVE consumerSent[a][w] <= ConsumerRpm * (1 + restarts[w])
    BY ConsumerNumbers, ConsumerWaitsFinite DEF ConsumerRate
  <2> QED
    BY <2>1, <2>2
<1> QED
  BY <1>1, RateInit, RateStep, PTL DEF Spec
=============================================================================
