----------------------------- MODULE VaultExecute -----------------------------
(***************************************************************************)
(* _handleExecute of the SubumbraVault Durable Object: the velocity limits *)
(* and the circuit breaker that a provider call passes before its key is   *)
(* decrypted, and the outcome it records after the provider answered.      *)
(*                                                                         *)
(* The checks and the counting are one step, without an await between      *)
(* them.  Decryption and the call to the provider are awaited, and any     *)
(* number of other calls is admitted and recorded meanwhile.               *)
(***************************************************************************)
EXTENDS Integers, FiniteSets

CONSTANTS
  Key, Consumer,
  Caller,           \* concurrent invocations
  KeyRpm, ConsumerRpm, BreakerFailures, Cooldown,   \* the velocity block
  Window,           \* length of a counting window, in clock units
  Refusals,         \* may the vault refuse a call that it has admitted?
  MaxRestarts,      \* bound on the restarts of the object
  MaxTime           \* bound on the clock

ASSUME VaultExecuteAssumption ==
  /\ {KeyRpm, ConsumerRpm, BreakerFailures, Cooldown, Window} \subseteq Nat \ {0}
  /\ MaxRestarts \in Nat /\ MaxTime \in Nat
  /\ Refusals \in BOOLEAN
  /\ IsFiniteSet(Caller)

VARIABLES
  now,            \* nowSeconds
  keyCount,       \* velocity_counters, scope 'key', per window
  consumerCount,  \* velocity_counters, scope 'consumer', per window
  breaker,        \* circuit_breaker_state; no row is a closed breaker
  call,           \* the invocations
  \* history
  keySent,        \* calls that reached the provider, by window of admission
  consumerSent,
  restarts,       \* restarts of the object, by window
  streak,         \* tracked failures in a row, as they came in
  trippedAt       \* when the breaker last opened

rowVars     == <<keyCount, consumerCount, breaker>>
historyVars == <<keySent, consumerSent, restarts, streak, trippedAt>>
vars        == <<now, rowVars, call, historyVars>>

WindowOf(t) == t \div Window
Windows     == {WindowOf(t) : t \in 0..MaxTime}

Breaker == [ st : {"closed", "open", "half_open"}, failures : Nat,
             opened : 0..MaxTime, probing : BOOLEAN ]
Closed  == [st |-> "closed", failures |-> 0, opened |-> 0, probing |-> FALSE]

Idle == [st |-> "idle"]
Call == {Idle} \cup [ st : {"admitted", "sent"}, key : Key, consumer : Consumer,
                      at : 0..MaxTime, probe : BOOLEAN ]

-----------------------------------------------------------------------------
(* Before the call: the limits, the breaker, the counts.                   *)

\* Mutant: the limits are inclusive.
UpToLimits(k, a) == /\ keyCount[k][WindowOf(now)] <= KeyRpm
                    /\ consumerCount[a][WindowOf(now)] <= ConsumerRpm

UnderLimits(k, a) == /\ keyCount[k][WindowOf(now)] < KeyRpm
                     /\ consumerCount[a][WindowOf(now)] < ConsumerRpm

CooledDown(b) == b.st = "open" /\ now - b.opened >= Cooldown

\* A call that does not pass, or is over a limit, gets a 429 and changes nothing.
Passes(b) == b.st = "closed" \/ CooledDown(b) \/ (b.st = "half_open" /\ ~b.probing)

\* Mutant: the probe is not marked.
AdmitUnmarked(c, k, a) ==
  LET b == breaker[k]
      w == WindowOf(now)
  IN
  /\ call[c] = Idle
  /\ UnderLimits(k, a)
  /\ Passes(b)
  /\ breaker' = IF b.st = "open" THEN [breaker EXCEPT ![k].st = "half_open"] ELSE breaker
  /\ keyCount' = [keyCount EXCEPT ![k][w] = @ + 1]
  /\ consumerCount' = [consumerCount EXCEPT ![a][w] = @ + 1]
  /\ call' = [call EXCEPT ![c] = [st |-> "admitted", key |-> k, consumer |-> a,
                                  at |-> now, probe |-> b.st # "closed"]]
  /\ UNCHANGED <<now, historyVars>>

Admit(c, k, a) ==
  LET b == breaker[k]
      w == WindowOf(now)
  IN
  /\ call[c] = Idle
  /\ UnderLimits(k, a)
  /\ Passes(b)
  /\ breaker' = IF b.st = "open"
                THEN [breaker EXCEPT ![k].st = "half_open", ![k].probing = TRUE]
                ELSE breaker
  /\ keyCount' = [keyCount EXCEPT ![k][w] = @ + 1]
  /\ consumerCount' = [consumerCount EXCEPT ![a][w] = @ + 1]
  /\ call' = [call EXCEPT ![c] = [st |-> "admitted", key |-> k, consumer |-> a,
                                  at |-> now, probe |-> b.st # "closed"]]
  /\ UNCHANGED <<now, historyVars>>

\* No custody row, a record that does not decrypt, an unknown auth scheme:
\* the answer leaves here, and nothing is recorded.
Refuse(c) ==
  /\ Refusals
  /\ call[c].st = "admitted"
  /\ call' = [call EXCEPT ![c] = Idle]
  /\ UNCHANGED <<now, rowVars, historyVars>>

\* Mutant: a call to the provider is retried, and counted once.
DispatchRetrying(c) ==
  LET w == WindowOf(call[c].at) IN
  /\ call[c].st \in {"admitted", "sent"}
  /\ call' = [call EXCEPT ![c].st = "sent"]
  /\ keySent' = [keySent EXCEPT ![call[c].key][w] = @ + 1]
  /\ consumerSent' = [consumerSent EXCEPT ![call[c].consumer][w] = @ + 1]
  /\ UNCHANGED <<now, rowVars, restarts, streak, trippedAt>>

Dispatch(c) ==
  LET w == WindowOf(call[c].at) IN
  /\ call[c].st = "admitted"
  /\ call' = [call EXCEPT ![c].st = "sent"]
  /\ keySent' = [keySent EXCEPT ![call[c].key][w] = @ + 1]
  /\ consumerSent' = [consumerSent EXCEPT ![call[c].consumer][w] = @ + 1]
  /\ UNCHANGED <<now, rowVars, restarts, streak, trippedAt>>

-----------------------------------------------------------------------------
(* After the call: the outcome.                                            *)

Opened(failures, at) ==
  [st |-> "open", failures |-> failures, opened |-> at, probing |-> FALSE]

Greater(m, n) == IF m >= n THEN m ELSE n

\* A transport error, a 401 or a 5xx.
AfterFailure(b, at) ==
  CASE b.st = "closed" /\ b.failures + 1 >= BreakerFailures -> Opened(b.failures + 1, at)
    [] b.st = "closed" /\ b.failures + 1 < BreakerFailures ->
         [b EXCEPT !.failures = @ + 1]
    [] b.st = "half_open" -> Opened(Greater(BreakerFailures, b.failures + 1), at)
    [] b.st = "open" -> b

\* Mutant: a success does not end the row of failures.
AfterAnswerCounting(b, is2xx) ==
  IF b.st = "half_open" THEN Closed ELSE b

\* Mutant: a success closes the breaker whatever its state.
AfterAnswerClosing(b, is2xx) ==
  IF is2xx THEN [b EXCEPT !.st = "closed", !.failures = 0, !.probing = FALSE] ELSE b

\* A 2xx ends the row of failures, any other answer leaves it; a breaker that
\* is half open closes on either.
AfterAnswer(b, is2xx) ==
  CASE b.st = "closed"    -> IF is2xx THEN [b EXCEPT !.failures = 0] ELSE b
    [] b.st = "half_open" -> [b EXCEPT !.st = "closed", !.failures = 0, !.probing = FALSE]
    [] b.st = "open"      -> b

RecordFailure(c) ==
  LET k == call[c].key IN
  /\ call[c].st = "sent"
  /\ breaker' = [breaker EXCEPT ![k] = AfterFailure(@, call[c].at)]
  /\ call' = [call EXCEPT ![c] = Idle]
  /\ streak' = [streak EXCEPT ![k] = @ + 1]
  /\ trippedAt' = IF breaker'[k].st = "open" /\ breaker[k].st # "open"
                  THEN [trippedAt EXCEPT ![k] = now] ELSE trippedAt
  /\ UNCHANGED <<now, keyCount, consumerCount, keySent, consumerSent, restarts>>

RecordAnswer(c) ==
  LET k == call[c].key IN
  /\ call[c].st = "sent"
  /\ \E is2xx \in BOOLEAN :
       /\ breaker' = [breaker EXCEPT ![k] = AfterAnswer(@, is2xx)]
       /\ streak' = IF is2xx THEN [streak EXCEPT ![k] = 0] ELSE streak
  /\ call' = [call EXCEPT ![c] = Idle]
  /\ UNCHANGED <<now, keyCount, consumerCount, keySent, consumerSent, restarts, trippedAt>>

-----------------------------------------------------------------------------
\* The constructor runs VAULT_MIGRATIONS, which drops velocity_counters.  The
\* breakers stay, what was under way does not.
Restart ==
  /\ \A w \in Windows : restarts[w] < MaxRestarts
  /\ restarts' = [restarts EXCEPT ![WindowOf(now)] = @ + 1]
  /\ keyCount' = [k \in Key |-> [w \in Windows |-> 0]]
  /\ consumerCount' = [a \in Consumer |-> [w \in Windows |-> 0]]
  /\ call' = [c \in Caller |-> Idle]
  /\ UNCHANGED <<now, breaker, keySent, consumerSent, streak, trippedAt>>

Tick ==
  /\ now < MaxTime
  /\ now' = now + 1
  /\ UNCHANGED <<rowVars, call, historyVars>>

Init ==
  /\ now = 0
  /\ keyCount = [k \in Key |-> [w \in Windows |-> 0]]
  /\ consumerCount = [a \in Consumer |-> [w \in Windows |-> 0]]
  /\ breaker = [k \in Key |-> Closed]
  /\ call = [c \in Caller |-> Idle]
  /\ keySent = keyCount /\ consumerSent = consumerCount
  /\ restarts = [w \in Windows |-> 0]
  /\ streak = [k \in Key |-> 0]
  /\ trippedAt = [k \in Key |-> 0]

\* The rest of an invocation: the platform runs it on, and the provider
\* answers or the connection fails.
Continue(c) == Refuse(c) \/ Dispatch(c) \/ RecordFailure(c) \/ RecordAnswer(c)

Next ==
  \/ \E c \in Caller, k \in Key, a \in Consumer : Admit(c, k, a)
  \/ \E c \in Caller : Continue(c)
  \/ Restart
  \/ Tick

Spec     == Init /\ [][Next]_vars
FairSpec == Spec /\ \A c \in Caller : WF_vars(Continue(c))

-----------------------------------------------------------------------------
TypeOK ==
  /\ now \in 0..MaxTime
  /\ keyCount \in [Key -> [Windows -> 0..KeyRpm]]
  /\ consumerCount \in [Consumer -> [Windows -> 0..ConsumerRpm]]
  /\ breaker \in [Key -> Breaker]
  /\ call \in [Caller -> Call]
  /\ keySent \in [Key -> [Windows -> Nat]]
  /\ consumerSent \in [Consumer -> [Windows -> Nat]]
  /\ restarts \in [Windows -> 0..MaxRestarts]
  /\ streak \in [Key -> Nat]
  /\ trippedAt \in [Key -> 0..MaxTime]

\* What reaches the provider in a window stays within key_rpm and
\* consumer_rpm, however many calls are under way at once; an object that
\* restarts in that window starts its count anew.
WithinRate ==
  \A w \in Windows :
    /\ \A k \in Key : keySent[k][w] <= KeyRpm * (1 + restarts[w])
    /\ \A a \in Consumer : consumerSent[a][w] <= ConsumerRpm * (1 + restarts[w])

\* The breaker opens on failures in a row: a key whose provider answered in
\* between keeps its breaker closed, in whatever order the outcomes of
\* concurrent calls come in.
TripsOnStreak ==
  [][\A k \in Key :
       breaker[k].st = "closed" /\ breaker'[k].st = "open" => streak'[k] >= BreakerFailures]_vars

\* An open breaker stays open until a probe is admitted: the success of a call
\* that was under way when the breaker opened does not close it.  Once the probe
\* is admitted any outcome counts, that of such a call too.
OpenUntilProbed ==
  [][\A k \in Key : breaker[k].st = "open" => breaker'[k].st \in {"open", "half_open"}]_vars

\* A half-open breaker is waiting for its probe: it does not stay half open
\* for ever, refusing every call.
ProbeConcludes == \A k \in Key : breaker[k].st = "half_open" ~> breaker[k].st # "half_open"

\* Probes that were admitted since the breaker of their key last opened.
ProbesSinceOpening(k) ==
  {c \in Caller : /\ call[c] # Idle /\ call[c].key = k
                 /\ call[c].probe /\ call[c].at > trippedAt[k]}

\* Of the calls that ask when the breaker has cooled down one is let through:
\* no two probes of one opening are under way together, though outcomes of
\* older calls are recorded against the breaker meanwhile
\* (half_open_probe_active).  An opening begins after the second it falls in;
\* a stale failure that reopens the breaker begins another.
OneProbePerOpening ==
  \A k \in Key : \A c, d \in ProbesSinceOpening(k) : c = d
=============================================================================
