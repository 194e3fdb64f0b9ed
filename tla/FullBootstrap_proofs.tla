-------------------------- MODULE FullBootstrap_proofs --------------------------
(***************************************************************************)
(* Proofs about FullBootstrap for every set of keys and vaults, every      *)
(* manifest and all policies, and for any number of commands.              *)
(***************************************************************************)
EXTENDS FullBootstrap, TLAPS

-----------------------------------------------------------------------------
(* Types.                                                                  *)

Operation == {"none", "revoke", "offline", "rotate", "publish", "push", "ssh",
              "provision", "bootstrap", "nuke"}

Cmd == [ op : Operation, k : Key \cup {NoKey}, ph : Phase, todo : SUBSET (Key \cup Vault),
         new : Record, known : SUBSET Key, halted : SUBSET Key, keys : SUBSET Key,
         failed : BOOLEAN ]

\* What the command of a phase is about, and what its loop is over.
Stages ==
  /\ cmd.ph \in {"lend", "vault", "reclaim", "write", "unlist", "unlistPolicy"} => cmd.k \in Key
  /\ cmd.ph \in {"reset", "keygen", "keyFile"} => cmd.todo \in (SUBSET Vault) \ {{}}
  /\ cmd.ph = "read" => cmd.todo \in (SUBSET Key) \ {{}}
  /\ cmd.ph = "again" => cmd.todo \in (SUBSET Live) \ {{}}
  /\ cmd.ph = "sshKeys" => cmd.todo \in SUBSET Ssh
  /\ toggle.ph # "idle" => toggle.k \in Key

Typed == TypeOK /\ cmd \in Cmd /\ Stages

LEMMA Constants ==
  /\ NoKey \notin Key /\ Manifest \subseteq Key /\ Manifest # {} /\ Pausable \subseteq Key
  /\ VaultOf \in [Key -> Vault] /\ MaxCommands \in Nat /\ MaxRequests \in Nat
  /\ \A k \in Key, p \in Version : PolicyId[k][p] \in Name
  /\ 0 \notin Version /\ 0 \notin Keypair
  /\ \A k \in Key : Policies[k] \subseteq Version
BY KeyAssumption

LEMMA FirstIn == ASSUME NEW S, S # {} PROVE First(S) \in S
BY DEF First

Counts    == [commands : 0 .. MaxCommands, requests : 0 .. MaxRequests]
PolicyRow == [of : Key \cup {NoKey}, pv : Version \cup {0}]

LEMMA HashType ==
  /\ \A p \in Version \cup {0} : HashOf(p) \in {HashOf(q) : q \in Version \cup {0}}
  /\ \A p \in Version : HashOf(p) = Baseline[p]
BY Constants DEF HashOf

LEMMA RecordTypes ==
  /\ Absent \in Record
  /\ \A p \in Version : SshRecord(p) \in Record
  /\ \A x \in Record, p \in Version :
       /\ [x EXCEPT !.pv = p, !.hash = HashOf(p)] \in Record
       /\ [x EXCEPT !.pv = p] \in Record
  /\ \A x \in Record : [x EXCEPT !.st = "revoked"] \in Record
  /\ \A x \in Record, n \in Keypair \cup {0} :
       /\ [x EXCEPT !.key = n] \in Record
       /\ [x EXCEPT !.st = "live", !.key = n] \in Record
  /\ \A p \in Version, n \in Keypair \cup {0} :
       [st |-> "live", pv |-> p, hash |-> HashOf(p), key |-> n] \in Record
<1>1. /\ 0 \in {HashOf(q) : q \in Version \cup {0}}
      /\ \A p \in Version : HashOf(p) \in {HashOf(q) : q \in Version \cup {0}}
  BY DEF HashOf
<1>2. Absent \in Record /\ \A p \in Version : SshRecord(p) \in Record
  BY <1>1 DEF Absent, SshRecord, Record
<1>3. \A x \in Record, p \in Version :
       /\ [x EXCEPT !.pv = p, !.hash = HashOf(p)] \in Record
       /\ [x EXCEPT !.pv = p] \in Record
  BY <1>1 DEF Record
<1>4. \A x \in Record : [x EXCEPT !.st = "revoked"] \in Record
  BY DEF Record
<1>5. \A x \in Record, n \in Keypair \cup {0} :
       /\ [x EXCEPT !.key = n] \in Record
       /\ [x EXCEPT !.st = "live", !.key = n] \in Record
  BY DEF Record
<1>6. \A p \in Version, n \in Keypair \cup {0} :
       [st |-> "live", pv |-> p, hash |-> HashOf(p), key |-> n] \in Record
  BY <1>1 DEF Record
<1> QED
  BY <1>2, <1>3, <1>4, <1>5, <1>6

LEMMA NoCmdType == NoCmd \in Cmd /\ NoCmd.ph = "idle"
BY RecordTypes DEF NoCmd, Cmd, Operation, Phase

LEMMA TypedInit == Init => Typed
<1> SUFFICES ASSUME Init PROVE Typed
  OBVIOUS
<1>1. cmd \in Cmd /\ cmd.ph = "idle" /\ toggle.ph = "idle"
  BY NoCmdType DEF Init, NoToggle
<1>2. Unlisted \in Entry /\ toggle \in [ph : {"idle", "read", "put"}, k : Key \cup {NoKey}, old : Entry]
  BY DEF Unlisted, Entry, NoToggle, Init
<1>3. rec \in [Key -> Record] /\ entry \in [Key -> Entry]
  BY <1>2, RecordTypes DEF Init
<1>4. Stages
  BY <1>1 DEF Stages
<1>5. {keysFile, cfgFile, envToken, token, excused} \subseteq BOOLEAN
  BY DEF Init
<1>6. /\ policy \in [Name -> PolicyRow] /\ sshKey \in [Key -> Keypair \cup {0}]
      /\ {vault, pkFile} \subseteq [Vault -> Keypair \cup {0}]
  BY DEF Init, NoPolicy, PolicyRow
<1>7. ran \in Counts /\ {behind, gone, paused, crossed, torn} \subseteq SUBSET Key
      /\ cut \subseteq Vault
  BY Constants DEF Init, Counts
<1> QED
  BY <1>1, <1>2, <1>3, <1>4, <1>5, <1>6, <1>7 DEF Typed, TypeOK, Cmd, Counts, PolicyRow

-----------------------------------------------------------------------------
(* How a command begins.                                                   *)

Boot == {"deploy", "secrets", "reset", "wipe", "forget", "files", "redeploy", "resecrets",
         "keygen", "keyFile", "material", "sshKeys"}

Begins ==
  \/ \E k \in Key :
       \/ RevokeKey(k) \/ RevokeAgain(k) \/ Rotate(k)
       \/ \E p \in Policies[k] :
            \/ Reencrypt(k, p) \/ UpdatePolicy(k, p)
            \/ AddSshKey(k, p) \/ RotateSshKey(k, p) \/ Provision(k, p)
  \/ PushRegistry
  \/ \E p \in Version : Bootstrap(p)

Revoking(c) == /\ c.op \in {"revoke", "offline"} /\ c.ph = "write" /\ c.k \in Live
               /\ c.new = [rec[c.k] EXCEPT !.st = "revoked"]
RevokingAgain(c) == c.op = "revoke" /\ c.ph = "unlist" /\ c.k \in Key /\ rec[c.k].st = "revoked"
Rotating(c) == /\ c.op = "rotate" /\ c.ph = "write" /\ c.k \in Key \ Ssh
               /\ pkFile[VaultOf[c.k]] # 0 /\ rec[c.k].st # "absent" /\ Intact(c.k)
               /\ c.new = Rotated(c.k)
Replacing(c) == /\ c.op = "publish" /\ c.ph = "write" /\ c.k \in Live
                /\ c.new.st = "live" /\ c.new.key = rec[c.k].key
                /\ c.new.pv \in Version /\ c.new.hash = Baseline[c.new.pv]
Adding(c) == /\ c.op = "ssh" /\ c.ph = "lend" /\ c.k \in Ssh
             /\ c.new.st = "live" /\ c.new.pv \in Version
Providing(c) == /\ c.op = "provision" /\ c.ph = "write" /\ c.k \in Key \ Ssh
                /\ c.new.st = "live" /\ c.new.pv \in Version
                /\ c.new.hash = Baseline[c.new.pv]
                /\ c.new.key = pkFile[VaultOf[c.k]] /\ pkFile[VaultOf[c.k]] # 0
Booting(c) == /\ c.op \in {"bootstrap", "nuke"} /\ c.ph = "deploy" /\ c.new.pv \in Version
              /\ c.op = "bootstrap" => ~cfgFile

LEMMA BeginParts ==
  ASSUME Typed, NEW op \in Operation, NEW k \in Key, NEW ph \in Phase, NEW new \in Record,
         Begin(op, k, ph, new)
  PROVE  \E c \in Cmd : Run(c) /\ c.op = op /\ c.k = k /\ c.ph = ph /\ c.new = new
<1> DEFINE c == [NoCmd EXCEPT !.op = op, !.k = k, !.ph = ph, !.new = new]
<1>1. NoCmd \in Cmd
  BY NoCmdType
<1>2. c \in Cmd
  BY <1>1 DEF Cmd
<1>3. c.op = op /\ c.k = k /\ c.ph = ph /\ c.new = new
  BY <1>1 DEF Cmd
<1>4. Run(c)
  BY DEF Begin
<1> HIDE DEF c
<1> QED
  BY <1>2, <1>3, <1>4

LEMMA HowBegun ==
  ASSUME Typed, Begins
  PROVE  \E c \in Cmd :
           /\ Run(c)
           /\ \/ Revoking(c) \/ RevokingAgain(c) \/ Rotating(c) \/ Replacing(c)
              \/ Adding(c) \/ Providing(c) \/ Booting(c)
              \/ c.op = "push" /\ c.ph = "publish" /\ c.halted = {}
<1> DEFINE Begun(c) == \/ Revoking(c) \/ RevokingAgain(c) \/ Rotating(c) \/ Replacing(c)
                       \/ Adding(c) \/ Providing(c) \/ Booting(c)
                       \/ (c.op = "push" /\ c.ph = "publish" /\ c.halted = {})
<1>1. /\ {"revoke", "offline", "rotate", "publish", "push", "ssh", "provision", "bootstrap", "nuke"} \subseteq Operation
      /\ {"write", "unlist", "lend", "publish", "deploy"} \subseteq Phase
      /\ rec \in [Key -> Record] /\ pkFile \in [Vault -> Keypair \cup {0}]
  BY DEF Operation, Phase, Typed, TypeOK
<1>2. ASSUME NEW k \in Key, RevokeKey(k) PROVE \E c \in Cmd : Run(c) /\ Begun(c)
  <2>1. [rec[k] EXCEPT !.st = "revoked"] \in Record
    BY <1>1, RecordTypes
  <2>2. PICK op \in {"revoke", "offline"} : Begin(op, k, "write", [rec[k] EXCEPT !.st = "revoked"])
    BY <1>2 DEF RevokeKey, RevokeOps
  <2>3. k \in Live
    BY <1>2 DEF RevokeKey
  <2>4. PICK c \in Cmd : /\ Run(c) /\ c.op = op /\ c.k = k /\ c.ph = "write"
                         /\ c.new = [rec[k] EXCEPT !.st = "revoked"]
    BY <1>1, <2>1, <2>2, BeginParts
  <2>5. Revoking(c)
    BY <2>2, <2>3, <2>4 DEF Revoking
  <2> QED
    BY <2>4, <2>5
<1>3. ASSUME NEW k \in Key, RevokeAgain(k) PROVE \E c \in Cmd : Run(c) /\ Begun(c)
  BY <1>1, <1>3, BeginParts DEF RevokeAgain, RevokingAgain
<1>4. ASSUME NEW k \in Key, Rotate(k) PROVE \E c \in Cmd : Run(c) /\ Begun(c)
  <2>1. Rotated(k) \in Record
    BY <1>1, RecordTypes, Constants DEF Rotated
  <2>2. Begin("rotate", k, "write", Rotated(k)) /\ k \in Key \ Ssh
        /\ pkFile[VaultOf[k]] # 0 /\ rec[k].st # "absent" /\ Intact(k)
    BY <1>4 DEF Rotate
  <2> QED
    BY <1>1, <2>1, <2>2, BeginParts DEF Rotating
<1>5. ASSUME NEW k \in Live, NEW new \in Record, Begin("publish", k, "write", new),
             new.st = "live", new.key = rec[k].key, new.pv \in Version,
             new.hash = Baseline[new.pv]
      PROVE  \E c \in Cmd : Run(c) /\ Begun(c)
  BY <1>1, <1>5, BeginParts DEF Replacing, Live
<1>6. ASSUME NEW k \in Live, NEW p \in Version, Begin("publish", k, "write", Rewritten(k, p))
      PROVE  \E c \in Cmd : Run(c) /\ Begun(c)
  <2>1. Rewritten(k, p) \in Record
    BY <1>1, RecordTypes DEF Rewritten, Live
  <2>2. Rewritten(k, p).st = "live" /\ Rewritten(k, p).key = rec[k].key
        /\ Rewritten(k, p).pv = p /\ Rewritten(k, p).hash = HashOf(p)
    BY <1>1 DEF Rewritten, Record, Live
  <2> QED
    BY <1>5, <1>6, <2>1, <2>2, HashType
<1>7. ASSUME NEW k \in Key, NEW p \in Policies[k], Reencrypt(k, p)
      PROVE  \E c \in Cmd : Run(c) /\ Begun(c)
  BY <1>6, <1>7, Constants DEF Reencrypt
<1>8. ASSUME NEW k \in Key, NEW p \in Policies[k], UpdatePolicy(k, p)
      PROVE  \E c \in Cmd : Run(c) /\ Begun(c)
  <2>1. p \in Version /\ k \in Live
    BY <1>8, Constants DEF UpdatePolicy
  <2>2. CASE Begin("publish", k, "write", Rewritten(k, p))
    BY <1>6, <2>1, <2>2
  <2>3. CASE SameHash(k, p) /\ Begin("publish", k, "write", Relabelled(k, p))
    <3>1. Relabelled(k, p) \in Record
      BY <1>1, <2>1, RecordTypes DEF Relabelled
    <3>2. Relabelled(k, p).st = "live" /\ Relabelled(k, p).key = rec[k].key
          /\ Relabelled(k, p).pv = p /\ Relabelled(k, p).hash = HashOf(p)
      BY <1>1, <2>1, <2>3 DEF Relabelled, SameHash, Record, Live
    <3> QED
      BY <1>5, <2>1, <2>3, <3>1, <3>2, HashType
  <2> QED
    BY <1>8, <2>2, <2>3 DEF UpdatePolicy
<1>9. ASSUME NEW k \in Key, NEW p \in Policies[k], AddSshKey(k, p) \/ RotateSshKey(k, p)
      PROVE  \E c \in Cmd : Run(c) /\ Begun(c)
  <2>1. p \in Version /\ k \in Ssh /\ k \in Key
    BY <1>9, Constants DEF AddSshKey, RotateSshKey
  <2>2. PICK new \in Record : Begin("ssh", k, "lend", new) /\ new.st = "live" /\ new.pv = p
    <3>1. CASE AddSshKey(k, p)
      BY <2>1, <3>1, RecordTypes DEF AddSshKey, SshRecord
    <3>2. CASE RotateSshKey(k, p)
      <4>1. [rec[k] EXCEPT !.pv = p, !.hash = HashOf(p)] \in Record
        BY <1>1, <2>1, RecordTypes
      <4>2. rec[k].st = "live" /\ rec[k] \in Record
        BY <1>1, <3>2 DEF RotateSshKey, Live
      <4>3. LET n == [rec[k] EXCEPT !.pv = p, !.hash = HashOf(p)] IN n.st = "live" /\ n.pv = p
        BY <4>2 DEF Record
      <4> QED
        BY <3>2, <4>1, <4>3 DEF RotateSshKey
    <3> QED
      BY <1>9, <3>1, <3>2
  <2> QED
    BY <1>1, <2>1, <2>2, BeginParts DEF Adding
<1>10. ASSUME NEW k \in Key, NEW p \in Policies[k], Provision(k, p)
       PROVE  \E c \in Cmd : Run(c) /\ Begun(c)
  <2> DEFINE new == [st |-> "live", pv |-> p, hash |-> HashOf(p), key |-> pkFile[VaultOf[k]]]
  <2>1. p \in Version /\ k \notin Ssh /\ pkFile[VaultOf[k]] # 0
    BY <1>10, Constants DEF Provision, Declared
  <2>2. new \in Record
    BY <1>1, <2>1, RecordTypes, Constants
  <2>3. new.st = "live" /\ new.pv = p /\ new.hash = Baseline[p] /\ new.key = pkFile[VaultOf[k]]
    BY <2>1, HashType
  <2>4. Begin("provision", k, "write", new)
    BY <1>10 DEF Provision
  <2> HIDE DEF new
  <2> QED
    BY <1>1, <2>1, <2>2, <2>3, <2>4, BeginParts DEF Providing
<1>11. ASSUME PushRegistry PROVE \E c \in Cmd : Run(c) /\ Begun(c)
  <2> DEFINE d == [NoCmd EXCEPT !.op = "push", !.k = NoKey, !.ph = "publish", !.new = Absent]
  <2>1. d \in Cmd /\ d.op = "push" /\ d.ph = "publish" /\ d.halted = {}
    BY RecordTypes DEF NoCmd, Cmd, Operation, Phase
  <2>2. Run(d)
    BY <1>11 DEF PushRegistry, Begin
  <2> HIDE DEF d
  <2> QED
    BY <2>1, <2>2
<1>12. ASSUME NEW p \in Version, Bootstrap(p) PROVE \E c \in Cmd : Run(c) /\ Begun(c)
  <2> DEFINE d == [NoCmd EXCEPT !.op = IF Destructive THEN "nuke" ELSE "bootstrap",
                                !.ph = "deploy", !.new.pv = p]
  <2>1. [Absent EXCEPT !.pv = p] \in Record
    BY RecordTypes
  <2>2. d \in Cmd
    BY <2>1 DEF NoCmd, Cmd, Operation, Phase
  <2>3. d.op = (IF cfgFile THEN "nuke" ELSE "bootstrap") /\ d.ph = "deploy" /\ d.new.pv = p
    BY DEF NoCmd, Destructive, Absent
  <2>4. Run(d)
    BY <1>12 DEF Bootstrap
  <2> HIDE DEF d
  <2> QED
    BY <2>2, <2>3, <2>4 DEF Booting
<1> HIDE DEF Begun
<1>13. \E c \in Cmd : Run(c) /\ Begun(c)
  BY <1>2, <1>3, <1>4, <1>7, <1>8, <1>9, <1>10, <1>11, <1>12 DEF Begins
<1> QED
  BY <1>13 DEF Begun

-----------------------------------------------------------------------------
(* Types are kept.                                                         *)

BootRest ==
  \/ Deploy \/ Secrets \/ ResetVault \/ WipeNamespace \/ ForgetNamespace
  \/ DeleteFiles \/ ReuseKeypair \/ Keygen \/ KeygenFails \/ StorePublicKey
  \/ Material \/ ProvideSshKey \/ WriteAll

LEMMA StepCases == Next <=> Begins \/ DeployWorker \/ KeyStep \/ Management \/ BootRest
BY DEF Next, BootstrapStep, BootRest, KeyCommand, Begins

Flags  == {keysFile, cfgFile, envToken, token, excused} \subseteq BOOLEAN
Stores == /\ rec \in [Key -> Record] /\ entry \in [Key -> Entry]
          /\ policy \in [Name -> PolicyRow] /\ sshKey \in [Key -> Keypair \cup {0}]
          /\ vault \in [Vault -> Keypair \cup {0}] /\ pkFile \in [Vault -> Keypair \cup {0}]
Marks  == /\ behind \subseteq Key /\ gone \subseteq Key /\ paused \subseteq Key
          /\ crossed \subseteq Key /\ torn \subseteq Key /\ cut \subseteq Vault
Control == /\ cmd \in Cmd /\ ran \in Counts /\ Stages
           /\ toggle \in [ph : {"idle", "read", "put"}, k : Key \cup {NoKey}, old : Entry]

LEMMA TypedParts == Typed <=> Flags /\ Stores /\ Marks /\ Control
BY DEF Typed, TypeOK, Cmd, Flags, Stores, Marks, Control, Counts, PolicyRow

\* A command that begins changes itself and its count.
LEMMA BeginControl ==
  ASSUME Typed, Begins
  PROVE  /\ Control' /\ cmd = NoCmd
         /\ UNCHANGED <<localVars, kvVars, workerVars, toggle, kvHistory, keyHistory>>
<1>1. PICK c \in Cmd :
         /\ Run(c)
         /\ \/ Revoking(c) \/ RevokingAgain(c) \/ Rotating(c) \/ Replacing(c)
            \/ Adding(c) \/ Providing(c) \/ Booting(c)
            \/ (c.op = "push" /\ c.ph = "publish" /\ c.halted = {})
  BY HowBegun
<1>2. cmd' = c /\ ran' \in Counts /\ cmd = NoCmd
      /\ UNCHANGED <<localVars, kvVars, workerVars, toggle, kvHistory, keyHistory>>
  BY <1>1, Constants DEF Run, Typed, TypeOK, Counts
<1>3. Stages'
  BY <1>1, <1>2 DEF Typed, Stages, Revoking, RevokingAgain, Rotating, Replacing, Adding,
                    Providing, Booting, Live, Ssh
<1> QED
  BY <1>2, <1>3 DEF Control, Typed, TypeOK

LEMMA FlagsStep == ASSUME Typed, Next PROVE Flags'
<1>1. keysFile \in BOOLEAN /\ cfgFile \in BOOLEAN /\ envToken \in BOOLEAN
      /\ token \in BOOLEAN /\ excused \in BOOLEAN
  BY DEF Typed, TypeOK
<1>2. CASE Begins
  BY <1>1, <1>2, BeginControl DEF Flags, localVars, workerVars, keyHistory
<1>3. CASE Management
  BY <1>1, <1>3 DEF Flags, Management, ToggleRead, TogglePut, ToggleRevert, ToggleDone, TogglePuts,
                    localVars, workerVars, keyHistory
<1>4. CASE VaultCall \/ UnlistPolicy \/ ReadEntry \/ PutEntries \/ PutAgain \/ Await
  BY <1>1, <1>4 DEF Flags, VaultCall, UnlistPolicy, ReadEntry, PutEntries, PutAgain, Await,
                    localVars, workerVars, keyHistory
<1>14. CASE PutFails
  BY <1>1, <1>14 DEF Flags, PutFails, localVars, workerVars
<1>5. CASE LendToken \/ UnlistKey \/ CleanEnv \/ DeployWorker \/ Deploy
  BY <1>1, <1>5 DEF Flags, LendToken, UnlistKey, CleanEnv, DeployWorker, Deploy, Bind,
                    localVars, workerVars, keyHistory
<1>6. CASE Reclaim
  BY <1>1, <1>6 DEF Flags, Reclaim, TakeBack, Bind
<1>7. CASE Write \/ WriteAll
  BY <1>1, <1>7 DEF Flags, Write, WriteAll, Store, workerVars
<1>8. CASE Publish
  BY <1>1, <1>8 DEF Flags, Publish, Bind, workerVars
<1>9. CASE Clean
  BY <1>1, <1>9 DEF Flags, Clean, Bind
<1>10. CASE Abort
  BY <1>1, <1>10 DEF Flags, Abort, localVars, workerVars
<1>11. CASE Secrets \/ ForgetNamespace
  BY <1>1, <1>11 DEF Flags, Secrets, KeepToken, ForgetNamespace, workerVars, keyHistory
<1>12. CASE ProvideSshKey
  BY <1>1, <1>12 DEF Flags, ProvideSshKey, localVars
<1>13. CASE \/ ResetVault \/ WipeNamespace \/ DeleteFiles \/ ReuseKeypair \/ Keygen
            \/ KeygenFails \/ StorePublicKey \/ Material
  BY <1>1, <1>13 DEF Flags, ResetVault, WipeNamespace, DeleteFiles, ReuseKeypair, Keygen,
       KeygenFails, StorePublicKey, Material, localVars, workerVars, keyHistory
<1> QED
  BY StepCases, <1>2, <1>3, <1>4, <1>5, <1>6, <1>7, <1>8, <1>9, <1>10, <1>11, <1>12, <1>13, <1>14
     DEF KeyStep, BootRest

\* What a put writes, and about which keys: Live ones.
LEMMA FirstOfIs ==
  ASSUME NEW S \in SUBSET Live, NEW i \in Ids(S)
  PROVE  \E q \in Live : Id(q) = i /\ FirstOf(i) = [of |-> q, pv |-> rec[q].pv]
<1>1. Having(i, Live) # {}
  BY DEF Ids, Having
<1>2. First(Having(i, Live)) \in Having(i, Live)
  BY <1>1, FirstIn
<1> QED
  BY <1>2 DEF FirstOf, Having, Published

LEMMA PutsWhat ==
  ASSUME Typed, PutEntries \/ PutFails \/ PutAgain
  PROVE  \E S \in SUBSET Live, N \in SUBSET Ids(Live) :
           /\ Put(S, N)
           /\ \/ S = Live /\ N = Ids(Live) /\ behind' = behind \ Live
              \/ behind' = behind
           /\ UNCHANGED <<gone, torn, cut>>
<1>1. ASSUME PutAgain PROVE First(cmd.todo) \in Live
  BY <1>1, FirstIn DEF PutAgain, InPhase, Typed, Stages
<1>2. CASE PutAgain
  <2>1. {First(cmd.todo)} \in SUBSET Live /\ Ids({First(cmd.todo)}) \in SUBSET Ids(Live)
    BY <1>1, <1>2 DEF Ids
  <2> QED
    BY <1>2, <2>1 DEF PutAgain, keyHistory
<1>3. CASE PutFails
  BY <1>3 DEF PutFails, Published
<1>4. CASE PutEntries
  BY <1>4 DEF PutEntries, Published, keyHistory
<1> QED
  BY <1>2, <1>3, <1>4

LEMMA LeftIs ==
  ASSUME cmd \in Cmd, NEW S \in SUBSET Key, Left(S)
  PROVE  /\ cmd' \in Cmd /\ cmd'.todo = S /\ cmd'.op = cmd.op /\ cmd'.k = cmd.k
         /\ cmd'.ph = IF S = {} THEN "await" ELSE "again"
         /\ S # {} => cmd'.halted = cmd.halted
BY DEF Left, Cmd, Phase

\* What is left for the single puts.
LEMMA AgainIs ==
  ASSUME Typed, PutEntries \/ PutAgain
  PROVE  /\ cmd' \in Cmd /\ cmd'.todo \in SUBSET Live /\ cmd'.op = cmd.op
         /\ cmd'.ph = IF cmd'.todo = {} THEN "await" ELSE "again"
         /\ cmd'.todo # {} => cmd'.halted = cmd.halted
<1>1. cmd \in Cmd /\ Live \subseteq Key
  BY DEF Typed, Live
<1>2. PICK S \in SUBSET Live : Left(S)
  <2>1. CASE PutEntries
    BY <2>1 DEF PutEntries, Published
  <2>2. CASE PutAgain
    <3>1. cmd.todo \in SUBSET Live
      BY <2>2 DEF PutAgain, InPhase, Typed, Stages
    <3> QED
      BY <2>2, <3>1 DEF PutAgain
  <2> QED
    BY <2>1, <2>2
<1> QED
  BY <1>1, <1>2, LeftIs

LEMMA MarksStep == ASSUME Typed, Next PROVE Marks'
<1>1. Marks /\ Stages /\ cmd \in Cmd
  BY TypedParts DEF Control
<1>2. CASE Begins
  BY <1>1, <1>2, BeginControl DEF Marks, kvHistory, keyHistory
<1>3. CASE Management
  BY <1>1, <1>3 DEF Stages, Marks, Management, ToggleRead, TogglePut, ToggleRevert, ToggleDone,
                    TogglePuts, kvHistory, keyHistory
<1>4. CASE VaultCall \/ ProvideSshKey
  BY <1>1, <1>4 DEF Marks, VaultCall, ProvideSshKey, Generate, Live, kvHistory
<1>5. CASE \/ UnlistPolicy \/ ReadEntry \/ Await \/ LendToken \/ CleanEnv \/ DeployWorker
           \/ Deploy \/ Reclaim \/ Publish \/ Clean \/ Abort \/ Secrets \/ ForgetNamespace
           \/ ReuseKeypair \/ Keygen \/ KeygenFails \/ Material
  BY <1>1, <1>5 DEF Marks, UnlistPolicy, ReadEntry, Await, LendToken, CleanEnv, DeployWorker,
       Deploy, Reclaim, Publish, Clean, Abort, Secrets, ForgetNamespace, ReuseKeypair, Keygen,
       KeygenFails, Material, kvHistory, keyHistory
<1>6. CASE PutEntries \/ PutFails \/ PutAgain
  <2>1. Live \subseteq Key /\ cmd.halted \subseteq Key
    BY <1>1 DEF Live, Cmd
  <2>2. PICK S \in SUBSET Live, N \in SUBSET Ids(Live) :
          Put(S, N) /\ behind' \subseteq behind /\ UNCHANGED <<gone, torn, cut>>
    BY <1>6, PutsWhat
  <2>3. paused' \subseteq Key /\ crossed' \subseteq Key
    BY <1>1, <2>1, <2>2 DEF Marks, Put, Crossing
  <2> QED
    BY <1>1, <2>2, <2>3 DEF Marks
<1>7. CASE UnlistKey
  <2>1. cmd.k \in Key
    BY <1>1, <1>7 DEF UnlistKey, InPhase, Stages
  <2>2. /\ paused' = paused \ {cmd.k} /\ gone' = gone \cup {cmd.k}
        /\ crossed' = (crossed \ {cmd.k}) \cup ({cmd.k} \cap InFlight)
        /\ UNCHANGED <<behind, torn, cut>>
    BY <1>7 DEF UnlistKey, Crossing, keyHistory
  <2> QED
    BY <1>1, <2>1, <2>2 DEF Marks
<1>8. CASE Write \/ WriteAll
  BY <1>1, <1>8 DEF Marks, Write, WriteAll, Store, Seal
<1>9. CASE ResetVault
  <2>1. First(cmd.todo) \in Vault
    BY <1>1, <1>9, FirstIn DEF ResetVault, InPhase, Stages
  <2> QED
    BY <1>1, <1>9, <2>1 DEF Marks, ResetVault, Live, kvHistory
<1>10. CASE WipeNamespace
  BY <1>1, <1>10 DEF Marks, WipeNamespace, Crossing, Live, keyHistory
<1>11. CASE DeleteFiles \/ StorePublicKey
  BY <1>1, <1>11 DEF Marks, DeleteFiles, StorePublicKey, kvHistory
<1> QED
  BY StepCases, <1>2, <1>3, <1>4, <1>5, <1>6, <1>7, <1>8, <1>9, <1>10, <1>11
     DEF KeyStep, BootRest

LEMMA EntryTypes ==
  /\ Unlisted \in Entry
  /\ \A e \in Entry, b \in BOOLEAN : [e EXCEPT !.paused = b] \in Entry
  /\ \A p \in Version \cup {0}, b \in BOOLEAN : [on |-> TRUE, pv |-> p, paused |-> b] \in Entry
BY DEF Unlisted, Entry

LEMMA StoresStep == ASSUME Typed, Next PROVE Stores'
<1>1. /\ Stores /\ Stages /\ cmd \in Cmd
      /\ toggle \in [ph : {"idle", "read", "put"}, k : Key \cup {NoKey}, old : Entry]
  BY TypedParts DEF Control
<1>2. CASE Begins
  BY <1>1, <1>2, BeginControl DEF Stores, localVars, kvVars, workerVars
<1>3. CASE (\E k \in Key : ToggleRead(k)) \/ ToggleDone
  BY <1>1, <1>3 DEF Stores, ToggleRead, ToggleDone, localVars, kvVars, workerVars
<1>4. CASE TogglePut \/ ToggleRevert
  <2>1. toggle.k \in Key
    BY <1>1, <1>4 DEF Stages, TogglePut, ToggleRevert
  <2>2. PICK e \in Entry : TogglePuts(e)
    BY <1>1, <1>4, EntryTypes DEF TogglePut, ToggleRevert
  <2> QED
    BY <1>1, <2>1, <2>2 DEF Stores, TogglePuts, localVars, workerVars
<1>5. CASE VaultCall \/ ProvideSshKey
  <2>1. /\ sshKey' \in [Key -> Keypair \cup {0}]
        /\ UNCHANGED <<localVars, kvVars, vault>>
    BY <1>1, <1>5 DEF Stores, VaultCall, ProvideSshKey, Generate
  <2> QED
    BY <1>1, <2>1 DEF Stores, localVars, kvVars
<1>6. CASE \/ ReadEntry \/ Await \/ LendToken \/ CleanEnv \/ DeployWorker
           \/ Deploy \/ Reclaim \/ Publish \/ Clean \/ Abort \/ Secrets \/ ForgetNamespace
           \/ ReuseKeypair \/ KeygenFails \/ Material
  BY <1>1, <1>6 DEF Stores, ReadEntry, Await, LendToken, CleanEnv, DeployWorker,
       Deploy, Reclaim, Publish, Clean, Abort, Secrets, ForgetNamespace, ReuseKeypair,
       KeygenFails, Material, localVars, kvVars, workerVars
<1>7. CASE PutEntries \/ PutFails \/ PutAgain
  <2>1. PICK S \in SUBSET Live, N \in SUBSET Ids(Live) : Put(S, N)
    BY <1>7, PutsWhat
  <2>2. \A k \in Key : rec[k].pv \in Version \cup {0}
    BY <1>1 DEF Stores, Record
  <2>3. ASSUME NEW k \in Key PROVE Built(k) \in Entry
    <3>1. PICK b \in BOOLEAN : b <=> k \in cmd.halted
      OBVIOUS
    <3>2. Built(k) = [on |-> TRUE, pv |-> rec[k].pv, paused |-> b]
      <4>1. (k \in cmd.halted) = b
        BY <3>1, Zenon
      <4> QED
        BY <4>1, Zenon DEF Built
    <3> QED
      BY <2>2, <3>2, EntryTypes
  <2>4. entry' \in [Key -> Entry]
    BY <1>1, <2>1, <2>3 DEF Stores, Put
  <2>5. \A i \in N : FirstOf(i) \in PolicyRow
    <3> SUFFICES ASSUME NEW i \in N PROVE FirstOf(i) \in PolicyRow
      OBVIOUS
    <3>1. PICK q \in Live : FirstOf(i) = [of |-> q, pv |-> rec[q].pv]
      BY FirstOfIs
    <3> QED
      BY <2>2, <3>1 DEF PolicyRow, Live
  <2>6. policy' \in [Name -> PolicyRow]
    BY <1>1, <2>1, <2>5 DEF Stores, Put
  <2> QED
    BY <1>1, <1>7, <2>4, <2>6 DEF Stores, PutEntries, PutFails, PutAgain, localVars, workerVars
<1>8. CASE UnlistKey \/ UnlistPolicy
  <2>1. entry' \in [Key -> Entry] /\ policy' \in [Name -> PolicyRow]
    BY <1>1, <1>8, EntryTypes DEF Stores, UnlistKey, UnlistPolicy, NoPolicy, PolicyRow
  <2>2. UNCHANGED <<rec, sshKey, vault, pkFile>>
    BY <1>8 DEF UnlistKey, UnlistPolicy, localVars, workerVars
  <2> QED
    BY <1>1, <2>1, <2>2 DEF Stores
<1>9. CASE WipeNamespace
  BY <1>1, <1>9, EntryTypes DEF Stores, WipeNamespace, NoPolicy, PolicyRow, localVars, workerVars
<1>10. CASE Write
  <2>1. cmd.new \in Record
    BY <1>1 DEF Cmd
  <2>2. rec' = [rec EXCEPT ![cmd.k] = cmd.new]
    BY <1>10 DEF Write, Store
  <2> QED
    BY <1>1, <1>10, <2>1, <2>2 DEF Stores, Write, kvVars, workerVars
<1>11. CASE WriteAll
  <2>1. cmd.new.pv \in Version \cup {0}
    BY <1>1 DEF Cmd, Record
  <2>2. \A k \in Key : Sealed(k) \in Record
    BY <1>1, <2>1, Constants, HashType DEF Stores, Sealed, Record
  <2>3. rec' \in [Key -> Record]
    BY <1>11, <2>2, RecordTypes DEF WriteAll, Store, NewRecord
  <2> QED
    BY <1>1, <1>11, <2>3 DEF Stores, WriteAll, kvVars, workerVars
<1>12. CASE ResetVault
  <2>1. vault' \in [Vault -> Keypair \cup {0}] /\ sshKey' \in [Key -> Keypair \cup {0}]
    BY <1>1, <1>12 DEF Stores, ResetVault
  <2> QED
    BY <1>1, <1>12, <2>1 DEF Stores, ResetVault, localVars, kvVars
<1>13. CASE Keygen
  <2>1. vault' \in [Vault -> Keypair \cup {0}]
    BY <1>1, <1>13 DEF Stores, Keygen, IsFresh
  <2>2. UNCHANGED <<rec, pkFile, entry, policy, sshKey>>
    BY <1>13 DEF Keygen, localVars, kvVars
  <2> QED
    BY <1>1, <2>1, <2>2 DEF Stores
<1>14. CASE DeleteFiles
  BY <1>1, <1>14 DEF Stores, DeleteFiles, kvVars, workerVars
<1>15. CASE StorePublicKey
  <2>1. First(cmd.todo) \in Vault
    BY <1>1, <1>15, FirstIn DEF StorePublicKey, InPhase, Stages
  <2>2. pkFile' \in [Vault -> Keypair \cup {0}]
    BY <1>1, <1>15, <2>1 DEF Stores, StorePublicKey
  <2>3. UNCHANGED <<rec, vault, entry, policy, sshKey>>
    BY <1>15 DEF StorePublicKey, kvVars, workerVars
  <2> QED
    BY <1>1, <2>2, <2>3 DEF Stores
<1> QED
  BY StepCases, <1>2, <1>3, <1>4, <1>5, <1>6, <1>7, <1>8, <1>9, <1>10, <1>11, <1>12, <1>13, <1>14, <1>15
     DEF KeyStep, BootRest, Management

\* The steps of a command that leave its loop, its key and its record alone.
LEMMA GotoKeeps ==
  ASSUME Typed, NEW ph \in Phase, Goto(ph)
  PROVE  /\ cmd' \in Cmd /\ cmd'.ph = ph
         /\ cmd'.op = cmd.op /\ cmd'.k = cmd.k /\ cmd'.todo = cmd.todo /\ cmd'.new = cmd.new
         /\ cmd'.known = cmd.known /\ cmd'.halted = cmd.halted /\ cmd'.keys = cmd.keys
         /\ cmd'.failed = cmd.failed
BY DEF Goto, Typed, Cmd

\* The end of one round of the keypair loop.
LEMMA SettleKeeps ==
  ASSUME Typed, NEW v \in Vault, NEW keys \in SUBSET Key, NEW failed \in BOOLEAN,
         cmd.todo \in SUBSET Vault, Settle(v, keys, failed)
  PROVE  /\ cmd' \in Cmd
         /\ cmd'.todo = cmd.todo \ {v} /\ cmd'.keys = keys
         /\ cmd'.ph = IF cmd'.todo = {} THEN "material" ELSE "keygen"
         /\ cmd'.op = cmd.op /\ cmd'.k = cmd.k /\ cmd'.new = cmd.new
         /\ cmd'.known = cmd.known /\ cmd'.halted = cmd.halted
BY DEF Settle, Typed, Cmd, Phase

LEMMA ToPublishIs ==
  ASSUME Typed, NEW op \in Operation
  PROVE  LET c == ToPublish(op) IN
         c \in Cmd /\ c.op = op /\ c.ph = "publish" /\ c.halted = {}
BY RecordTypes DEF ToPublish, NoCmd, Typed, Cmd, Phase

LEMMA ControlStep == ASSUME Typed, Next PROVE Control'
<1>1. Control /\ Stores
  BY TypedParts
<1>3. CASE Begins
  BY <1>3, BeginControl
<1>4. CASE Management
  <2>1. cmd' = cmd /\ rec' = rec /\ ran' \in Counts
    BY <1>1, <1>4, Constants DEF Control, Counts, localVars,
       Management, ToggleRead, TogglePut, ToggleRevert, ToggleDone, TogglePuts
  <2>2. /\ toggle' \in [ph : {"idle", "read", "put"}, k : Key \cup {NoKey}, old : Entry]
        /\ toggle'.ph # "idle" => toggle'.k \in Key
    BY <1>1, <1>4, EntryTypes DEF Control, Stores, Stages, Management, ToggleRead, TogglePut,
                                  ToggleRevert, ToggleDone, NoToggle
  <2> QED
    BY <1>1, <2>1, <2>2 DEF Control, Stages, Live
<1>5. CASE DeployWorker
  BY <1>1, <1>5 DEF DeployWorker, Control, Stages, Live
<1> SUFFICES ASSUME KeyStep \/ BootRest, ran' = ran, toggle' = toggle
             PROVE  cmd' \in Cmd /\ Stages'
  <2>1. ASSUME KeyStep PROVE ran' = ran /\ toggle' = toggle
    BY <2>1 DEF KeyStep, LendToken, VaultCall, Reclaim, Write, UnlistKey, UnlistPolicy, Publish,
                ReadEntry, PutEntries, PutFails, PutAgain, Await, Clean, CleanEnv, Abort
  <2>2. ASSUME BootRest PROVE ran' = ran /\ toggle' = toggle
    BY <2>2 DEF BootRest, Deploy, Secrets, ResetVault, WipeNamespace, ForgetNamespace, DeleteFiles,
                ReuseKeypair, Keygen, KeygenFails, StorePublicKey, Material, ProvideSshKey, WriteAll
  <2> QED
    BY StepCases, <1>1, <1>3, <1>4, <1>5, <2>1, <2>2 DEF Control
<1>6. NoCmd \in Cmd /\ NoCmd.ph = "idle" /\ cmd \in Cmd /\ Stages
  BY <1>1, NoCmdType DEF Control
<1>7. CASE cmd' = NoCmd
  BY <1>6, <1>7 DEF Control, Stages
<1>9. ASSUME NEW ph \in {"vault", "unlistPolicy", "secrets", "resecrets", "forget", "files",
                         "redeploy", "await", "clean", "cleanEnv", "keyFile", "write"},
             Goto(ph),
             ph \in {"vault", "unlistPolicy", "write"} => cmd.k \in Key,
             ph = "keyFile" => cmd.todo \in (SUBSET Vault) \ {{}}
      PROVE  cmd' \in Cmd /\ Stages'
  <2>1. ph \in Phase
    BY <1>9 DEF Phase
  <2>2. cmd' \in Cmd /\ cmd'.ph = ph /\ cmd'.k = cmd.k /\ cmd'.todo = cmd.todo
    BY <1>9, <2>1, GotoKeeps
  <2> QED
    BY <1>6, <1>9, <2>2 DEF Stages
<1>10. CASE \/ LendToken \/ UnlistKey \/ Deploy \/ WipeNamespace \/ ForgetNamespace
            \/ DeleteFiles
  BY <1>6, <1>9, <1>10 DEF LendToken, UnlistKey, Deploy, WipeNamespace,
       ForgetNamespace, DeleteFiles, Stages, InPhase
<1>11. CASE VaultCall
  <2>1. cmd.k \in Key /\ "reclaim" \in Phase
    BY <1>6, <1>11 DEF VaultCall, InPhase, Stages, Phase
  <2>2. PICK n \in Keypair \cup {0} : n = sshKey'[cmd.k]
    BY <2>1, StoresStep DEF Stores
  <2>3. \/ cmd' = [cmd EXCEPT !.ph = "reclaim", !.new.key = n]
        \/ cmd' = [cmd EXCEPT !.ph = "reclaim", !.failed = TRUE]
    BY <1>11, <2>2 DEF VaultCall
  <2>4. cmd' \in Cmd /\ cmd'.ph = "reclaim" /\ cmd'.k = cmd.k
    <3>1. CASE cmd' = [cmd EXCEPT !.ph = "reclaim", !.new.key = n]
      <4>1. [cmd.new EXCEPT !.key = n] \in Record
        BY <1>6, RecordTypes DEF Cmd
      <4>2. cmd' = [cmd EXCEPT !.ph = "reclaim", !.new = [cmd.new EXCEPT !.key = n]]
        BY <1>6, <3>1 DEF Cmd
      <4> QED
        BY <1>6, <2>1, <4>1, <4>2 DEF Cmd
    <3>2. CASE cmd' = [cmd EXCEPT !.ph = "reclaim", !.failed = TRUE]
      BY <1>6, <2>1, <3>2 DEF Cmd
    <3> QED
      BY <2>3, <3>1, <3>2
  <2> QED
    BY <1>6, <2>1, <2>4 DEF Stages
<1>12. CASE Reclaim
  BY <1>6, <1>7, <1>9, <1>12 DEF Reclaim, Goto, Stages, InPhase
<1>13. CASE Write
  <2>1. CASE cmd' = [cmd EXCEPT !.ph = "unlist"]
    <3>1. cmd' \in Cmd /\ cmd'.ph = "unlist" /\ cmd'.k = cmd.k
      BY <2>1, GotoKeeps DEF Goto, Phase
    <3> QED
      BY <1>6, <1>13, <3>1 DEF Stages, Write, InPhase
  <2>2. CASE \E op \in {"provision", "push"} : cmd' = ToPublish(op)
    <3>1. cmd' \in Cmd /\ cmd'.ph = "publish"
      BY <2>2, ToPublishIs DEF Operation
    <3> QED
      BY <1>6, <3>1 DEF Stages
  <2> QED
    BY <1>7, <1>13, <2>1, <2>2 DEF Write, Then
<1>14. CASE Publish
  <2>1. CASE Live # {} /\ cmd' = [cmd EXCEPT !.ph = "read", !.todo = Live]
    <3>1. cmd' \in Cmd /\ cmd'.ph = "read" /\ cmd'.todo = Live /\ Live \subseteq Key
      BY <1>6, <2>1 DEF Cmd, Phase, Live
    <3> QED
      BY <1>6, <2>1, <3>1 DEF Stages
  <2> QED
    BY <1>7, <1>14, <2>1 DEF Publish
<1>15. CASE ReadEntry
  <2> DEFINE q == First(cmd.todo)
  <2>1. cmd.todo \subseteq Key /\ cmd.todo # {} /\ q \in cmd.todo
    BY <1>6, <1>15, FirstIn DEF ReadEntry, InPhase, Stages
  <2>2. PICK ph \in {"put", "read"}, known \in SUBSET Key, halted \in SUBSET Key :
          /\ cmd' = [cmd EXCEPT !.todo = @ \ {q}, !.ph = ph, !.known = known, !.halted = halted]
          /\ ph = IF cmd.todo = {q} THEN "put" ELSE "read"
    <3> DEFINE ph == IF cmd.todo = {q} THEN "put" ELSE "read"
               known == IF entry[q].on THEN cmd.known \cup {q} ELSE cmd.known
               halted == IF entry[q].paused THEN cmd.halted \cup {q} ELSE cmd.halted
    <3>1. cmd' = [cmd EXCEPT !.todo = @ \ {q}, !.ph = ph, !.known = known, !.halted = halted]
      BY <1>6, <1>15 DEF ReadEntry, Cmd
    <3>2. ph \in {"put", "read"} /\ known \in SUBSET Key /\ halted \in SUBSET Key
      BY <1>6, <2>1 DEF Cmd
    <3>3. ph = IF cmd.todo = {q} THEN "put" ELSE "read"
      OBVIOUS
    <3> HIDE DEF ph, known, halted
    <3> QED
      BY <3>1, <3>2, <3>3
  <2> HIDE DEF q
  <2>3. cmd' \in Cmd /\ cmd'.ph = ph /\ cmd'.todo = cmd.todo \ {q}
    BY <1>6, <2>1, <2>2 DEF Cmd, Phase
  <2> QED
    BY <1>6, <2>1, <2>2, <2>3 DEF Stages
<1>16. CASE Await \/ Clean
  BY <1>7, <1>9, <1>16 DEF Await, Clean, Goto
<1>24. CASE PutEntries \/ PutAgain
  <2>1. /\ cmd' \in Cmd /\ cmd'.todo \in SUBSET Live /\ UNCHANGED rec
        /\ cmd'.ph = IF cmd'.todo = {} THEN "await" ELSE "again"
    BY <1>24, AgainIs DEF PutEntries, PutAgain, localVars
  <2> QED
    BY <1>6, <2>1 DEF Stages, Live
<1>17. CASE Secrets
  <2>1. Homes \in (SUBSET Vault) \ {{}} /\ Manifest \in SUBSET Key
    BY Constants DEF Homes
  <2>2. \/ cmd' = [cmd EXCEPT !.ph = "reset", !.todo = Homes]
        \/ cmd' = [cmd EXCEPT !.ph = "keygen", !.todo = Homes, !.keys = Manifest]
    BY <1>17 DEF Secrets
  <2>3. cmd' \in Cmd /\ cmd'.ph \in {"reset", "keygen"} /\ cmd'.todo = Homes
    <3>1. CASE cmd' = [cmd EXCEPT !.ph = "reset", !.todo = Homes]
      BY <1>6, <2>1, <3>1 DEF Cmd, Phase
    <3>2. CASE cmd' = [cmd EXCEPT !.ph = "keygen", !.todo = Homes, !.keys = Manifest]
      BY <1>6, <2>1, <3>2 DEF Cmd, Phase
    <3> QED
      BY <2>2, <3>1, <3>2
  <2> QED
    BY <1>6, <2>1, <2>3 DEF Stages
<1>18. CASE ResetVault
  <2> DEFINE v == First(cmd.todo)
  <2>1. cmd.todo \in (SUBSET Vault) \ {{}} /\ v \in cmd.todo
    BY <1>6, <1>18, FirstIn DEF ResetVault, InPhase, Stages
  <2>2. PICK ph \in {"wipe", "reset"} :
          /\ cmd' = [cmd EXCEPT !.todo = @ \ {v}, !.ph = ph]
          /\ ph = IF cmd.todo = {v} THEN "wipe" ELSE "reset"
    BY <1>18 DEF ResetVault
  <2> HIDE DEF v
  <2>3. cmd' \in Cmd /\ cmd'.ph = ph /\ cmd'.todo = cmd.todo \ {v}
    BY <1>6, <2>1, <2>2 DEF Cmd, Phase
  <2> QED
    BY <1>6, <2>1, <2>2, <2>3 DEF Stages
<1>19. ASSUME cmd.ph \in {"keygen", "keyFile"},
              NEW keys \in SUBSET Key, NEW failed \in BOOLEAN,
              Settle(First(cmd.todo), keys, failed)
       PROVE  cmd' \in Cmd /\ Stages'
  <2>1. cmd.todo \in (SUBSET Vault) \ {{}} /\ First(cmd.todo) \in Vault
    BY <1>6, <1>19, FirstIn DEF Stages
  <2>2. /\ cmd' \in Cmd /\ cmd'.todo = cmd.todo \ {First(cmd.todo)}
        /\ cmd'.ph = IF cmd'.todo = {} THEN "material" ELSE "keygen"
    BY <1>19, <2>1, SettleKeeps
  <2> QED
    BY <1>6, <2>1, <2>2 DEF Stages
<1>20. CASE ReuseKeypair \/ KeygenFails \/ StorePublicKey \/ Keygen
  <2>1. cmd.ph \in {"keygen", "keyFile"} /\ cmd.todo \in (SUBSET Vault) \ {{}}
    BY <1>6, <1>20 DEF ReuseKeypair, KeygenFails, StorePublicKey, Keygen, InPhase, Stages
  <2>2. cmd.keys \in SUBSET Key
    BY <1>6 DEF Cmd
  <2>3. \/ Goto("keyFile")
        \/ \E keys \in SUBSET Key, failed \in BOOLEAN : Settle(First(cmd.todo), keys, failed)
    BY <1>20, <2>2 DEF ReuseKeypair, KeygenFails, StorePublicKey, Keygen
  <2> QED
    BY <1>9, <1>19, <2>1, <2>3
<1>21. CASE Material
  <2>1. PICK keys \in SUBSET Key, failed \in BOOLEAN :
          cmd' = [cmd EXCEPT !.ph = "sshKeys", !.keys = keys, !.todo = keys \cap Ssh, !.failed = failed]
    BY <1>6, <1>21 DEF Material, Cmd
  <2>2. cmd' \in Cmd /\ cmd'.ph = "sshKeys" /\ cmd'.todo = keys \cap Ssh
    BY <1>6, <2>1 DEF Cmd, Phase
  <2> QED
    BY <1>6, <2>2 DEF Stages
<1>22. CASE ProvideSshKey
  <2>1. CASE cmd' = [cmd EXCEPT !.todo = @ \ {First(cmd.todo)}]
    <3>1. cmd' \in Cmd /\ cmd'.ph = cmd.ph /\ cmd'.todo \subseteq cmd.todo
      BY <1>6, <2>1 DEF Cmd
    <3> QED
      BY <1>6, <1>22, <3>1 DEF Stages, ProvideSshKey, InPhase
  <2> QED
    BY <1>7, <1>22, <2>1 DEF ProvideSshKey
<1>23. CASE WriteAll
  <2>1. cmd' \in Cmd /\ cmd'.ph = "publish"
    BY <1>23, ToPublishIs DEF WriteAll, Operation
  <2> QED
    BY <1>6, <2>1 DEF Stages
<1> QED
  BY <1>7, <1>10, <1>11, <1>12, <1>13, <1>14, <1>15, <1>16, <1>17, <1>18, <1>20,
     <1>21, <1>22, <1>23, <1>24 DEF KeyStep, BootRest, UnlistPolicy, CleanEnv, Abort, PutFails

LEMMA TypedStep == ASSUME Typed, [Next]_vars PROVE Typed'
<1>1. CASE Next
  BY <1>1, FlagsStep, StoresStep, MarksStep, ControlStep, TypedParts DEF Typed, TypeOK, Cmd,
     Flags, Stores, Marks, Control, Counts, PolicyRow
<1>2. CASE UNCHANGED vars
  BY <1>2 DEF vars, localVars, kvVars, workerVars, kvHistory, keyHistory, Typed, TypeOK, Stages, Live
<1> QED
  BY <1>1, <1>2

(***************************************************************************)
(* Every variable holds a value of its type, at any moment of any sequence *)
(* of commands, kills, refused calls and requests of the management API.   *)
(***************************************************************************)
THEOREM KeysTypeOK == Spec => []TypeOK
<1>1. Typed => TypeOK
  BY DEF Typed
<1> QED
  BY TypedInit, TypedStep, <1>1, PTL DEF Spec

-----------------------------------------------------------------------------
(* The setup token.                                                        *)

\* Where the token of the Worker is the one that this command will take back.
Holding ==
  \/ cmd.ph \in {"vault", "reclaim", "reset", "wipe", "forget", "files", "redeploy",
                 "resecrets", "keygen", "keyFile", "material", "sshKeys"}
  \/ cmd.op = "bootstrap" /\ cmd.ph \in {"publish", "read", "put", "again", "await", "clean"}

TokenHeld == token => excused \/ Holding

-----------------------------------------------------------------------------
(* What a command that runs has established.                               *)

Versioned == \A k \in Key : rec[k].st # "absent" => rec[k].pv \in Version

Supplied == \A k \in Live \ Ssh : rec[k].key # 0

\* The record that Write stores.
Planned ==
  cmd.ph = "write" =>
    /\ cmd.new.pv \in Version
    /\ \/ cmd.op \in {"revoke", "offline"} /\ cmd.new.st = "revoked"
       \/ /\ cmd.op \in {"rotate", "provision"} /\ cmd.new.st = "live"
          /\ cmd.k \notin Ssh
          /\ cmd.new.key = pkFile[VaultOf[cmd.k]] /\ cmd.new.key # 0
          /\ cmd.new.hash = Baseline[cmd.new.pv]
       \/ /\ cmd.op = "publish" /\ cmd.new.st = "live"
          /\ cmd.k \in Live /\ cmd.new.key = rec[cmd.k].key
          /\ cmd.new.hash = Baseline[cmd.new.pv]
       \/ /\ cmd.op = "ssh" /\ cmd.new.st = "live"
          /\ cmd.k \in Ssh /\ cmd.new.key = sshKey[cmd.k]

Lent ==
  cmd.ph \in {"lend", "vault", "reclaim"} =>
    /\ cmd.op = "ssh" /\ cmd.k \in Ssh /\ cmd.new.st = "live" /\ cmd.new.pv \in Version
    /\ cmd.ph = "reclaim" /\ ~cmd.failed => cmd.new.key = sshKey[cmd.k]

Unlisting == cmd.ph \in {"unlist", "unlistPolicy"} => rec[cmd.k].st = "revoked"

\* A bootstrap has, or will yet ask for, the public key of every key it seals.
Equipped ==
  /\ cmd.ph \in Boot => cmd.op \in {"bootstrap", "nuke"} /\ cmd.new.pv \in Version
  /\ cmd.ph \in {"keygen", "keyFile"} =>
       \A k \in cmd.keys : k \in Manifest /\ (VaultOf[k] \in cmd.todo \/ pkFile[VaultOf[k]] # 0)
  /\ cmd.ph \in {"material", "sshKeys"} => \A k \in cmd.keys : pkFile[VaultOf[k]] # 0
  /\ cmd.ph = "keyFile" => vault[First(cmd.todo)] # 0

\* The public key on file is the vault's, or a reset has cut it off.
OnFile == \A v \in Vault \ cut : pkFile[v] # 0 => pkFile[v] = vault[v]

Custody == Versioned /\ Supplied /\ Planned /\ Lent /\ Unlisting /\ Equipped /\ OnFile /\ CustodyKept

-----------------------------------------------------------------------------
(* KV and the requests of the management API.                              *)

GoneRevoked == \A k \in gone : rec[k].st = "revoked"

\* What a request read is still there, unless a command wrote meanwhile.
ReadStill ==
  toggle.ph # "idle" =>
    /\ toggle.old.on
    /\ toggle.k \notin crossed => entry[toggle.k].on /\ entry[toggle.k].pv = toggle.old.pv

PauseMarked == \A k \in Key \ crossed : entry[k].paused <=> k \in paused

\* The phases of a bootstrap in which KV is empty.
Emptied ==
  \/ ~cfgFile
  \/ cmd.op = "bootstrap" /\ cmd.ph \in Boot
  \/ cmd.op = "nuke" /\ cmd.ph \in Boot \ {"deploy", "secrets", "reset", "wipe"}

EmptyKept == Emptied => \A k \in Key \ crossed : ~entry[k].on

Halting ==
  /\ cmd.ph \in {"read", "put", "again"} => cfgFile
  /\ cmd.ph = "read" => cmd.halted \cap cmd.todo = {}
  /\ cmd.ph = "publish" => cmd.halted = {}
  /\ cmd.ph = "read" => \A k \in Live \ (crossed \cup cmd.todo) : k \in cmd.halted <=> k \in paused
  /\ cmd.ph \in {"put", "again"} => \A k \in Live \ crossed : k \in cmd.halted <=> k \in paused

Listing == /\ GoneRevoked /\ ReadStill /\ PauseMarked /\ EmptyKept /\ Halting
           /\ PublishedAgrees /\ RevokedStaysOut /\ ListedIsRecorded

LEMMA TokenInit == Init => TokenHeld
BY DEF Init, TokenHeld

LEMMA TokenStep == ASSUME Typed, TokenHeld, [Next]_vars PROVE TokenHeld'
<1>1. cmd \in Cmd /\ NoCmd.ph = "idle" /\ NoCmd.op = "none" /\ TokenHeld
  BY NoCmdType DEF Typed, NoCmd
<1>2. CASE cmd' = cmd /\ token' = token /\ excused' = excused
  BY <1>1, <1>2 DEF TokenHeld, Holding
<1>3. CASE Begins
  <2>1. token => excused
    BY <1>1, <1>3, BeginControl DEF TokenHeld, Holding
  <2> QED
    BY <1>3, <2>1, BeginControl DEF TokenHeld, workerVars, keyHistory
<1>4. CASE DeployWorker \/ Management \/ UNCHANGED vars
  BY <1>2, <1>4 DEF DeployWorker, Management, ToggleRead, TogglePut, ToggleRevert, ToggleDone,
       TogglePuts, vars, workerVars, keyHistory
<1>5. ASSUME NEW ph \in Phase, Goto(ph), token' = token, excused' = excused,
             Holding => \/ ph \in {"vault", "reclaim", "reset", "wipe", "forget", "files", "redeploy",
                                   "resecrets", "keygen", "keyFile", "material", "sshKeys"}
                        \/ ph \in {"publish", "read", "put", "again", "await", "clean"}
                           /\ cmd.op = "bootstrap"
      PROVE  TokenHeld'
  BY <1>1, <1>5, GotoKeeps DEF TokenHeld, Holding
<1>6. CASE LendToken
  <2>1. cmd'.ph = "vault"
    BY <1>6, GotoKeeps DEF LendToken, Phase
  <2> QED
    BY <2>1 DEF TokenHeld, Holding
<1>7. CASE VaultCall
  <2>1. cmd'.ph = "reclaim"
    BY <1>1, <1>7 DEF VaultCall, Cmd
  <2> QED
    BY <2>1 DEF TokenHeld, Holding
<1>8. CASE Reclaim
  BY <1>8 DEF Reclaim, TakeBack, TokenHeld
<1>9. CASE Write
  <2>1. token => excused
    BY <1>1, <1>9 DEF TokenHeld, Holding, Write, InPhase
  <2> QED
    BY <1>9, <2>1 DEF Write, TokenHeld, workerVars
<1>10. CASE UnlistKey \/ UnlistPolicy \/ CleanEnv
  <2>1. token => excused
    BY <1>1, <1>10 DEF TokenHeld, Holding, UnlistKey, UnlistPolicy, CleanEnv, InPhase
  <2> QED
    <3>1. token' = token /\ excused' = excused
      BY <1>10 DEF UnlistKey, UnlistPolicy, CleanEnv, workerVars, keyHistory
    <3> QED
      BY <2>1, <3>1 DEF TokenHeld
<1>11. CASE Publish
  <2>1. CASE Live # {}
    <3>1. cmd'.ph = "read" /\ cmd'.op = cmd.op /\ token' = token /\ excused' = excused
      BY <1>1, <1>11, <2>1 DEF Publish, Cmd, workerVars
    <3> QED
      BY <1>1, <1>11, <3>1 DEF Publish, InPhase, TokenHeld, Holding
  <2>2. CASE Live = {}
    BY <1>11, <2>2 DEF Publish, TokenHeld, workerVars
  <2> QED
    BY <2>1, <2>2
<1>12. CASE ReadEntry
  <2>1. cmd'.ph \in {"put", "read"} /\ cmd'.op = cmd.op /\ token' = token /\ excused' = excused
    BY <1>1, <1>12 DEF ReadEntry, Cmd, workerVars, keyHistory
  <2> QED
    BY <1>1, <1>12, <2>1 DEF ReadEntry, InPhase, TokenHeld, Holding
<1>14. CASE PutEntries \/ PutAgain
  <2>1. cmd'.ph \in {"again", "await"} /\ cmd'.op = cmd.op /\ token' = token /\ excused' = excused
    BY <1>14, AgainIs DEF PutEntries, PutAgain, workerVars, keyHistory
  <2>2. cmd.ph \in {"put", "again"}
    BY <1>14 DEF PutEntries, PutAgain, InPhase
  <2> QED
    BY <1>1, <2>1, <2>2 DEF TokenHeld, Holding
<1>15. CASE Await
  <2>1. CASE Goto("clean")
    BY <1>5, <1>15, <2>1 DEF Await, Phase, workerVars, keyHistory, Holding, InPhase
  <2>2. CASE cmd.op # "bootstrap"
    BY <1>1, <1>15, <2>2 DEF Await, TokenHeld, Holding, InPhase, workerVars, keyHistory
  <2> QED
    BY <1>15, <2>1, <2>2 DEF Await, Goto
<1>16. CASE Clean \/ Abort \/ PutFails
  <2>1. \/ token' = FALSE
        \/ token' = token /\ excused' = token
        \/ token' = token /\ excused' = (excused \/ token)
    BY <1>16 DEF Clean, Abort, PutFails, workerVars
  <2>2. ASSUME token' PROVE excused'
    <3>1. CASE token' = FALSE
      BY <2>2, <3>1
    <3>2. CASE token' = token /\ excused' = token
      BY <2>2, <3>2
    <3>3. CASE token' = token /\ excused' = (excused \/ token)
      BY <2>2, <3>3
    <3> QED
      BY <2>1, <3>1, <3>2, <3>3
  <2> QED
    BY <2>2 DEF TokenHeld
<1>17. CASE Deploy
  <2>1. /\ token' = token /\ excused' = excused /\ cmd.ph \in {"deploy", "redeploy"}
        /\ cmd'.ph = IF cmd.ph = "deploy" THEN "secrets" ELSE "resecrets"
    <3>1. "secrets" \in Phase /\ "resecrets" \in Phase
      BY DEF Phase
    <3> QED
      BY <1>17, <3>1, GotoKeeps DEF Deploy, InPhase, workerVars, keyHistory
  <2> QED
    BY <1>1, <2>1 DEF TokenHeld, Holding
<1>18. CASE Secrets
  <2>1. cmd'.ph \in {"reset", "keygen"}
    BY <1>1, <1>18 DEF Secrets, Cmd
  <2> QED
    BY <2>1 DEF TokenHeld, Holding
<1>19. CASE ResetVault
  <2>1. cmd'.ph \in {"reset", "wipe"}
    BY <1>1, <1>19 DEF ResetVault, Cmd
  <2> QED
    BY <2>1 DEF TokenHeld, Holding
<1>20. CASE WipeNamespace \/ ForgetNamespace \/ DeleteFiles
  BY <1>5, <1>20 DEF WipeNamespace, ForgetNamespace, DeleteFiles, Phase, workerVars, keyHistory
<1>21. CASE ReuseKeypair \/ Keygen \/ KeygenFails \/ StorePublicKey
  <2>1. cmd'.ph \in {"keyFile", "material", "keygen"}
    BY <1>1, <1>21 DEF ReuseKeypair, Keygen, KeygenFails, StorePublicKey, Settle, Goto, Cmd
  <2> QED
    BY <2>1 DEF TokenHeld, Holding
<1>22. CASE Material
  <2>1. cmd'.ph = "sshKeys"
    BY <1>1, <1>22 DEF Material, Cmd
  <2> QED
    BY <2>1 DEF TokenHeld, Holding
<1>23. CASE ProvideSshKey
  <2>1. CASE cmd' = NoCmd /\ excused' = token
    <3>1. token' = token
      BY <1>23 DEF ProvideSshKey
    <3> QED
      BY <2>1, <3>1, Zenon DEF TokenHeld
  <2>2. CASE cmd' = [cmd EXCEPT !.todo = @ \ {First(cmd.todo)}]
    BY <1>1, <1>23, <2>2 DEF ProvideSshKey, InPhase, TokenHeld, Holding, Cmd
  <2> QED
    BY <1>23, <2>1, <2>2 DEF ProvideSshKey
<1>24. CASE WriteAll
  BY <1>24, ToPublishIs DEF WriteAll, Operation, TokenHeld, Holding
<1> QED
  BY StepCases, <1>3, <1>4, <1>6, <1>7, <1>8, <1>9, <1>10, <1>11, <1>12, <1>14, <1>15,
     <1>16, <1>17, <1>18, <1>19, <1>20, <1>21, <1>22, <1>23, <1>24 DEF KeyStep, BootRest

(***************************************************************************)
(* A setup token that nobody takes back was left by a command that was     *)
(* killed, died, skipped keys or could not delete it: the finally clause   *)
(* of _run_with_temporary_setup_token and the clean-up of the bootstrap    *)
(* leave no other way out.                                                 *)
(***************************************************************************)
THEOREM TokenIsTakenBack == Spec => []SetupTokenGone
<1>1. Typed /\ TokenHeld => SetupTokenGone
  BY NoCmdType DEF TokenHeld, Holding, SetupTokenGone, NoCmd
<1> QED
  BY TypedInit, TypedStep, TokenInit, TokenStep, <1>1, PTL DEF Spec

-----------------------------------------------------------------------------
(* Custody.                                                                *)

Doing == Planned /\ Lent /\ Unlisting /\ Equipped
Held  == Versioned /\ Supplied /\ OnFile /\ CustodyKept

LEMMA CustodyInit == Init => Custody
<1> SUFFICES ASSUME Init PROVE Custody
  OBVIOUS
<1>1. cmd.ph = "idle" /\ Live = {} /\ \A k \in Key : rec[k].st = "absent"
  BY NoCmdType DEF Init, Live, Absent
<1>2. Doing
  BY <1>1 DEF Doing, Planned, Lent, Unlisting, Equipped, Boot
<1>3. Held
  BY <1>1 DEF Held, Versioned, Supplied, OnFile, CustodyKept, Init
<1> QED
  BY <1>2, <1>3 DEF Doing, Held, Custody

LEMMA HeldKept == ASSUME Held, UNCHANGED <<rec, pkFile, vault, sshKey, torn, cut>> PROVE Held'
BY DEF Held, Versioned, Supplied, OnFile, CustodyKept, Live, Ssh

Working == {"write", "lend", "vault", "reclaim", "unlist", "unlistPolicy"} \cup Boot

LEMMA QuietPhase == ASSUME cmd'.ph \notin Working PROVE Doing'
BY DEF Doing, Planned, Lent, Unlisting, Equipped, Working, Boot

LEMMA DoingKept ==
  ASSUME Doing, UNCHANGED <<rec, pkFile, vault, sshKey, cmd>>
  PROVE  Doing'
BY DEF Doing, Planned, Lent, Unlisting, Equipped, Live, Ssh

LEMMA BegunDoing == ASSUME Typed, Held, Begins PROVE Doing' /\ Held'
<1>1. PICK c \in Cmd :
         /\ Run(c)
         /\ \/ Revoking(c) \/ RevokingAgain(c) \/ Rotating(c) \/ Replacing(c)
            \/ Adding(c) \/ Providing(c) \/ Booting(c)
            \/ (c.op = "push" /\ c.ph = "publish" /\ c.halted = {})
  BY HowBegun
<1>2. cmd' = c /\ UNCHANGED <<rec, pkFile, vault, sshKey, torn, cut>>
  BY <1>1 DEF Run, localVars, workerVars, keyHistory
<1>3. \A k \in Key : rec[k] \in Record /\ Versioned
  BY DEF Typed, TypeOK, Held
<1>4. Held'
  BY <1>2, HeldKept
<1> SUFFICES Doing'
  BY <1>4
<1>5. CASE Revoking(c)
  <2>1. c.ph = "write" /\ c.k \in Key /\ rec[c.k].st = "live" /\ c.op \in {"revoke", "offline"}
        /\ c.new = [rec[c.k] EXCEPT !.st = "revoked"]
    BY <1>5 DEF Revoking, Live
  <2>2. c.new.st = "revoked" /\ c.new.pv \in Version
    BY <1>3, <2>1 DEF Versioned, Record
  <2> QED
    BY <1>2, <2>1, <2>2 DEF Doing, Planned, Lent, Unlisting, Equipped, Boot
<1>6. CASE RevokingAgain(c)
  BY <1>2, <1>6 DEF RevokingAgain, Doing, Planned, Lent, Unlisting, Equipped, Boot
<1>7. CASE Rotating(c)
  <2> DEFINE k == c.k
  <2>1. k \in Key \ Ssh /\ pkFile[VaultOf[k]] # 0 /\ rec[k].pv \in Version /\ rec[k] \in Record
        /\ rec[k].hash = Baseline[rec[k].pv]
    BY <1>3, <1>7, HashType DEF Rotating, Versioned, Intact
  <2>2. c.new.st = "live" /\ c.new.pv = rec[k].pv /\ c.new.hash = rec[k].hash
        /\ c.new.key = pkFile[VaultOf[k]]
    BY <1>7, <2>1 DEF Rotating, Rotated, Record
  <2>3. c.op = "rotate" /\ c.ph = "write"
    BY <1>7 DEF Rotating
  <2> QED
    BY <1>2, <2>1, <2>2, <2>3 DEF Doing, Planned, Lent, Unlisting, Equipped, Boot, Ssh
<1>8. CASE Replacing(c)
  BY <1>2, <1>8 DEF Replacing, Doing, Planned, Lent, Unlisting, Equipped, Boot, Live
<1>9. CASE Adding(c)
  BY <1>2, <1>9 DEF Adding, Doing, Planned, Lent, Unlisting, Equipped, Boot, Ssh
<1>10. CASE Providing(c)
  BY <1>2, <1>10 DEF Providing, Doing, Planned, Lent, Unlisting, Equipped, Boot, Ssh
<1>11. CASE Booting(c)
  BY <1>2, <1>11 DEF Booting, Doing, Planned, Lent, Unlisting, Equipped, Boot
<1>12. CASE c.op = "push" /\ c.ph = "publish" /\ c.halted = {}
  BY <1>2, <1>12, QuietPhase DEF Working, Boot
<1> QED
  BY <1>1, <1>5, <1>6, <1>7, <1>8, <1>9, <1>10, <1>11, <1>12

\* A new keypair for k: what was sealed for the old one is torn.
LEMMA GenerateHeld ==
  ASSUME Typed, Held, NEW k \in Key, Generate(k), UNCHANGED <<rec, pkFile, vault, cut>>
  PROVE  Held'
<1>1. /\ \A q \in Key \ {k} : sshKey'[q] = sshKey[q]
      /\ torn' = torn \cup ({k} \cap Live)
  BY DEF Generate, Typed, TypeOK
<1>2. Live' = Live /\ Ssh' = Ssh
  BY DEF Live, Ssh
<1>3. CustodyKept'
  BY <1>1, <1>2 DEF Held, CustodyKept, Live
<1> QED
  BY <1>2, <1>3 DEF Held, Versioned, Supplied, OnFile

LEMMA SshCustody == ASSUME Typed, Custody, LendToken \/ VaultCall \/ Reclaim PROVE Custody'
<1>1. cmd \in Cmd /\ Stages /\ Lent /\ Held /\ sshKey \in [Key -> Keypair \cup {0}]
      /\ NoCmd.ph = "idle"
  BY NoCmdType DEF Typed, TypeOK, Custody, Held
<1>2. CASE LendToken
  <2>1. cmd'.ph = "vault" /\ cmd'.op = cmd.op /\ cmd'.k = cmd.k /\ cmd'.new = cmd.new
    BY <1>2, GotoKeeps DEF LendToken, Phase
  <2>2. Held'
    BY <1>1, <1>2, HeldKept DEF LendToken, keyHistory
  <2>3. Doing'
    BY <1>1, <1>2, <2>1 DEF LendToken, InPhase, Doing, Planned, Lent, Unlisting, Equipped, Boot, Ssh
  <2> QED
    BY <2>2, <2>3 DEF Doing, Held, Custody
<1>3. CASE VaultCall
  <2>1. cmd.k \in Key /\ cmd.k \in Ssh /\ cmd.op = "ssh" /\ cmd.new.st = "live" /\ cmd.new.pv \in Version
    BY <1>1, <1>3 DEF VaultCall, InPhase, Lent, Stages
  <2>2. Held'
    <3>1. CASE Generate(cmd.k)
      BY <1>1, <1>3, <2>1, <3>1, GenerateHeld DEF VaultCall, localVars
    <3>2. CASE UNCHANGED <<sshKey, torn>>
      BY <1>1, <1>3, <3>2, HeldKept DEF VaultCall, localVars
    <3> QED
      BY <1>3, <3>1, <3>2 DEF VaultCall
  <2>3. /\ cmd'.ph = "reclaim" /\ cmd'.op = cmd.op /\ cmd'.k = cmd.k
        /\ cmd'.new.st = cmd.new.st /\ cmd'.new.pv = cmd.new.pv
        /\ cmd'.new.key = sshKey'[cmd.k] \/ cmd'.failed
    <3>0. cmd.new \in Record
      BY <1>1 DEF Cmd
    <3>1. CASE cmd' = [cmd EXCEPT !.ph = "reclaim", !.new.key = sshKey'[cmd.k]]
      <4>1. cmd' = [cmd EXCEPT !.ph = "reclaim", !.new = [cmd.new EXCEPT !.key = sshKey'[cmd.k]]]
        BY <1>1, <3>1 DEF Cmd
      <4> QED
        BY <1>1, <3>0, <4>1 DEF Cmd, Record
    <3>2. CASE cmd' = [cmd EXCEPT !.ph = "reclaim", !.failed = TRUE]
      BY <1>1, <3>2 DEF Cmd
    <3> QED
      BY <1>3, <3>1, <3>2 DEF VaultCall
  <2>4. Doing'
    BY <2>1, <2>3 DEF Doing, Planned, Lent, Unlisting, Equipped, Boot, Ssh
  <2> QED
    BY <2>2, <2>4 DEF Doing, Held, Custody
<1>4. CASE Reclaim
  <2>1. Held'
    BY <1>1, <1>4, HeldKept DEF Reclaim
  <2>2. CASE cmd' = NoCmd
    BY <1>1, <2>1, <2>2, QuietPhase DEF Working, Boot, Doing, Held, Custody
  <2>3. CASE ~cmd.failed /\ Goto("write")
    <3>1. cmd'.ph = "write" /\ cmd'.op = cmd.op /\ cmd'.k = cmd.k /\ cmd'.new = cmd.new
      BY <2>3, GotoKeeps DEF Phase
    <3>2. Doing'
      BY <1>1, <1>4, <2>3, <3>1 DEF Reclaim, InPhase, Doing, Planned, Lent, Unlisting, Equipped, Boot, Ssh
    <3> QED
      BY <2>1, <3>2 DEF Doing, Held, Custody
  <2> QED
    BY <1>4, <2>2, <2>3 DEF Reclaim, Goto
<1> QED
  BY <1>2, <1>3, <1>4

LEMMA WriteCustody == ASSUME Typed, Custody, Write PROVE Custody'
<1> DEFINE k == cmd.k
           S == IF cmd.op \in {"ssh", "rotate", "provision"} THEN {k} ELSE {}
<1>1. /\ cmd.ph = "write" /\ k \in Key /\ cmd \in Cmd /\ Planned /\ Held /\ NoCmd.ph = "idle"
      /\ rec \in [Key -> Record]
  BY NoCmdType DEF Write, InPhase, Typed, TypeOK, Stages, Custody, Held
<1>2. /\ rec' = [rec EXCEPT ![k] = cmd.new] /\ UNCHANGED <<pkFile, vault, sshKey, cut>>
      /\ torn' = {q \in Key : /\ rec'[q].st = "live"
                              /\ IF q \in S THEN q \notin Ssh /\ VaultOf[q] \in cut ELSE q \in torn}
  BY DEF Write, Store, Seal, workerVars
<1>3. /\ rec'[k] = cmd.new /\ \A q \in Key \ {k} : rec'[q] = rec[q]
      /\ Live' = {q \in Key : rec'[q].st = "live"} /\ Ssh' = Ssh
  BY <1>1, <1>2 DEF Live, Ssh
<1>4. Versioned' /\ Supplied' /\ OnFile'
  BY <1>1, <1>2, <1>3 DEF Held, Versioned, Supplied, OnFile, Planned, Live
<1>5. CustodyKept'
  <2> SUFFICES ASSUME NEW q \in Live' \ torn'
               PROVE  IF q \in Ssh THEN rec'[q].key = sshKey[q]
                      ELSE rec'[q].key = vault[VaultOf[q]] /\ rec'[q].hash = Baseline[rec'[q].pv]
    BY <1>2, <1>3 DEF CustodyKept
  <2>1. q \in Key /\ rec'[q].st = "live"
    BY <1>3
  <2>2. IF q \in S THEN q \in Ssh \/ VaultOf[q] \notin cut ELSE q \notin torn
    BY <1>2, <2>1
  <2>3. CASE q # k
    BY <1>1, <1>3, <2>1, <2>2, <2>3 DEF Held, CustodyKept, Live
  <2>4. CASE q = k /\ cmd.op \in {"rotate", "provision"}
    BY <1>1, <1>3, <2>1, <2>2, <2>4, Constants DEF Held, OnFile, Planned
  <2>5. CASE q = k /\ cmd.op = "publish"
    BY <1>1, <1>3, <2>1, <2>2, <2>5 DEF Held, CustodyKept, Planned, Live
  <2>6. CASE q = k /\ cmd.op = "ssh"
    BY <1>1, <1>3, <2>1, <2>6 DEF Planned
  <2> QED
    BY <1>1, <1>3, <2>1, <2>3, <2>4, <2>5, <2>6 DEF Planned
<1>6. Doing'
  <2>1. CASE cmd.op = "revoke"
    <3>1. cmd'.ph = "unlist" /\ cmd'.k = k
      BY <1>1, <2>1 DEF Write, Then, Cmd
    <3>2. rec'[k].st = "revoked"
      BY <1>1, <1>3, <2>1 DEF Planned
    <3> QED
      BY <3>1, <3>2 DEF Doing, Planned, Lent, Unlisting, Equipped, Boot
  <2>2. CASE cmd.op # "revoke"
    <3>1. cmd'.ph \in {"idle", "publish"}
      BY <1>1, <2>2, ToPublishIs DEF Write, Then, Operation
    <3> QED
      BY <3>1, QuietPhase DEF Working, Boot
  <2> QED
    BY <2>1, <2>2
<1> QED
  BY <1>4, <1>5, <1>6 DEF Doing, Custody

LEMMA KvCustody ==
  ASSUME Typed, Custody,
         \/ UnlistKey \/ UnlistPolicy \/ Publish \/ ReadEntry \/ PutEntries \/ PutFails \/ PutAgain
         \/ Await \/ Clean \/ CleanEnv \/ Abort
  PROVE  Custody'
<1>1. cmd \in Cmd /\ NoCmd.ph = "idle" /\ Doing /\ Held
  BY NoCmdType DEF Typed, Custody, Doing, Held
<1>2. Held'
  <2>1. UNCHANGED <<rec, pkFile, vault, sshKey, torn, cut>>
    BY DEF UnlistKey, UnlistPolicy, Publish, ReadEntry, PutEntries, PutFails, PutAgain, Await, Clean,
           CleanEnv, Abort, localVars, workerVars, keyHistory
  <2> QED
    BY <1>1, <2>1, HeldKept
<1>3. CASE UnlistKey
  <2>1. cmd'.ph = "unlistPolicy" /\ cmd'.k = cmd.k /\ rec' = rec
    BY <1>3, GotoKeeps DEF UnlistKey, Phase
  <2>2. Doing'
    BY <1>1, <1>3, <2>1 DEF UnlistKey, InPhase, Doing, Planned, Lent, Unlisting, Equipped, Boot
  <2> QED
    BY <1>2, <2>2 DEF Doing, Held, Custody
<1>4. CASE cmd'.ph \in {"idle", "read", "put", "again", "await", "clean", "cleanEnv"}
  BY <1>2, <1>4, QuietPhase DEF Working, Boot, Doing, Held, Custody
<1>5. ASSUME ~UnlistKey
      PROVE  cmd'.ph \in {"idle", "read", "put", "again", "await", "clean", "cleanEnv"}
  <2>1. CASE PutEntries \/ PutAgain
    BY <2>1, AgainIs
  <2> QED
    BY <1>1, <1>5, <2>1 DEF UnlistPolicy, Publish, ReadEntry, PutFails, Await, Clean, CleanEnv,
       Abort, Goto, Cmd
<1> QED
  BY <1>3, <1>4, <1>5

LEMMA BootDoing ==
  ASSUME Equipped, cmd.ph \in Boot, cmd'.ph \in Boot, cmd'.op = cmd.op, cmd'.new = cmd.new,
         cmd'.ph \in {"keygen", "keyFile"} =>
           \A k \in cmd'.keys : k \in Manifest /\ (VaultOf[k] \in cmd'.todo \/ pkFile'[VaultOf[k]] # 0),
         cmd'.ph \in {"material", "sshKeys"} => \A k \in cmd'.keys : pkFile'[VaultOf[k]] # 0,
         cmd'.ph = "keyFile" => vault'[First(cmd'.todo)] # 0
  PROVE  Doing'
BY DEF Doing, Planned, Lent, Unlisting, Equipped, Boot

LEMMA PrepareCustody ==
  ASSUME Typed, Custody,
         Deploy \/ Secrets \/ ResetVault \/ WipeNamespace \/ ForgetNamespace \/ DeleteFiles
  PROVE  Custody'
<1>1. cmd \in Cmd /\ Stages /\ Equipped /\ Held /\ vault \in [Vault -> Keypair \cup {0}]
      /\ sshKey \in [Key -> Keypair \cup {0}] /\ pkFile \in [Vault -> Keypair \cup {0}]
  BY DEF Typed, TypeOK, Custody, Held
<1>2. Doing'
  <2>1. CASE Deploy \/ WipeNamespace \/ ForgetNamespace \/ DeleteFiles
    <3>1. /\ cmd'.ph \in {"secrets", "resecrets", "forget", "files", "redeploy"}
          /\ cmd'.op = cmd.op /\ cmd'.new = cmd.new /\ cmd.ph \in Boot
      BY <1>1, <2>1, GotoKeeps DEF Deploy, WipeNamespace, ForgetNamespace, DeleteFiles, InPhase, Phase, Boot
    <3> QED
      BY <1>1, <3>1, BootDoing DEF Boot
  <2>2. CASE ResetVault
    <3>1. /\ cmd'.ph \in {"reset", "wipe"} /\ cmd'.op = cmd.op /\ cmd'.new = cmd.new /\ cmd.ph = "reset"
      BY <1>1, <2>2 DEF ResetVault, InPhase, Cmd
    <3> QED
      BY <1>1, <3>1, BootDoing DEF Boot
  <2>3. CASE Secrets
    <3>1. /\ cmd'.op = cmd.op /\ cmd'.new = cmd.new /\ cmd.ph \in {"secrets", "resecrets"}
          /\ \/ cmd'.ph = "reset"
             \/ cmd'.ph = "keygen" /\ cmd'.todo = Homes /\ cmd'.keys = Manifest
      BY <1>1, <2>3 DEF Secrets, Cmd
    <3>2. \A k \in Manifest : VaultOf[k] \in Homes
      BY DEF Homes
    <3> QED
      BY <1>1, <3>1, <3>2, BootDoing DEF Boot
  <2> QED
    BY <2>1, <2>2, <2>3
<1>3. Held'
  <2>1. CASE Deploy \/ Secrets \/ WipeNamespace \/ ForgetNamespace
    BY <1>1, <2>1, HeldKept DEF Deploy, Secrets, WipeNamespace, ForgetNamespace,
         localVars, workerVars, keyHistory
  <2>2. CASE ResetVault
    <3> DEFINE v == First(cmd.todo)
    <3>1. v \in Vault
      BY <1>1, <2>2, FirstIn DEF ResetVault, InPhase, Stages
    <3>2. /\ \A w \in Vault \ {v} : vault'[w] = vault[w]
          /\ \A k \in Key : VaultOf[k] # v => sshKey'[k] = sshKey[k]
          /\ torn' = torn \cup ({k \in Key : VaultOf[k] = v} \cap Live) /\ cut' = cut \cup {v}
          /\ rec' = rec /\ pkFile' = pkFile
      BY <1>1, <2>2, <3>1 DEF ResetVault, localVars
    <3> HIDE DEF v
    <3>3. Live' = Live /\ Ssh' = Ssh
      BY <3>2 DEF Live, Ssh
    <3>4. CustodyKept'
      BY <1>1, <3>2, <3>3, Constants DEF Held, CustodyKept, Live
    <3> QED
      BY <1>1, <3>2, <3>3, <3>4 DEF Held, Versioned, Supplied, OnFile
  <2>3. CASE DeleteFiles
    <3> DEFINE opened == {VaultOf[k] : k \in Declared}
    <3>1. /\ \A w \in Vault : pkFile'[w] = IF w \in opened THEN 0 ELSE pkFile[w]
          /\ cut' = cut \ opened /\ UNCHANGED <<rec, vault, sshKey, torn>>
      BY <2>3 DEF DeleteFiles, workerVars
    <3> HIDE DEF opened
    <3>2. OnFile'
      BY <1>1, <3>1 DEF Held, OnFile
    <3> QED
      BY <1>1, <3>1, <3>2 DEF Held, Versioned, Supplied, CustodyKept, Live, Ssh
  <2> QED
    BY <2>1, <2>2, <2>3
<1> QED
  BY <1>2, <1>3 DEF Doing, Held, Custody

LEMMA KeypairCustody ==
  ASSUME Typed, Custody, ReuseKeypair \/ Keygen \/ KeygenFails \/ StorePublicKey
  PROVE  Custody'
<1> DEFINE v == First(cmd.todo)
<1>1. cmd \in Cmd /\ Equipped /\ Held /\ vault \in [Vault -> Keypair \cup {0}]
      /\ pkFile \in [Vault -> Keypair \cup {0}] /\ sshKey' = sshKey /\ rec' = rec /\ torn' = torn
  BY DEF Typed, TypeOK, Custody, Held, ReuseKeypair, Keygen, KeygenFails, StorePublicKey,
         localVars, workerVars, keyHistory
<1>2. cmd.ph \in {"keygen", "keyFile"} /\ cmd.todo \in (SUBSET Vault) \ {{}} /\ v \in cmd.todo
  BY FirstIn DEF Typed, Stages, ReuseKeypair, Keygen, KeygenFails, StorePublicKey, InPhase
<1>3. \A k \in cmd.keys :
        k \in Key /\ k \in Manifest /\ (VaultOf[k] \in cmd.todo \/ pkFile[VaultOf[k]] # 0)
  BY <1>1, <1>2 DEF Equipped, Cmd
<1> HIDE DEF v
<1>4. ASSUME NEW keys \in SUBSET cmd.keys, NEW failed \in BOOLEAN, Settle(v, keys, failed),
             \A k \in keys : VaultOf[k] = v \/ pkFile[VaultOf[k]] # 0 => pkFile'[VaultOf[k]] # 0
      PROVE  Doing'
  <2>1. keys \in SUBSET Key /\ v \in Vault
    BY <1>1, <1>2 DEF Cmd
  <2>2. /\ cmd'.todo = cmd.todo \ {v} /\ cmd'.keys = keys /\ cmd'.op = cmd.op /\ cmd'.new = cmd.new
        /\ cmd'.ph = IF cmd'.todo = {} THEN "material" ELSE "keygen"
    BY <1>2, <1>4, <2>1, SettleKeeps
  <2>3. \A k \in cmd'.keys : k \in Manifest /\ (VaultOf[k] \in cmd'.todo \/ pkFile'[VaultOf[k]] # 0)
    BY <1>3, <1>4, <2>2
  <2> QED
    BY <1>1, <1>2, <2>2, <2>3, BootDoing DEF Boot
<1>5. CASE ReuseKeypair
  <2>1. Held' /\ pkFile' = pkFile /\ pkFile[v] # 0 /\ Settle(v, cmd.keys, FALSE)
    BY <1>1, <1>5, HeldKept DEF ReuseKeypair, Reusable, localVars, workerVars, keyHistory, v
  <2>2. Doing'
    BY <1>4, <2>1
  <2> QED
    BY <2>1, <2>2 DEF Doing, Held, Custody
<1>6. CASE KeygenFails
  <2>1. Held' /\ pkFile' = pkFile /\ Settle(v, cmd.keys \ KeysOf(v), TRUE)
    BY <1>1, <1>6, HeldKept DEF KeygenFails, localVars, workerVars, keyHistory, v
  <2>2. cmd.keys \ KeysOf(v) \in SUBSET cmd.keys /\ \A k \in cmd.keys \ KeysOf(v) : VaultOf[k] # v
    BY <1>3 DEF KeysOf
  <2>3. Doing'
    BY <1>4, <2>1, <2>2
  <2> QED
    BY <2>1, <2>3 DEF Doing, Held, Custody
<1>7. CASE Keygen
  <2>1. PICK n \in Keypair : vault' = [vault EXCEPT ![v] = n]
    BY <1>7 DEF Keygen, IsFresh, v
  <2>2. /\ ~Reusable(v) /\ vault[v] = 0 /\ UNCHANGED <<pkFile, cut>>
        /\ Goto("keyFile") \/ Settle(v, cmd.keys \ KeysOf(v), TRUE)
    BY <1>7 DEF Keygen, localVars, keyHistory, v
  <2>3. v \in Vault /\ n # 0 /\ vault'[v] = n /\ \A w \in Vault \ {v} : vault'[w] = vault[w]
    BY <1>1, <1>2, <2>1, Constants
  <2>4. Live' = Live /\ Ssh' = Ssh
    BY <1>1 DEF Live, Ssh
  <2>5. Held'
    <3>1. Versioned' /\ Supplied'
      BY <1>1, <2>4 DEF Held, Versioned, Supplied
    <3>2. OnFile'
      <4>1. pkFile[v] = 0 \/ v \in cut
        BY <1>1, <2>2, <2>3 DEF Held, OnFile
      <4> QED
        BY <1>1, <2>2, <2>3, <4>1 DEF Held, OnFile
    <3>3. CustodyKept'
      <4>1. \A k \in (Live \ torn) \ Ssh : vault[VaultOf[k]] # 0
        BY <1>1 DEF Held, Supplied, CustodyKept
      <4>2. \A k \in (Live \ torn) \ Ssh : vault'[VaultOf[k]] = vault[VaultOf[k]]
        BY <2>2, <2>3, <4>1, Constants DEF Live
      <4> QED
        BY <1>1, <2>4, <4>2 DEF Held, CustodyKept
    <3> QED
      BY <3>1, <3>2, <3>3 DEF Held
  <2>6. CASE Goto("keyFile")
    <3>1. /\ cmd'.ph = "keyFile" /\ cmd'.op = cmd.op /\ cmd'.new = cmd.new /\ cmd'.todo = cmd.todo
          /\ cmd'.keys = cmd.keys
      BY <2>6, GotoKeeps DEF Phase
    <3>2. vault'[First(cmd'.todo)] # 0
      BY <2>3, <3>1 DEF v
    <3>3. Doing'
      BY <1>1, <1>2, <1>3, <2>2, <3>1, <3>2, BootDoing DEF Boot
    <3> QED
      BY <2>5, <3>3 DEF Doing, Held, Custody
  <2>7. CASE Settle(v, cmd.keys \ KeysOf(v), TRUE)
    <3>1. cmd.keys \ KeysOf(v) \in SUBSET cmd.keys /\ \A k \in cmd.keys \ KeysOf(v) : VaultOf[k] # v
      BY <1>3 DEF KeysOf
    <3>2. Doing'
      BY <1>4, <2>2, <2>7, <3>1
    <3> QED
      BY <2>5, <3>2 DEF Doing, Held, Custody
  <2> QED
    BY <2>2, <2>6, <2>7
<1>8. CASE StorePublicKey
  <2>1. /\ pkFile' = [pkFile EXCEPT ![v] = vault[v]] /\ cut' = cut \ {v} /\ vault' = vault
        /\ Settle(v, cmd.keys, FALSE) /\ cmd.ph = "keyFile"
    BY <1>8 DEF StorePublicKey, InPhase, workerVars, v
  <2>2. v \in Vault /\ vault[v] # 0
    BY <1>1, <1>2, <2>1 DEF Equipped, v
  <2>3. pkFile'[v] = vault[v] /\ \A w \in Vault \ {v} : pkFile'[w] = pkFile[w]
    BY <1>1, <2>1, <2>2
  <2>4. Held'
    BY <1>1, <2>1, <2>2, <2>3 DEF Held, Versioned, Supplied, OnFile, CustodyKept, Live, Ssh
  <2>5. Doing'
    <3>1. \A k \in cmd.keys : VaultOf[k] \in Vault
      BY <1>3, Constants
    <3> QED
      BY <1>4, <2>1, <2>2, <2>3, <3>1
  <2> QED
    BY <2>4, <2>5 DEF Doing, Held, Custody
<1> QED
  BY <1>5, <1>6, <1>7, <1>8

LEMMA RecordsCustody ==
  ASSUME Typed, Custody, Material \/ ProvideSshKey \/ WriteAll
  PROVE  Custody'
<1>1. cmd \in Cmd /\ Stages /\ Equipped /\ Held /\ NoCmd.ph = "idle"
  BY NoCmdType DEF Typed, Custody, Held
<1>2. CASE Material
  <2>1. PICK keys \in SUBSET cmd.keys, failed \in BOOLEAN :
          cmd' = [cmd EXCEPT !.ph = "sshKeys", !.keys = keys, !.todo = keys \cap Ssh, !.failed = failed]
    BY <1>1, <1>2 DEF Material, Cmd
  <2>2. cmd.ph = "material" /\ UNCHANGED <<rec, pkFile, vault, sshKey, torn, cut>>
    BY <1>2 DEF Material, InPhase, localVars, workerVars, keyHistory
  <2>3. cmd'.ph = "sshKeys" /\ cmd'.keys \subseteq cmd.keys /\ cmd'.op = cmd.op /\ cmd'.new = cmd.new
    BY <1>1, <2>1 DEF Cmd
  <2>4. \A k \in cmd'.keys : pkFile'[VaultOf[k]] # 0
    BY <1>1, <2>2, <2>3 DEF Equipped
  <2>5. Doing'
    BY <1>1, <2>2, <2>3, <2>4, BootDoing DEF Boot
  <2> QED
    BY <1>1, <2>2, <2>5, HeldKept DEF Doing, Held, Custody
<1>3. CASE ProvideSshKey
  <2> DEFINE k == First(cmd.todo)
  <2>1. k \in Key /\ cmd.ph = "sshKeys" /\ Generate(k) /\ UNCHANGED <<rec, pkFile, vault, cut>>
    BY <1>1, <1>3, FirstIn DEF ProvideSshKey, InPhase, Stages, Ssh, localVars
  <2> HIDE DEF k
  <2>2. Held'
    BY <1>1, <2>1, GenerateHeld
  <2>3. CASE cmd' = NoCmd
    BY <1>1, <2>2, <2>3, QuietPhase DEF Working, Boot, Doing, Held, Custody
  <2>4. CASE cmd' = [cmd EXCEPT !.todo = @ \ {k}]
    <3>1. cmd'.ph = "sshKeys" /\ cmd'.keys = cmd.keys /\ cmd'.op = cmd.op /\ cmd'.new = cmd.new
      BY <1>1, <2>1, <2>4 DEF Cmd
    <3>2. \A q \in cmd'.keys : pkFile'[VaultOf[q]] # 0
      BY <1>1, <2>1, <3>1 DEF Equipped
    <3>3. Doing'
      BY <1>1, <2>1, <3>1, <3>2, BootDoing DEF Boot
    <3> QED
      BY <2>2, <3>3 DEF Doing, Held, Custody
  <2> QED
    BY <1>3, <2>3, <2>4 DEF ProvideSshKey, k
<1>4. CASE WriteAll
  <2>1. /\ cmd.ph = "sshKeys" /\ rec' = [k \in Key |-> NewRecord(k)]
        /\ torn' = {k \in Key : /\ rec'[k].st = "live"
                                /\ IF k \in cmd.keys THEN k \notin Ssh /\ VaultOf[k] \in cut
                                                     ELSE k \in torn}
        /\ cmd' = ToPublish("bootstrap") /\ UNCHANGED <<pkFile, vault, sshKey, cut>>
    BY <1>4 DEF WriteAll, InPhase, Store, Seal, workerVars
  <2>2. cmd.new.pv \in Version /\ \A k \in cmd.keys : pkFile[VaultOf[k]] # 0
    BY <1>1, <2>1 DEF Equipped, Boot
  <2>3. /\ \A k \in Key \ cmd.keys : rec'[k].st = "absent"
        /\ \A k \in Key \cap cmd.keys :
             /\ rec'[k].st = "live" /\ rec'[k].pv = cmd.new.pv
             /\ rec'[k].hash = Baseline[cmd.new.pv]
             /\ rec'[k].key = IF k \in Ssh THEN sshKey[k] ELSE pkFile[VaultOf[k]]
    BY <2>1, <2>2, HashType DEF NewRecord, Sealed, Absent
  <2>4. Live' = {k \in Key : rec'[k].st = "live"} /\ Ssh' = Ssh
    BY DEF Live, Ssh
  <2>5. Versioned' /\ Supplied' /\ OnFile'
    BY <1>1, <2>1, <2>2, <2>3, <2>4 DEF Held, Versioned, Supplied, OnFile
  <2>6. CustodyKept'
    <3> SUFFICES ASSUME NEW k \in Live' \ torn'
                 PROVE  IF k \in Ssh THEN rec'[k].key = sshKey[k]
                        ELSE rec'[k].key = vault[VaultOf[k]] /\ rec'[k].hash = Baseline[rec'[k].pv]
      BY <2>1, <2>4 DEF CustodyKept
    <3>1. k \in Key \cap cmd.keys
      BY <2>3, <2>4
    <3>2. k \in Ssh \/ VaultOf[k] \notin cut
      BY <2>1, <2>3, <3>1
    <3> QED
      BY <1>1, <2>2, <2>3, <3>1, <3>2, Constants DEF Held, OnFile
  <2>7. Doing'
    BY <2>1, ToPublishIs, QuietPhase DEF Operation, Working, Boot
  <2> QED
    BY <2>5, <2>6, <2>7 DEF Doing, Custody
<1> QED
  BY <1>2, <1>3, <1>4

LEMMA CustodyStep == ASSUME Typed, Custody, [Next]_vars PROVE Custody'
<1>1. Doing /\ Held
  BY DEF Custody, Doing, Held
<1>2. CASE Begins
  BY <1>1, <1>2, BegunDoing DEF Doing, Held, Custody
<1>3. CASE DeployWorker \/ Management \/ UNCHANGED vars
  <2>1. UNCHANGED <<rec, pkFile, vault, sshKey, torn, cut, cmd>>
    BY <1>3 DEF DeployWorker, Management, ToggleRead, TogglePut, ToggleRevert, ToggleDone, TogglePuts,
         vars, localVars, workerVars, keyHistory
  <2> QED
    BY <1>1, <2>1, HeldKept, DoingKept DEF Doing, Held, Custody
<1>4. CASE KeyStep
  BY <1>4, SshCustody, WriteCustody, KvCustody DEF KeyStep
<1>5. CASE BootRest
  BY <1>5, PrepareCustody, KeypairCustody, RecordsCustody DEF BootRest
<1> QED
  BY StepCases, <1>2, <1>3, <1>4, <1>5

(***************************************************************************)
(* What endpoint.json holds for a vault that vault can open, and the SSH   *)
(* keys that it lists it can sign with, save where a command destroyed the *)
(* keypair and was cut short before it wrote what it had sealed anew.      *)
(***************************************************************************)
THEOREM SecretsCanBeOpened == Spec => []CustodyKept
<1>1. Custody => CustodyKept
  BY DEF Custody
<1> QED
  BY TypedInit, TypedStep, CustodyInit, CustodyStep, <1>1, PTL DEF Spec

-----------------------------------------------------------------------------
(* KV.                                                                     *)

Shown == GoneRevoked /\ ReadStill /\ PauseMarked /\ PublishedAgrees /\ RevokedStaysOut /\ ListedIsRecorded

LEMMA ListingInit == Init => Listing
<1> SUFFICES ASSUME Init PROVE Listing
  OBVIOUS
<1>1. cmd.ph = "idle" /\ toggle.ph = "idle" /\ Live = {}
  BY NoCmdType DEF Init, Live, Absent, NoToggle
<1>2. Shown
  BY <1>1 DEF Shown, Init, GoneRevoked, ReadStill, PauseMarked, PublishedAgrees, RevokedStaysOut,
     ListedIsRecorded, Unlisted
<1>3. EmptyKept /\ Halting
  BY <1>1 DEF EmptyKept, Halting, Init, Unlisted
<1> QED
  BY <1>2, <1>3 DEF Shown, Listing

LEMMA ThereKept ==
  ASSUME UNCHANGED <<rec, behind>>, NEW k, policy'[Id(k)] = policy[Id(k)], PolicyThere(k)
  PROVE  PolicyThere(k)'
<1>1. Live' = Live
  BY DEF Live
<1>2. PICK t : t = policy[Id(k)]
  OBVIOUS
<1>3. t.of \in Key /\ (t.of \in Live \ behind => Id(t.of) = Id(k) /\ t.pv = rec[t.of].pv)
  BY <1>2 DEF PolicyThere
<1>4. Id(k)' = Id(k) /\ Id(t.of)' = Id(t.of)
  BY DEF Id
<1>5. policy'[Id(k)'] = t
  BY <1>2, <1>4
<1> QED
  BY <1>1, <1>3, <1>4, <1>5 DEF PolicyThere

LEMMA ShownKept ==
  ASSUME Shown, UNCHANGED <<entry, policy, rec, behind, gone, paused, crossed, toggle>>
  PROVE  Shown'
<1>1. Live' = Live /\ \A k \in Key : Id(k)' = Id(k)
  BY DEF Live, Id
<1>2. PublishedAgrees'
  BY <1>1 DEF Shown, PublishedAgrees, PolicyThere, Live
<1> QED
  BY <1>1, <1>2 DEF Shown, GoneRevoked, ReadStill, PauseMarked, RevokedStaysOut, ListedIsRecorded

LEMMA EmptyStays ==
  ASSUME EmptyKept, UNCHANGED <<entry, crossed>>, Emptied' => Emptied
  PROVE  EmptyKept'
BY DEF EmptyKept

\* Outside a bootstrap KV is empty only where no file names the namespace.
LEMMA NotBoot ==
  ASSUME cmd'.ph \notin Boot, cfgFile' = cfgFile \/ cfgFile'
  PROVE  Emptied' => Emptied /\ ~cfgFile'
BY DEF Emptied

LEMMA NotPublishing ==
  ASSUME cmd'.ph \notin {"read", "put", "again"}, cmd'.ph = "publish" => cmd'.halted = {}
  PROVE  Halting'
BY DEF Halting

\* What a command does that leaves KV and endpoint.json alone.
LEMMA AsideListing ==
  ASSUME Listing, UNCHANGED <<entry, policy, rec, behind, gone, paused, crossed, toggle>>,
         Emptied' => Emptied, cmd'.ph \notin {"read", "put", "again"},
         cmd'.ph = "publish" => cmd'.halted = {}
  PROVE  Listing'
BY ShownKept, EmptyStays, NotPublishing DEF Listing, Shown

LEMMA BeginListing == ASSUME Typed, Listing, Begins PROVE Listing'
<1>1. PICK c \in Cmd :
         /\ Run(c)
         /\ \/ Revoking(c) \/ RevokingAgain(c) \/ Rotating(c) \/ Replacing(c)
            \/ Adding(c) \/ Providing(c) \/ Booting(c)
            \/ (c.op = "push" /\ c.ph = "publish" /\ c.halted = {})
  BY HowBegun
<1>2. cmd' = c /\ cfgFile' = cfgFile
      /\ UNCHANGED <<entry, policy, rec, behind, gone, paused, crossed, toggle>>
  BY <1>1 DEF Run, localVars, kvVars, kvHistory
<1>3. \/ c.ph \in {"write", "unlist", "lend"}
      \/ c.ph = "publish" /\ c.halted = {}
      \/ c.ph = "deploy" /\ (c.op = "bootstrap" => ~cfgFile)
  BY <1>1 DEF Revoking, RevokingAgain, Rotating, Replacing, Adding, Providing, Booting
<1>4. Emptied' => Emptied
  BY <1>2, <1>3 DEF Emptied, Boot
<1> QED
  BY <1>2, <1>3, <1>4, AsideListing

LEMMA ToggleListing == ASSUME Typed, Listing, Management PROVE Listing'
<1>1. /\ toggle \in [ph : {"idle", "read", "put"}, k : Key \cup {NoKey}, old : Entry]
      /\ entry \in [Key -> Entry] /\ Stages /\ NoToggle.ph = "idle"
      /\ paused \subseteq Key /\ crossed \subseteq Key
  BY DEF Typed, TypeOK, NoToggle
<1>2. UNCHANGED <<cmd, cfgFile, rec, policy, behind, gone>>
  BY DEF Management, ToggleRead, TogglePut, ToggleRevert, ToggleDone, TogglePuts,
         localVars, kvVars, kvHistory
<1>3. Live' = Live /\ Emptied' = Emptied
  BY <1>2 DEF Live, Emptied, Boot
<1>4. CASE (\E k \in Key : ToggleRead(k)) \/ ToggleDone
  <2>1. UNCHANGED <<entry, paused, crossed>>
    BY <1>4 DEF ToggleRead, ToggleDone, kvVars, kvHistory
  <2>2. ReadStill'
    BY <1>1, <1>4, <2>1 DEF ToggleRead, ToggleDone, ReadStill
  <2>3. EmptyKept' /\ Halting'
    BY <1>2, <1>3, <2>1 DEF Listing, EmptyKept, Halting
  <2> QED
    BY <1>2, <1>3, <2>1, <2>2, <2>3 DEF Listing, GoneRevoked, PauseMarked, PublishedAgrees,
       RevokedStaysOut, ListedIsRecorded, PolicyThere, Id
<1>5. CASE TogglePut \/ ToggleRevert
  <2> DEFINE k == toggle.k
  <2>1. k \in Key /\ toggle.ph # "idle"
    BY <1>1, <1>5 DEF Stages, TogglePut, ToggleRevert
  <2>2. PICK e \in Entry : /\ TogglePuts(e) /\ e.on = toggle.old.on /\ e.pv = toggle.old.pv
    <3>1. CASE TogglePut
      <4>1. PICK b \in BOOLEAN : TogglePuts([toggle.old EXCEPT !.paused = b])
        BY <3>1 DEF TogglePut
      <4>2. LET e == [toggle.old EXCEPT !.paused = b] IN
            e \in Entry /\ e.on = toggle.old.on /\ e.pv = toggle.old.pv
        BY <1>1, EntryTypes DEF Entry
      <4> QED
        BY <4>1, <4>2
    <3>2. CASE ToggleRevert
      BY <1>1, <3>2 DEF ToggleRevert
    <3> QED
      BY <1>5, <3>1, <3>2
  <2>3. toggle'.ph # "idle" => toggle'.k = k /\ toggle'.old = toggle.old
    BY <1>1, <1>5 DEF TogglePut, ToggleRevert
  <2>4. /\ entry'[k] = e /\ \A q \in Key \ {k} : entry'[q] = entry[q] /\ (q \in paused' <=> q \in paused)
        /\ k \in paused' <=> e.paused
        /\ crossed' = IF Publishing THEN crossed \cup {k} ELSE crossed
    BY <1>1, <2>1, <2>2 DEF TogglePuts
  <2>5. toggle.old.on /\ (k \notin crossed => entry[k].on /\ entry[k].pv = e.pv)
    BY <2>1, <2>2 DEF Listing, ReadStill
  <2> HIDE DEF k
  <2>6. ReadStill'
    BY <2>2, <2>3, <2>4, <2>5 DEF ReadStill
  <2>7. PauseMarked'
    BY <2>4 DEF Listing, PauseMarked
  <2>8. PublishedAgrees'
    <3> SUFFICES ASSUME NEW q \in Live' \ (behind' \cup crossed')
                 PROVE  entry'[q].on /\ entry'[q].pv = rec'[q].pv
      BY <1>2, <1>3 DEF Listing, PublishedAgrees, PolicyThere, Id
    <3>1. q \in Key /\ q \in Live \ (behind \cup crossed)
      BY <1>2, <1>3, <2>4 DEF Live
    <3>2. entry[q].on /\ entry[q].pv = rec[q].pv
      BY <3>1 DEF Listing, PublishedAgrees
    <3>3. CASE q = k
      BY <1>2, <2>2, <2>4, <2>5, <3>1, <3>2, <3>3
    <3>4. CASE q # k
      BY <1>2, <2>4, <3>1, <3>2, <3>4
    <3> QED
      BY <3>3, <3>4
  <2>9. GoneRevoked' /\ RevokedStaysOut' /\ ListedIsRecorded'
    BY <1>2, <2>1, <2>4, <2>5 DEF Listing, GoneRevoked, RevokedStaysOut, ListedIsRecorded, Typed, TypeOK
  <2>10. EmptyKept'
    BY <1>3, <2>1, <2>4, <2>5 DEF Listing, EmptyKept
  <2>11. Halting'
    BY <1>2, <1>3, <2>4 DEF Listing, Halting, Publishing, Live
  <2> QED
    BY <2>6, <2>7, <2>8, <2>9, <2>10, <2>11 DEF Listing
<1> QED
  BY <1>4, <1>5 DEF Management

LEMMA IdIn == ASSUME Custody, NEW k \in Live PROVE Id(k) \in Name
<1>1. k \in Key /\ rec[k].pv \in Version
  BY DEF Live, Custody, Versioned
<1> QED
  BY <1>1, Constants DEF Id

\* endpoint.json is replaced: the live records that differ are noted.
LEMMA StoreShown ==
  ASSUME Typed, Shown, NEW new \in [Key -> Record], Store(new),
         UNCHANGED <<entry, policy, paused, crossed, toggle>>,
         \A k \in Key \ crossed : entry[k].on => new[k].st # "absent"
  PROVE  Shown'
<1>1. /\ rec' = new /\ gone \subseteq Key
      /\ behind' = {k \in Key : /\ new[k].st = "live"
                                /\ \/ k \in behind \/ rec[k].st # "live" \/ new[k].pv # rec[k].pv}
      /\ gone' = gone \ {k \in Key : new[k].st # "revoked"}
  BY DEF Store, Typed, TypeOK
<1>2. GoneRevoked' /\ RevokedStaysOut' /\ ListedIsRecorded'
  BY <1>1 DEF Shown, GoneRevoked, RevokedStaysOut, ListedIsRecorded
<1>3. PublishedAgrees'
  <2>1. ASSUME NEW q \in Live' \ behind'
        PROVE  q \in Live \ behind /\ new[q].pv = rec[q].pv /\ Id(q)' = Id(q)
    <3>1. q \in Key /\ new[q].st = "live"
      BY <1>1 DEF Live
    <3>2. q \in Live \ behind /\ new[q].pv = rec[q].pv
      BY <1>1, <3>1 DEF Live
    <3> QED
      BY <1>1, <3>2 DEF Id
  <2>2. ASSUME NEW q \in Live' \ (behind' \cup crossed)
        PROVE  entry[q].on /\ entry[q].pv = new[q].pv
    BY <2>1 DEF Shown, PublishedAgrees
  <2>3. ASSUME NEW q \in Live' \ behind'
        PROVE  PolicyThere(q)'
    <3>0. PICK t : t = policy[Id(q)]
      OBVIOUS
    <3>1. /\ t.of \in Key
          /\ t.of \in Live \ behind => Id(t.of) = Id(q) /\ t.pv = rec[t.of].pv
      BY <2>1, <3>0 DEF Shown, PublishedAgrees, PolicyThere
    <3>2. policy'[Id(q)'] = t
      BY <2>1, <3>0
    <3>3. t.of \in Live' \ behind' => Id(t.of)' = Id(q)' /\ t.pv = rec'[t.of].pv
      BY <1>1, <2>1, <3>1
    <3> QED
      BY <3>1, <3>2, <3>3 DEF PolicyThere
  <2> QED
    BY <1>1, <2>2, <2>3 DEF PublishedAgrees
<1>4. ReadStill' /\ PauseMarked'
  BY DEF Shown, ReadStill, PauseMarked
<1> QED
  BY <1>2, <1>3, <1>4 DEF Shown

LEMMA WriteListing == ASSUME Typed, Custody, Listing, Write \/ WriteAll PROVE Listing'
<1>1. /\ cmd \in Cmd /\ Stages /\ Planned /\ Equipped /\ Shown /\ EmptyKept
      /\ NoCmd.ph = "idle" /\ rec \in [Key -> Record] /\ rec' \in [Key -> Record]
  <2>1. Stores'
    BY StoresStep, StepCases DEF KeyStep, BootRest
  <2> QED
    BY <2>1, NoCmdType DEF Typed, TypeOK, Custody, Listing, Shown, Stores
<1>2. Store(rec') /\ UNCHANGED <<entry, policy, paused, crossed, toggle, cfgFile>>
  BY DEF Write, WriteAll, Store, kvVars
<1>3. \A k \in Key \ crossed : entry[k].on => rec'[k].st # "absent"
  <2>1. CASE Write
    <3>1. rec' = [rec EXCEPT ![cmd.k] = cmd.new] /\ cmd.new.st # "absent"
      BY <1>1, <2>1 DEF Write, Store, InPhase, Planned
    <3> QED
      BY <1>1, <3>1 DEF Shown, ListedIsRecorded
  <2>2. CASE WriteAll
    <3>1. Emptied
      BY <1>1, <2>2 DEF WriteAll, InPhase, Equipped, Emptied, Boot
    <3> QED
      BY <1>1, <3>1 DEF EmptyKept
  <2> QED
    BY <2>1, <2>2
<1>4. Shown'
  BY <1>1, <1>2, <1>3, StoreShown
<1>5. cmd'.ph \in {"idle", "unlist", "publish"} /\ (cmd'.ph = "publish" => cmd'.halted = {})
  BY <1>1, ToPublishIs DEF Write, WriteAll, Then, Operation, Cmd
<1>6. EmptyKept'
  BY <1>1, <1>2, <1>5, NotBoot, EmptyStays DEF Boot
<1> QED
  BY <1>4, <1>5, <1>6, NotPublishing DEF Shown, Listing

LEMMA UnlistListing == ASSUME Typed, Custody, Listing, UnlistKey \/ UnlistPolicy PROVE Listing'
<1> DEFINE k == cmd.k
<1>1. /\ k \in Key /\ rec[k].st = "revoked" /\ NoCmd.ph = "idle"
      /\ entry \in [Key -> Entry] /\ crossed \subseteq Key
  BY NoCmdType DEF Typed, TypeOK, Stages, Custody, Unlisting, UnlistKey, UnlistPolicy, InPhase
<1>2. /\ UNCHANGED <<rec, behind, toggle>> /\ (cfgFile' = cfgFile \/ cfgFile')
      /\ cmd'.ph \in {"idle", "unlistPolicy"}
  BY <1>1, GotoKeeps DEF UnlistKey, UnlistPolicy, Bind, Phase, localVars, kvHistory
<1> HIDE DEF k
<1>3. Live' = Live /\ k \notin Live
  BY <1>1, <1>2 DEF Live
<1>4. CASE UnlistKey
  <2>1. /\ entry' = [entry EXCEPT ![k] = Unlisted] /\ policy' = policy
        /\ paused' = paused \ {k} /\ gone' = gone \cup {k}
        /\ crossed' = (crossed \ {k}) \cup ({k} \cap InFlight) /\ cfgFile'
    BY <1>4 DEF UnlistKey, Crossing, Bind, k
  <2>2. /\ entry'[k] = Unlisted /\ \A q \in Key \ {k} : entry'[q] = entry[q]
        /\ ~Unlisted.on /\ ~Unlisted.paused
    BY <1>1, <2>1 DEF Unlisted
  <2>3. ReadStill'
    BY <1>1, <1>2, <2>1, <2>2 DEF Listing, ReadStill, InFlight, Typed, Stages
  <2>4. PauseMarked' /\ RevokedStaysOut' /\ ListedIsRecorded' /\ GoneRevoked'
    BY <1>1, <1>2, <2>1, <2>2 DEF Listing, PauseMarked, RevokedStaysOut, ListedIsRecorded, GoneRevoked,
       Typed, TypeOK
  <2>5. PublishedAgrees'
    <3>1. \A q \in Live \ behind : PolicyThere(q)'
      BY <1>2, <2>1, ThereKept DEF Listing, PublishedAgrees
    <3>2. \A q \in Live \ (behind \cup crossed') : entry'[q].on /\ entry'[q].pv = rec[q].pv
      BY <1>3, <2>1, <2>2 DEF Listing, PublishedAgrees, Live
    <3> QED
      BY <1>2, <1>3, <3>1, <3>2 DEF PublishedAgrees
  <2>6. EmptyKept' /\ Halting'
    BY <1>2, <2>1, NotBoot, NotPublishing DEF EmptyKept, Boot
  <2> QED
    BY <2>3, <2>4, <2>5, <2>6 DEF Listing
<1>5. CASE UnlistPolicy
  <2>1. /\ UNCHANGED <<entry, gone, paused, crossed, cfgFile>>
        /\ \/ policy' = policy
           \/ Having(Id(k), Live) = {} /\ policy' = [policy EXCEPT ![Id(k)] = NoPolicy]
    BY <1>5 DEF UnlistPolicy, localVars, kvHistory, k
  <2>2. \A q \in Live : policy'[Id(q)] = policy[Id(q)]
    <3> SUFFICES ASSUME NEW q \in Live PROVE policy'[Id(q)] = policy[Id(q)]
      OBVIOUS
    <3>1. policy \in [Name -> PolicyRow] /\ Id(q) \in Name
      BY IdIn, TypedParts DEF Stores
    <3>2. Having(Id(k), Live) = {} => Id(q) # Id(k)
      BY DEF Having
    <3> QED
      BY <2>1, <3>1, <3>2
  <2>3. PublishedAgrees'
    <3>1. \A q \in Live \ behind : PolicyThere(q)'
      BY <1>2, <2>2, ThereKept DEF Listing, PublishedAgrees
    <3>2. \A q \in Live \ (behind \cup crossed') : entry'[q].on /\ entry'[q].pv = rec[q].pv
      BY <2>1 DEF Listing, PublishedAgrees
    <3> QED
      BY <1>2, <1>3, <3>1, <3>2 DEF PublishedAgrees
  <2>4. ReadStill' /\ PauseMarked' /\ RevokedStaysOut' /\ ListedIsRecorded' /\ GoneRevoked'
    BY <1>2, <2>1 DEF Listing, ReadStill, PauseMarked, RevokedStaysOut, ListedIsRecorded, GoneRevoked
  <2>5. EmptyKept' /\ Halting'
    BY <1>2, <2>1, NotBoot, NotPublishing, EmptyStays DEF Listing, Boot
  <2> QED
    BY <2>3, <2>4, <2>5 DEF Listing
<1> QED
  BY <1>4, <1>5

LEMMA PutListing ==
  ASSUME Typed, Custody, Listing, PutEntries \/ PutFails \/ PutAgain
  PROVE  Listing'
<1>1. /\ cmd \in Cmd /\ Stages /\ cmd.ph \in {"put", "again"} /\ cfgFile
      /\ \A q \in Live \ crossed : q \in cmd.halted <=> q \in paused
  BY DEF Typed, PutEntries, PutFails, PutAgain, InPhase, Listing, Halting
<1>2. /\ UNCHANGED <<rec, gone, toggle, cfgFile>>
      /\ cmd'.ph \in {"idle", "again", "await"} /\ (cmd'.ph = "again" => cmd'.halted = cmd.halted)
  <2>1. CASE PutFails
    BY <2>1, NoCmdType DEF PutFails, localVars
  <2>2. CASE PutEntries \/ PutAgain
    BY <2>2, AgainIs DEF PutEntries, PutAgain, localVars
  <2> QED
    BY <2>1, <2>2
<1>3. PICK S \in SUBSET Live, N \in SUBSET Ids(Live) :
        /\ Put(S, N)
        /\ \/ S = Live /\ N = Ids(Live) /\ behind' = behind \ Live
           \/ behind' = behind
  BY PutsWhat
<1>4. /\ \A q \in S : entry'[q] = Built(q)
      /\ \A q \in Key \ S : entry'[q] = entry[q]
      /\ crossed' = (crossed \ S) \cup (S \cap InFlight)
      /\ paused' = (paused \ (S \cap crossed)) \cup (S \cap crossed \cap cmd.halted)
      /\ S \subseteq Key
  BY <1>3 DEF Put, Crossing, Live
<1>5. \A q \in S : entry'[q].on /\ entry'[q].pv = rec[q].pv /\ (entry'[q].paused <=> q \in cmd.halted)
  <2> SUFFICES ASSUME NEW q \in S
               PROVE  entry'[q].on /\ entry'[q].pv = rec[q].pv /\ (entry'[q].paused <=> q \in cmd.halted)
    OBVIOUS
  <2>1. entry'[q] = Built(q)
    BY <1>4
  <2>2. Built(q).paused = (q \in cmd.halted)
    BY DEF Built
  <2>3. Built(q).on /\ Built(q).pv = rec[q].pv
    BY DEF Built
  <2> QED
    BY <2>1, <2>2, <2>3
<1>6. Live' = Live
  BY <1>2 DEF Live
<1>7. ReadStill'
  BY <1>2, <1>4 DEF Listing, ReadStill, InFlight, Typed, Stages
<1>8. PauseMarked'
  BY <1>1, <1>4, <1>5 DEF Listing, PauseMarked
<1>9. PublishedAgrees'
  <2>1. ASSUME NEW q \in Live' \ (behind' \cup crossed')
        PROVE  entry'[q].on /\ entry'[q].pv = rec'[q].pv
    BY <1>2, <1>3, <1>4, <1>5, <1>6 DEF Listing, PublishedAgrees, Live
  <2>2. ASSUME NEW q \in Live' \ behind'
        PROVE  PolicyThere(q)'
    <3>1. q \in Live /\ Id(q) \in Name /\ Id(q)' = Id(q)
      BY <1>2, <1>6, IdIn DEF Id
    <3>2. CASE Id(q) \in N
      <4>1. policy'[Id(q)] = FirstOf(Id(q))
        BY <1>3, <3>1, <3>2 DEF Put
      <4>2. PICK p \in Live : Id(p) = Id(q) /\ FirstOf(Id(q)) = [of |-> p, pv |-> rec[p].pv]
        BY <3>2, FirstOfIs
      <4>3. p \in Key /\ Id(p)' = Id(p)
        BY <1>2 DEF Live, Id
      <4> QED
        BY <1>2, <3>1, <4>1, <4>2, <4>3 DEF PolicyThere
    <3>3. CASE Id(q) \notin N
      <4>1. behind' = behind /\ policy'[Id(q)] = policy[Id(q)]
        BY <1>3, <3>1, <3>3 DEF Ids, Put
      <4>2. PolicyThere(q)
        BY <1>6, <4>1 DEF Listing, PublishedAgrees
      <4> QED
        BY <1>2, <1>6, <3>1, <4>1, <4>2 DEF PolicyThere, Id
    <3> QED
      BY <3>2, <3>3
  <2> QED
    BY <2>1, <2>2 DEF PublishedAgrees
<1>10. GoneRevoked' /\ RevokedStaysOut' /\ ListedIsRecorded'
  BY <1>2, <1>4, <1>5 DEF Listing, GoneRevoked, RevokedStaysOut, ListedIsRecorded, Live, Typed, TypeOK
<1>11. EmptyKept'
  BY <1>1, <1>2, NotBoot DEF EmptyKept, Boot
<1>12. Halting'
  BY <1>1, <1>2, <1>3, <1>4, <1>6 DEF Halting
<1> QED
  BY <1>7, <1>8, <1>9, <1>10, <1>11, <1>12 DEF Listing

LEMMA WipeListing == ASSUME Typed, Listing, WipeNamespace PROVE Listing'
<1>1. /\ entry' = [k \in Key |-> Unlisted] /\ behind' = Live /\ paused' = {}
      /\ crossed' = (crossed \ Key) \cup (Key \cap InFlight) /\ UNCHANGED <<rec, toggle, gone>>
      /\ ~Unlisted.on /\ ~Unlisted.paused
  BY DEF WipeNamespace, Crossing, localVars, Unlisted
<1>2. cmd'.ph = "forget"
  BY GotoKeeps DEF WipeNamespace, Phase
<1>3. ReadStill'
  BY <1>1 DEF Listing, ReadStill, InFlight, Typed, Stages
<1>4. Live' = Live
  BY <1>1 DEF Live
<1>5. PauseMarked' /\ PublishedAgrees' /\ RevokedStaysOut' /\ ListedIsRecorded' /\ GoneRevoked'
  BY <1>1, <1>4 DEF Listing, PauseMarked, PublishedAgrees, RevokedStaysOut, ListedIsRecorded,
     GoneRevoked, Live, Typed, TypeOK
<1>6. EmptyKept'
  BY <1>1 DEF EmptyKept
<1> QED
  BY <1>2, <1>3, <1>5, <1>6, NotPublishing DEF Listing

LEMMA ReadListing == ASSUME Typed, Listing, Publish \/ ReadEntry PROVE Listing'
<1>1. /\ cmd \in Cmd /\ Stages /\ NoCmd.ph = "idle"
      /\ UNCHANGED <<entry, policy, rec, behind, gone, paused, crossed, toggle>>
  BY NoCmdType DEF Typed, Publish, ReadEntry, localVars, kvVars, kvHistory
<1>2. cfgFile' = cfgFile \/ cfgFile'
  BY DEF Publish, ReadEntry, Bind, localVars
<1>3. cmd'.ph \in {"idle", "read", "put"}
  BY <1>1 DEF Publish, ReadEntry, Cmd
<1>4. EmptyKept' /\ Shown'
  BY <1>1, <1>2, <1>3, NotBoot, EmptyStays, ShownKept DEF Listing, Shown, Boot
<1>5. Live' = Live
  BY <1>1 DEF Live
<1>6. CASE Publish
  <2>1. /\ cmd' = NoCmd \/ (cmd'.ph = "read" /\ cmd'.todo = Live /\ cmd'.halted = cmd.halted /\ cfgFile')
        /\ cmd.halted = {}
    BY <1>1, <1>6 DEF Publish, Bind, Cmd, InPhase, Listing, Halting
  <2>2. Halting'
    BY <1>1, <1>5, <2>1 DEF Halting
  <2> QED
    BY <1>4, <2>2 DEF Shown, Listing
<1>7. CASE ReadEntry
  <2> DEFINE k == First(cmd.todo)
  <2>1. /\ cmd.ph = "read" /\ cfgFile' = cfgFile
        /\ cmd'.ph = IF cmd.todo = {k} THEN "put" ELSE "read"
        /\ cmd'.todo = cmd.todo \ {k}
        /\ cmd'.halted = IF entry[k].paused THEN cmd.halted \cup {k} ELSE cmd.halted
    BY <1>1, <1>7 DEF ReadEntry, InPhase, Cmd, localVars
  <2>2. k \in Key /\ k \in cmd.todo
    BY <1>1, <2>1, FirstIn DEF Stages
  <2> HIDE DEF k
  <2>3. \A q \in Live \ (crossed \cup cmd'.todo) : q \in cmd'.halted <=> q \in paused
    <3> SUFFICES ASSUME NEW q \in Live \ (crossed \cup cmd'.todo)
                 PROVE  q \in cmd'.halted <=> q \in paused
      OBVIOUS
    <3>1. q \in Key /\ q \notin crossed
      BY DEF Live
    <3>2. q # k => q \notin cmd.todo
      BY <2>1
    <3>3. CASE q # k
      BY <2>1, <3>2, <3>3 DEF Listing, Halting
    <3>4. CASE q = k
      <4>1. entry[k].paused <=> k \in paused
        BY <3>1, <3>4 DEF Listing, PauseMarked
      <4>2. k \notin cmd.halted
        BY <2>1, <2>2 DEF Listing, Halting
      <4> QED
        BY <2>1, <3>4, <4>1, <4>2
    <3> QED
      BY <3>3, <3>4
  <2>4. cmd'.halted \cap cmd'.todo = {}
    BY <2>1 DEF Listing, Halting
  <2>5. cmd'.ph = "put" => cmd'.todo = {}
    BY <2>1
  <2>6. Halting'
    BY <1>1, <1>3, <1>5, <2>1, <2>3, <2>4, <2>5 DEF Listing, Halting
  <2> QED
    BY <1>4, <2>6 DEF Shown, Listing
<1> QED
  BY <1>6, <1>7

LEMMA OtherListing ==
  ASSUME Typed, Custody, Listing,
         \/ LendToken \/ VaultCall \/ Reclaim \/ Await \/ Clean \/ CleanEnv \/ Abort
         \/ Deploy \/ Secrets \/ ResetVault \/ ForgetNamespace \/ DeleteFiles \/ ReuseKeypair
         \/ Keygen \/ KeygenFails \/ StorePublicKey \/ Material \/ ProvideSshKey
  PROVE  Listing'
<1>1. /\ cmd \in Cmd /\ NoCmd.ph = "idle" /\ Equipped
      /\ UNCHANGED <<entry, policy, rec, behind, gone, paused, crossed, toggle>>
  BY NoCmdType DEF Typed, Custody, LendToken, VaultCall, Reclaim, Await, Clean, CleanEnv, Abort,
       Deploy, Secrets, ResetVault, ForgetNamespace, DeleteFiles, ReuseKeypair, Keygen, KeygenFails,
       StorePublicKey, Material, ProvideSshKey, localVars, kvVars, kvHistory
<1>2. CASE LendToken \/ VaultCall \/ Reclaim \/ Await \/ Clean \/ CleanEnv \/ Abort
  <2>1. cfgFile' = cfgFile \/ cfgFile'
    BY <1>2 DEF LendToken, VaultCall, Reclaim, Await, Clean, CleanEnv, Abort, Bind, localVars
  <2>2. cmd'.ph \in {"idle", "vault", "reclaim", "write", "clean", "cleanEnv"}
    BY <1>1, <1>2 DEF LendToken, VaultCall, Reclaim, Await, Clean, CleanEnv, Abort, Goto, Cmd
  <2> QED
    BY <1>1, <2>1, <2>2, NotBoot, AsideListing DEF Boot
<1>3. CASE Deploy
  <2>1. /\ cmd'.ph = IF cmd.ph = "deploy" THEN "secrets" ELSE "resecrets"
        /\ cmd'.op = cmd.op /\ cfgFile' /\ cmd.ph \in {"deploy", "redeploy"}
    BY <1>1, <1>3 DEF Deploy, Bind, Goto, InPhase, Cmd
  <2> QED
    BY <1>1, <2>1, AsideListing DEF Emptied, Boot
<1>4. CASE Secrets
  <2>1. /\ cmd'.ph = IF cmd.ph = "secrets" /\ cmd.op = "nuke" THEN "reset" ELSE "keygen"
        /\ cmd'.op = cmd.op /\ cfgFile' = cfgFile /\ cmd.ph \in {"secrets", "resecrets"}
    BY <1>1, <1>4 DEF Secrets, InPhase, Cmd
  <2> QED
    BY <1>1, <2>1, AsideListing DEF Emptied, Boot
<1>5. CASE ResetVault \/ ProvideSshKey
  <2>1. /\ cfgFile' = cfgFile
        /\ \/ cmd'.op = cmd.op /\ cmd.ph = "reset" /\ cmd'.ph \in {"reset", "wipe"}
           \/ cmd'.op = cmd.op /\ cmd.ph = "sshKeys" /\ cmd'.ph = "sshKeys"
           \/ cmd' = NoCmd
    BY <1>1, <1>5 DEF ResetVault, ProvideSshKey, InPhase, Cmd, localVars
  <2> QED
    BY <1>1, <2>1, NotBoot, AsideListing DEF Emptied, Boot
<1>6. CASE ForgetNamespace
  <2>1. cmd.ph = "forget" /\ cmd'.ph = "files"
    BY <1>1, <1>6 DEF ForgetNamespace, Goto, InPhase, Cmd
  <2>2. Emptied
    BY <1>1, <2>1 DEF Equipped, Emptied, Boot
  <2> QED
    BY <1>1, <2>1, <2>2, AsideListing
<1>7. CASE DeleteFiles \/ ReuseKeypair \/ Keygen \/ KeygenFails \/ StorePublicKey \/ Material
  <2>1. /\ cmd'.op = cmd.op /\ cfgFile' = cfgFile
        /\ cmd.ph \in {"files", "keygen", "keyFile", "material"}
        /\ cmd'.ph \in {"redeploy", "keygen", "keyFile", "material", "sshKeys"}
    BY <1>1, <1>7 DEF DeleteFiles, ReuseKeypair, Keygen, KeygenFails, StorePublicKey, Material,
         Settle, Goto, InPhase, Cmd, localVars
  <2> QED
    BY <1>1, <2>1, AsideListing DEF Emptied, Boot
<1> QED
  BY <1>2, <1>3, <1>4, <1>5, <1>6, <1>7

LEMMA ListingStep == ASSUME Typed, Custody, Listing, [Next]_vars PROVE Listing'
<1>1. CASE Begins
  BY <1>1, BeginListing
<1>2. CASE DeployWorker \/ UNCHANGED vars
  <2>1. /\ UNCHANGED <<entry, policy, rec, behind, gone, paused, crossed, toggle, cmd>>
        /\ cfgFile' = cfgFile \/ cfgFile'
    BY <1>2 DEF DeployWorker, Bind, vars, localVars, kvVars, kvHistory
  <2>2. Emptied' => Emptied
    BY <2>1 DEF Emptied, Boot
  <2>3. Halting'
    BY <2>1 DEF Listing, Halting, Live
  <2> QED
    BY <2>1, <2>2, <2>3, ShownKept, EmptyStays DEF Listing, Shown
<1>3. CASE Management
  BY <1>3, ToggleListing
<1>4. CASE KeyStep
  BY <1>4, OtherListing, WriteListing, UnlistListing, ReadListing, PutListing DEF KeyStep
<1>5. CASE BootRest
  BY <1>5, OtherListing, WriteListing, WipeListing DEF BootRest
<1> QED
  BY StepCases, <1>1, <1>2, <1>3, <1>4, <1>5

LEMMA ListingHolds == Spec => []Listing
BY TypedInit, TypedStep, CustodyInit, CustodyStep, ListingInit, ListingStep, PTL DEF Spec

(***************************************************************************)
(* A live record that a publication has come to lists the key with the     *)
(* policy it is sealed for, whatever was cut short before and after.       *)
(***************************************************************************)
THEOREM PublicationAgrees == Spec => []PublishedAgrees
<1>1. Listing => PublishedAgrees
  BY DEF Listing
<1> QED
  BY ListingHolds, <1>1, PTL

(***************************************************************************)
(* Once --revoke-key has deleted the entry of a key no publication brings  *)
(* it back: _build_structured_kv_entries passes over revoked records.      *)
(***************************************************************************)
THEOREM RevokedNotListed == Spec => []RevokedStaysOut
<1>1. Listing => RevokedStaysOut
  BY DEF Listing
<1> QED
  BY ListingHolds, <1>1, PTL

(***************************************************************************)
(* KV lists no key that endpoint.json has lost: a bootstrap that drops     *)
(* records has emptied the namespace first.                                *)
(***************************************************************************)
THEOREM NothingListedUnrecorded == Spec => []ListedIsRecorded
<1>1. Listing => ListedIsRecorded
  BY DEF Listing
<1> QED
  BY ListingHolds, <1>1, PTL

(***************************************************************************)
(* A publication leaves a key paused, and a key that is not as it is,      *)
(* unless the request of the management API came while it ran.             *)
(***************************************************************************)
THEOREM PausePublished == Spec => []PauseKept
<1>1. Listing => PauseKept
  BY DEF Listing, PauseMarked, PauseKept
<1> QED
  BY ListingHolds, <1>1, PTL
=============================================================================
