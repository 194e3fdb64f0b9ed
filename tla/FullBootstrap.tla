---------------------------- MODULE FullBootstrap ----------------------------
(***************************************************************************)
(* bootstrap.sh without a mode: it deploys the Worker, has the vaults      *)
(* generate their keypairs, seals every secret of the manifest, replaces   *)
(* endpoint.json and publishes it.  Where kv-config.json tells of earlier  *)
(* state it resets that first, which is what --nuke confirms.              *)
(***************************************************************************)
EXTENDS KeyLifecycle

-----------------------------------------------------------------------------

\* Without kv-config.json the run is not destructive, with --nuke or without.
Destructive == cfgFile

Bootstrap(p) ==
  /\ \A k \in Manifest : p \in Policies[k]
  /\ Run([NoCmd EXCEPT !.op = IF Destructive THEN "nuke" ELSE "bootstrap",
                       !.ph = "deploy", !.new.pv = p])

Homes == {VaultOf[k] : k \in Manifest}

\* deploy_worker: the namespace and the code, then the secrets.
Deploy ==
  /\ cmd.ph \in {"deploy", "redeploy"}
  /\ Bind
  /\ Goto(IF InPhase("deploy") THEN "secrets" ELSE "resecrets")
  /\ UNCHANGED <<ran, keysFile, rec, pkFile, envToken, kvVars, workerVars,
                 toggle, kvHistory, keyHistory>>

KeepToken == envToken' = TRUE

\* The .env of the host gets the token right after the Worker.
Secrets ==
  /\ cmd.ph \in {"secrets", "resecrets"}
  /\ token' = TRUE
  /\ KeepToken
  /\ cmd' = IF InPhase("secrets") /\ cmd.op = "nuke"
            THEN [cmd EXCEPT !.ph = "reset", !.todo = Homes]
            ELSE [cmd EXCEPT !.ph = "keygen", !.todo = Homes, !.keys = Manifest]
  /\ UNCHANGED <<ran, keysFile, rec, cfgFile, pkFile, kvVars, vault, sshKey,
                 toggle, kvHistory, keyHistory>>

-----------------------------------------------------------------------------
(* The reset.                                                              *)

\* _handleReset: the keypair of the vault goes, and its SSH keys.
ResetVault ==
  LET v     == First(cmd.todo)
      owned == {k \in Key : VaultOf[k] = v}
  IN
  /\ InPhase("reset")
  /\ vault' = [vault EXCEPT ![v] = 0]
  /\ sshKey' = [k \in Key |-> IF k \in owned THEN 0 ELSE sshKey[k]]
  /\ torn' = torn \cup (owned \cap Live)
  /\ cut' = cut \cup {v}
  /\ cmd' = [cmd EXCEPT !.todo = @ \ {v},
                         !.ph = IF cmd.todo = {v} THEN "wipe" ELSE "reset"]
  /\ UNCHANGED <<ran, localVars, kvVars, token, toggle, kvHistory, excused>>

\* Mutant: only the keys of live records are deleted, one by one.
WipeLive ==
  /\ InPhase("wipe")
  /\ entry' = [k \in Key |-> IF k \in Live THEN Unlisted ELSE entry[k]]
  /\ policy' = [i \in Name |-> IF i \in Ids(Live) THEN NoPolicy ELSE policy[i]]
  /\ behind' = Live
  /\ paused' = paused \ Live
  /\ Crossing(Live)
  /\ Goto("forget")
  /\ UNCHANGED <<ran, localVars, workerVars, toggle, gone, keyHistory>>

\* _delete_kv_namespace_if_present: the namespace, then the file that names it.
WipeNamespace ==
  /\ InPhase("wipe")
  /\ entry' = [k \in Key |-> Unlisted]
  /\ policy' = [i \in Name |-> NoPolicy]
  /\ behind' = Live
  /\ paused' = {}
  /\ Crossing(Key)
  /\ Goto("forget")
  /\ UNCHANGED <<ran, localVars, workerVars, toggle, gone, keyHistory>>

ForgetNamespace ==
  /\ InPhase("forget")
  /\ cfgFile' = FALSE
  /\ Goto("files")
  /\ UNCHANGED <<ran, keysFile, rec, pkFile, envToken, kvVars, workerVars,
                 toggle, kvHistory, keyHistory>>

\* The public keys of the vaults that hold API keys.
DeleteFiles ==
  /\ InPhase("files")
  /\ LET opened == {VaultOf[k] : k \in Declared} IN
       /\ pkFile' = [v \in Vault |-> IF v \in opened THEN 0 ELSE pkFile[v]]
       /\ cut' = cut \ opened
  /\ Goto("redeploy")
  /\ UNCHANGED <<ran, keysFile, rec, cfgFile, envToken, kvVars, workerVars,
                 toggle, kvHistory, torn, excused>>

-----------------------------------------------------------------------------
(* The keypairs and the records.                                           *)

Reusable(v) == cmd.op # "nuke" /\ pkFile[v] # 0

KeysOf(v) == {k \in Manifest : VaultOf[k] = v}

Settle(v, keys, failed) ==
  LET left == cmd.todo \ {v} IN
  cmd' = [cmd EXCEPT !.todo = left, !.keys = keys, !.failed = @ \/ failed,
                     !.ph = IF left = {} THEN "material" ELSE "keygen"]

ReuseKeypair ==
  LET v == First(cmd.todo) IN
  /\ InPhase("keygen")
  /\ Reusable(v)
  /\ Settle(v, cmd.keys, FALSE)
  /\ UNCHANGED <<ran, localVars, kvVars, workerVars, toggle, kvHistory,
                 keyHistory>>

\* _handleSetupKeygen, for a vault that has no keypair.
Keygen ==
  LET v == First(cmd.todo) IN
  /\ InPhase("keygen")
  /\ ~Reusable(v)
  /\ vault[v] = 0
  /\ \E n \in Keypair : IsFresh(n, VaultUse(v)) /\ vault' = [vault EXCEPT ![v] = n]
  /\ \/ Goto("keyFile")
     \/ Settle(v, cmd.keys \ KeysOf(v), TRUE)
  /\ UNCHANGED <<ran, localVars, kvVars, sshKey, token, toggle, kvHistory,
                 keyHistory>>

\* It is initialized already, or the call fails: its keys are skipped.
KeygenFails ==
  LET v == First(cmd.todo) IN
  /\ InPhase("keygen")
  /\ ~Reusable(v)
  /\ Settle(v, cmd.keys \ KeysOf(v), TRUE)
  /\ UNCHANGED <<ran, localVars, kvVars, workerVars, toggle, kvHistory,
                 keyHistory>>

StorePublicKey ==
  LET v == First(cmd.todo) IN
  /\ InPhase("keyFile")
  /\ pkFile' = [pkFile EXCEPT ![v] = vault[v]]
  /\ cut' = cut \ {v}
  /\ Settle(v, cmd.keys, FALSE)
  /\ UNCHANGED <<ran, keysFile, rec, cfgFile, envToken, kvVars, workerVars,
                 toggle, kvHistory, torn, excused>>

\* The second phase reads the public keys again and may skip keys.
Material ==
  /\ InPhase("material")
  /\ \E keys \in SUBSET cmd.keys :
       cmd' = [cmd EXCEPT !.ph = "sshKeys", !.keys = keys, !.todo = keys \cap Ssh,
                          !.failed = @ \/ keys # cmd.keys]
  /\ UNCHANGED <<ran, localVars, kvVars, workerVars, toggle, kvHistory,
                 keyHistory>>

\* An SSH key that cannot be provided ends the run.
ProvideSshKey ==
  LET k == First(cmd.todo) IN
  /\ InPhase("sshKeys") /\ cmd.todo # {}
  /\ Generate(k)
  /\ \/ cmd' = [cmd EXCEPT !.todo = @ \ {k}] /\ UNCHANGED excused
     \/ cmd' = NoCmd /\ excused' = token
  /\ UNCHANGED <<ran, localVars, kvVars, vault, token, toggle, kvHistory, cut>>

Sealed(k) ==
  [st |-> "live", pv |-> cmd.new.pv, hash |-> HashOf(cmd.new.pv),
   key |-> IF k \in Ssh THEN sshKey[k] ELSE pkFile[VaultOf[k]]]

\* Mutant: a key that was skipped leaves a placeholder.
NewRecordOrPlaceholder(k) ==
  IF k \in cmd.keys THEN Sealed(k) ELSE [Absent EXCEPT !.st = "skipped"]

NewRecord(k) == IF k \in cmd.keys THEN Sealed(k) ELSE Absent

\* Records that the run does not write anew are dropped.
WriteAll ==
  LET new == [k \in Key |-> NewRecord(k)] IN
  /\ InPhase("sshKeys") /\ cmd.todo = {}
  /\ Store(new)
  /\ Seal(cmd.keys)
  /\ cmd' = ToPublish("bootstrap")
  /\ UNCHANGED <<ran, cfgFile, pkFile, envToken, kvVars, workerVars, toggle,
                 paused, crossed, cut, excused>>

-----------------------------------------------------------------------------

Init ==
  /\ keysFile = FALSE /\ cfgFile = FALSE /\ envToken = FALSE /\ token = FALSE
  /\ rec = [k \in Key |-> Absent]
  /\ pkFile = [v \in Vault |-> 0]
  /\ entry = [k \in Key |-> Unlisted]
  /\ policy = [i \in Name |-> NoPolicy]
  /\ vault = [v \in Vault |-> 0]
  /\ sshKey = [k \in Key |-> 0]
  /\ cmd = NoCmd /\ ran = [commands |-> 0, requests |-> 0]
  /\ toggle = NoToggle
  /\ behind = {} /\ gone = {} /\ paused = {} /\ crossed = {}
  /\ torn = {} /\ cut = {} /\ excused = FALSE

BootstrapStep ==
  \/ \E p \in Version : Bootstrap(p)
  \/ Deploy \/ Secrets \/ ResetVault \/ WipeNamespace \/ ForgetNamespace
  \/ DeleteFiles \/ ReuseKeypair \/ Keygen \/ KeygenFails \/ StorePublicKey
  \/ Material \/ ProvideSshKey \/ WriteAll

Next == BootstrapStep \/ KeyCommand \/ KeyStep \/ Management

Spec == Init /\ [][Next]_vars

-----------------------------------------------------------------------------
(* Properties.                                                             *)

Phase == {"idle", "lend", "vault", "reclaim", "write", "unlist", "unlistPolicy",
          "publish", "read", "put", "again", "await", "clean", "cleanEnv", "deploy",
          "secrets", "reset", "wipe", "forget", "files", "redeploy", "resecrets",
          "keygen", "keyFile", "material", "sshKeys"}

Record == [st : {"absent", "live", "revoked"}, pv : Version \cup {0},
           hash : {HashOf(p) : p \in Version \cup {0}}, key : Keypair \cup {0}]
Entry  == [on : BOOLEAN, pv : Version \cup {0}, paused : BOOLEAN]

TypeOK ==
  /\ {keysFile, cfgFile, envToken, token, excused} \subseteq BOOLEAN
  /\ rec \in [Key -> Record]
  /\ entry \in [Key -> Entry]
  /\ policy \in [Name -> [of : Key \cup {NoKey}, pv : Version \cup {0}]]
  /\ {vault, pkFile} \subseteq [Vault -> Keypair \cup {0}]
  /\ sshKey \in [Key -> Keypair \cup {0}]
  /\ cmd.ph \in Phase /\ cmd.new \in Record /\ cmd.failed \in BOOLEAN
  /\ cmd.k \in Key \cup {NoKey}
  /\ ran \in [commands : 0 .. MaxCommands, requests : 0 .. MaxRequests]
  /\ {cmd.known, cmd.halted, cmd.keys} \subseteq SUBSET Key
  /\ cmd.todo \subseteq Key \cup Vault
  /\ toggle \in [ph : {"idle", "read", "put"}, k : Key \cup {NoKey},
                 old : Entry]
  /\ {behind, gone, paused, crossed, torn} \subseteq SUBSET Key
  /\ cut \subseteq Vault

\* Under the policy id of k stands the policy of a key: if it is live, and is not
\* changed since, the one of its record, with this id.
PolicyThere(k) ==
  LET there == policy[Id(k)] IN
  /\ there.of \in Key
  /\ there.of \in Live \ behind =>
       Id(there.of) = Id(k) /\ there.pv = rec[there.of].pv

\* A live record that a publication has come to lists the key with the policy it
\* is sealed for, and there is a policy under its id, this one or that of a key
\* with the same id, whatever was cut short before and after, a publication half
\* way through its puts included: push the registry, and KV follows endpoint.json
\* again (_publish_structured_kv).
PublishedAgrees ==
  /\ \A k \in Live \ (behind \cup crossed) : entry[k].on /\ entry[k].pv = rec[k].pv
  /\ \A k \in Live \ behind : PolicyThere(k)

\* Once --revoke-key has deleted the entry of a key no publication brings it
\* back, until another command makes the record live (_is_revoked_record).
RevokedStaysOut == \A k \in gone \ crossed : ~entry[k].on

\* KV lists no key that endpoint.json has lost: a bootstrap that drops records
\* has emptied the namespace first (destructive_nuke).
ListedIsRecorded ==
  \A k \in Key \ crossed : entry[k].on => rec[k].st # "absent"

\* A publication leaves a key paused, and a key that is not as it is, unless
\* the request came while it ran (existing_live_key_entries).
PauseKept ==
  \A k \in Key \ crossed : entry[k].on => (entry[k].paused <=> k \in paused)

\* The vault can open what endpoint.json holds for it, under the policy there,
\* and sign with the SSH keys it lists, save where a command destroyed the
\* keypair and was cut short before it could write what it had sealed anew
\* (_load_existing_public_key_for_record, the reuse of public_key.pem).
CustodyKept ==
  \A k \in Live \ torn :
    IF k \in Ssh THEN rec[k].key = sshKey[k]
    ELSE rec[k].key = vault[VaultOf[k]] /\ rec[k].hash = Baseline[rec[k].pv]

\* A setup token outlives the commands only where one of them was killed, died,
\* could not delete it or skipped keys; not because the vault refused an SSH key
\* (_run_with_temporary_setup_token).
SetupTokenGone == cmd = NoCmd /\ token => excused
=============================================================================
