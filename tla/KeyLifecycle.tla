---------------------------- MODULE KeyLifecycle ----------------------------
(***************************************************************************)
(* The keys of an installation: their records in endpoint.json, what       *)
(* Cloudflare KV lists of them, the keypairs of the vaults, and the        *)
(* commands of bootstrap.sh that change one key.  A command runs alone:    *)
(* none locks endpoint.json.  Any call to Cloudflare may fail, which ends  *)
(* it, and it may be killed anywhere.  Meanwhile the management API pauses *)
(* keys.                                                                   *)
(*                                                                         *)
(* A keypair, and the public key that a record was sealed for, is a number *)
(* that says nothing else; 0 is none.                                      *)
(***************************************************************************)
EXTENDS Integers, FiniteSets

CONSTANTS
  Key,
  NoKey,
  Kind,       \* of a key: "api", an npm token included, or "ssh"
  Vault,
  VaultOf,    \* vault_instance of a key
  Manifest,   \* keys that manifest.yaml declares
  Pausable,   \* bound: keys that the management API is asked to pause
  Version,    \* contents of a policy
  Name,       \* policy ids
  PolicyId,   \* the id that the manifest gives a key's policy of this content
  Policies,   \* bound: the contents that the commands bring for each key
  Baseline,   \* hash of the part of them that a secret is bound to
  MaxCommands, MaxRequests, \* bounds: commands and pause requests begun
  Keypair     \* keypairs, to be used again when nobody knows them any more

ASSUME KeyAssumption ==
  /\ NoKey \notin Key
  /\ Kind \in [Key -> {"api", "ssh"}]
  /\ VaultOf \in [Key -> Vault]
  /\ Manifest \in (SUBSET Key) \ {{}} /\ Pausable \subseteq Key
  /\ Version \subseteq Nat \ {0}
  /\ PolicyId \in [Key -> [Version -> Name]]
  /\ Policies \in [Key -> SUBSET Version]
  /\ Baseline \in [Version -> Nat \ {0}]
  /\ Keypair \subseteq Nat \ {0}
  /\ MaxCommands \in Nat /\ MaxRequests \in Nat

VARIABLES
  keysFile,   \* is there an endpoint.json?
  rec,        \* its records
  cfgFile,    \* is there a kv-config.json?
  pkFile,     \* public_key*.pem of each vault
  envToken,   \* is SUBUMBRA_SETUP_TOKEN set in the .env of the host?
  entry,      \* key:{k} in KV
  policy,     \* policy:{i} in KV: the content that a key has put there
  vault,      \* custody row of each vault
  sshKey,     \* rows of ssh_keys
  token,      \* does the Worker hold a SUBUMBRA_SETUP_TOKEN?
  cmd,        \* the command that runs
  ran,        \* bound: the commands and the requests begun so far
  toggle,     \* the request of the management API that is served
  behind,     \* history: live keys that changed since the last publication
  gone,       \* history: revoked keys that were deleted from KV
  paused,     \* history: keys that the last request paused
  crossed,    \* history: keys that a request and a command wrote at a time
  torn,       \* history: live records whose keypair went, not sealed anew yet
  cut,        \* history: reset vaults whose old public key is on file
  excused     \* history: a command left the setup token and did not hide it

localVars   == <<keysFile, rec, cfgFile, pkFile, envToken>>
kvVars      == <<entry, policy>>
workerVars  == <<vault, sshKey, token>>
kvHistory   == <<behind, gone, paused, crossed>>
keyHistory  == <<torn, cut, excused>>
vars == <<localVars, kvVars, workerVars, cmd, ran, toggle, kvHistory, keyHistory>>

Absent   == [st |-> "absent", pv |-> 0, hash |-> 0, key |-> 0]
Unlisted == [on |-> FALSE, pv |-> 0, paused |-> FALSE]
NoPolicy == [of |-> NoKey, pv |-> 0]

NoCmd == [op |-> "none", k |-> NoKey, ph |-> "idle", todo |-> {}, new |-> Absent,
          known |-> {}, halted |-> {}, keys |-> {}, failed |-> FALSE]
NoToggle == [ph |-> "idle", k |-> NoKey, old |-> Unlisted]

-----------------------------------------------------------------------------

Live == {k \in Key : rec[k].st = "live"}
Ssh  == {k \in Key : Kind[k] = "ssh"}

\* The hash that a record carries is what its secret is bound to.
HashOf(p) == IF p = 0 THEN 0 ELSE Baseline[p]
Intact(k) == rec[k].hash = HashOf(rec[k].pv)

\* Keypairs that somebody holds or remembers, of an SSH key and of a vault.
SshUse(k)   == {sshKey[k], rec[k].key}
VaultUse(v) == {vault[v], pkFile[v]}
                 \cup {rec[k].key : k \in {q \in Key \ Ssh : VaultOf[q] = v}}

IsFresh(n, used) == /\ n \in Keypair \ used
                    /\ \A i \in Keypair \ used : n <= i

\* The policy id of a record; keys may share one.
Id(k)        == PolicyId[k][rec[k].pv]
Having(i, S) == {k \in S : Id(k) = i}

InPhase(ph) == cmd.ph = ph
Goto(ph)    == cmd' = [cmd EXCEPT !.ph = ph]
First(S)    == CHOOSE x \in S : TRUE

Run(c) ==
  /\ cmd = NoCmd /\ ran.commands < MaxCommands
  /\ cmd' = c
  /\ ran' = [ran EXCEPT !.commands = @ + 1]
  /\ UNCHANGED <<localVars, kvVars, workerVars, toggle, kvHistory, keyHistory>>

Begin(op, k, ph, new) ==
  Run([NoCmd EXCEPT !.op = op, !.k = k, !.ph = ph, !.new = new])

\* A command that ends early, by die() or by a kill.
Abort ==
  /\ cmd # NoCmd
  /\ cmd' = NoCmd
  /\ excused' = (excused \/ token)
  /\ UNCHANGED <<ran, localVars, kvVars, workerVars, toggle, kvHistory, torn,
                 cut>>

-----------------------------------------------------------------------------
(* Commands on one key: what they check, and the record they will write.   *)

\* --offline leaves KV alone.  --revoke-ssh-key does not know it.
RevokeOps(k) == IF k \in Ssh THEN {"revoke"} ELSE {"revoke", "offline"}

RevokeKey(k) ==
  /\ k \in Live
  /\ \E op \in RevokeOps(k) :
       Begin(op, k, "write", [rec[k] EXCEPT !.st = "revoked"])

\* For a key that is revoked already the command deletes what KV lists.
RevokeAgain(k) ==
  /\ rec[k].st = "revoked"
  /\ Begin("revoke", k, "unlist", rec[k])

\* The public key on file is the one that the record was sealed for.
Resealable(k) == pkFile[VaultOf[k]] = rec[k].key

\* A secret sealed anew, or only the policy exchanged, which the hash has to allow.
Rewritten(k, p) == [rec[k] EXCEPT !.pv = p, !.hash = HashOf(p)]
Relabelled(k, p) == [rec[k] EXCEPT !.pv = p]
SameHash(k, p)  == HashOf(p) = rec[k].hash

\* The record that --rotate builds is not revoked, whatever the old one was.
Rotated(k) == [rec[k] EXCEPT !.st = "live", !.key = pkFile[VaultOf[k]]]

\* --rotate takes any record it finds, npm tokens too.  --rotate-npm-token does
\* the same where the record is live and Resealable.
Rotate(k) ==
  /\ rec[k].st # "absent"
  /\ k \notin Ssh
  /\ pkFile[VaultOf[k]] # 0
  /\ Intact(k)
  /\ Begin("rotate", k, "write", Rotated(k))

\* --add-consumer, --revoke-consumer.
Reencrypt(k, p) ==
  /\ k \in Live \ Ssh
  /\ Intact(k) /\ Resealable(k)
  /\ p # rec[k].pv
  /\ Begin("publish", k, "write", Rewritten(k, p))

\* --publish-policy: nothing is sealed in the record of an SSH key.
UpdatePolicy(k, p) ==
  /\ k \in Live
  /\ p # rec[k].pv
  /\ \/ k \in Ssh /\ Begin("publish", k, "write", Rewritten(k, p))
     \/ k \notin Ssh /\ Intact(k) /\ SameHash(k, p)
        /\ Begin("publish", k, "write", Relabelled(k, p))
     \/ k \notin Ssh /\ Intact(k) /\ ~SameHash(k, p) /\ Resealable(k)
        /\ Begin("publish", k, "write", Rewritten(k, p))

PushRegistry ==
  /\ keysFile
  /\ Begin("push", NoKey, "publish", Absent)

SshRecord(p) == [st |-> "live", pv |-> p, hash |-> HashOf(p), key |-> 0]

AddSshKey(k, p) ==
  /\ keysFile
  /\ k \in Ssh \ Live
  /\ Begin("ssh", k, "lend", SshRecord(p))

RotateSshKey(k, p) ==
  /\ k \in Ssh \cap Live
  /\ Begin("ssh", k, "lend", [rec[k] EXCEPT !.pv = p, !.hash = HashOf(p)])

\* What the manifest has for --provision, which no SSH key has.
Declared == Manifest \ Ssh

\* --provision: a key of the manifest that the bootstrap skipped.
Provision(k, p) ==
  /\ rec[k].st = "absent"
  /\ k \in Declared
  /\ envToken
  /\ pkFile[VaultOf[k]] # 0
  /\ Begin("provision", k, "write",
           [st |-> "live", pv |-> p, hash |-> HashOf(p), key |-> pkFile[VaultOf[k]]])

-----------------------------------------------------------------------------
(* A setup token for the time of one call to the vault.                    *)

\* _create_or_reuse_kv_namespace: every command that needs the namespace looks
\* for it, creates it if there is none, and notes it in kv-config.json.
Bind == cfgFile' = TRUE

LendToken ==
  /\ InPhase("lend")
  /\ Bind
  /\ token' = TRUE
  /\ Goto("vault")
  /\ UNCHANGED <<ran, keysFile, rec, pkFile, envToken, kvVars, vault, sshKey,
                 toggle, kvHistory, keyHistory>>

\* _handleSshKeygen: the new keypair takes the place of the old one.
Generate(k) ==
  /\ \E n \in Keypair : IsFresh(n, SshUse(k)) /\ sshKey' = [sshKey EXCEPT ![k] = n]
  /\ torn' = torn \cup ({k} \cap Live)

\* Mutant: the record keeps the public key it has.
VaultCallKeepsKey ==
  /\ InPhase("vault")
  /\ Generate(cmd.k)
  /\ Goto("reclaim")
  /\ UNCHANGED <<ran, localVars, kvVars, vault, token, toggle, kvHistory, cut,
                 excused>>

\* The call is answered, or it fails before or after the vault has served it.
VaultCall ==
  /\ InPhase("vault")
  /\ \/ /\ Generate(cmd.k)
        /\ cmd' = [cmd EXCEPT !.ph = "reclaim", !.new.key = sshKey'[cmd.k]]
     \/ /\ Generate(cmd.k) \/ UNCHANGED <<sshKey, torn>>
        /\ cmd' = [cmd EXCEPT !.ph = "reclaim", !.failed = TRUE]
  /\ UNCHANGED <<ran, localVars, kvVars, vault, token, toggle, kvHistory, cut,
                 excused>>

\* Mutant: the token is taken back only when the vault has answered.
ReclaimAnswered ==
  /\ InPhase("reclaim")
  /\ token' = cmd.failed
  /\ cmd' = IF cmd.failed THEN NoCmd ELSE [cmd EXCEPT !.ph = "write"]
  /\ Bind
  /\ UNCHANGED <<ran, keysFile, rec, pkFile, envToken, kvVars, vault, sshKey,
                 toggle, kvHistory, keyHistory>>

\* A deletion that fails passes for a token that was not there.
TakeBack == \E taken \in BOOLEAN : token' = ~taken /\ excused' = ~taken

\* The finally clause.
Reclaim ==
  /\ InPhase("reclaim")
  /\ TakeBack
  /\ cmd' = IF cmd.failed THEN NoCmd ELSE [cmd EXCEPT !.ph = "write"]
  /\ Bind
  /\ UNCHANGED <<ran, keysFile, rec, pkFile, envToken, kvVars, vault, sshKey,
                 toggle, kvHistory, torn, cut>>

-----------------------------------------------------------------------------
(* endpoint.json is replaced as a whole.                                   *)

\* The secrets of S are sealed anew, or the SSH keys of S are: for nobody, where
\* a public key is on file whose keypair a reset took.
Seal(S) == torn' = {k \in Key : /\ rec'[k].st = "live"
                               /\ IF k \in S THEN k \notin Ssh /\ VaultOf[k] \in cut
                                             ELSE k \in torn}

Store(new) ==
  /\ keysFile' = TRUE
  /\ rec' = new
  /\ behind' = {k \in Key : /\ new[k].st = "live"
                            /\ \/ k \in behind \/ rec[k].st # "live"
                               \/ new[k].pv # rec[k].pv}
  /\ gone' = gone \ {k \in Key : new[k].st # "revoked"}

ToPublish(op) == [NoCmd EXCEPT !.op = op, !.ph = "publish", !.failed = cmd.failed]

Then == CASE cmd.op = "revoke" -> [cmd EXCEPT !.ph = "unlist"]
          [] cmd.op \in {"offline", "rotate"} -> NoCmd
          [] cmd.op = "provision" -> ToPublish("provision")
          [] OTHER -> ToPublish("push")

Write ==
  /\ InPhase("write")
  /\ Store([rec EXCEPT ![cmd.k] = cmd.new])
  /\ Seal(IF cmd.op \in {"ssh", "rotate", "provision"} THEN {cmd.k} ELSE {})
  /\ cmd' = Then
  /\ UNCHANGED <<ran, cfgFile, pkFile, envToken, kvVars, workerVars, toggle,
                 paused, crossed, cut, excused>>

-----------------------------------------------------------------------------
(* KV.                                                                     *)

InFlight == IF toggle.ph = "idle" THEN {} ELSE {toggle.k}

\* A command writes the entries of S: a request in flight may undo that, and
\* what an earlier one did to them is over.
Crossing(S) == crossed' = (crossed \ S) \cup (S \cap InFlight)

\* _delete_revoked_key_kv_entries: the entry, and then the policy, if no live key
\* has it too.
UnlistKey ==
  /\ InPhase("unlist")
  /\ Bind
  /\ entry' = [entry EXCEPT ![cmd.k] = Unlisted]
  /\ paused' = paused \ {cmd.k}
  /\ gone' = gone \cup {cmd.k}
  /\ Crossing({cmd.k})
  /\ Goto("unlistPolicy")
  /\ UNCHANGED <<ran, keysFile, rec, pkFile, envToken, policy, workerVars,
                 toggle, behind, keyHistory>>

UnlistPolicy ==
  /\ InPhase("unlistPolicy")
  /\ policy' = IF Having(Id(cmd.k), Live) = {}
               THEN [policy EXCEPT ![Id(cmd.k)] = NoPolicy] ELSE policy
  /\ cmd' = NoCmd
  /\ UNCHANGED <<ran, localVars, entry, workerVars, toggle, kvHistory,
                 keyHistory>>

\* _publish_structured_kv: the namespace, the entries there are, one bulk put,
\* and the keys it had not found once more, one by one.  Any of these may fail.
Publish ==
  /\ InPhase("publish")
  /\ Bind
  /\ IF Live = {}
     THEN cmd' = NoCmd /\ excused' = (excused \/ token)
     ELSE /\ \A k \in Live : Intact(k)
          /\ cmd' = [cmd EXCEPT !.ph = "read", !.todo = Live]
          /\ UNCHANGED excused
  /\ UNCHANGED <<ran, keysFile, rec, pkFile, envToken, kvVars, workerVars,
                 toggle, kvHistory, torn, cut>>

ReadEntry ==
  LET k == First(cmd.todo) IN
  /\ InPhase("read")
  /\ cmd' = [cmd EXCEPT !.todo = @ \ {k},
               !.ph = IF cmd.todo = {k} THEN "put" ELSE "read",
               !.known = IF entry[k].on THEN @ \cup {k} ELSE @,
               !.halted = IF entry[k].paused THEN @ \cup {k} ELSE @]
  /\ UNCHANGED <<ran, localVars, kvVars, workerVars, toggle, kvHistory,
                 keyHistory>>

\* Mutant: the entries are built without the ones there are.
BuiltAfresh(k) == [on |-> TRUE, pv |-> rec[k].pv, paused |-> FALSE]

Built(k) == [on |-> TRUE, pv |-> rec[k].pv, paused |-> k \in cmd.halted]

\* Mutant: every record is published.
PublishedAll == {k \in Key : rec[k].st # "absent"}

\* _build_structured_kv_entries passes over revoked records.
Published == Live

\* Of the live keys that share a policy id it takes one, the first by name.
FirstOf(i) == LET k == First(Having(i, Published)) IN [of |-> k, pv |-> rec[k].pv]

\* Mutant: a policy that is there is not put again.
PutNew(S, N) ==
  /\ entry' = [k \in Key |-> IF k \in S THEN Built(k) ELSE entry[k]]
  /\ policy' = [i \in Name |-> IF i \in N /\ policy[i] = NoPolicy THEN FirstOf(i)
                                                                ELSE policy[i]]
  /\ Crossing(S)
  /\ paused' = (paused \ (S \cap crossed)) \cup (S \cap crossed \cap cmd.halted)

\* The entries of S and the policies N.
Put(S, N) ==
  /\ entry' = [k \in Key |-> IF k \in S THEN Built(k) ELSE entry[k]]
  /\ policy' = [i \in Name |-> IF i \in N THEN FirstOf(i) ELSE policy[i]]
  /\ Crossing(S)
  /\ paused' = (paused \ (S \cap crossed)) \cup (S \cap crossed \cap cmd.halted)

Ids(S) == {Id(k) : k \in S}

\* The keys that are left to be put once more.
Left(S) == cmd' = IF S = {} THEN [cmd EXCEPT !.ph = "await", !.todo = {},
                                             !.known = {}, !.halted = {}]
                  ELSE [cmd EXCEPT !.ph = "again", !.todo = S]

PutEntries ==
  /\ InPhase("put")
  /\ Put(Published, Ids(Published))
  /\ behind' = behind \ Live
  /\ Left(Published \ cmd.known)
  /\ UNCHANGED <<ran, localVars, workerVars, toggle, gone, keyHistory>>

\* The bulk put fails half way and ends the command.
PutFails ==
  /\ InPhase("put")
  /\ \E S \in SUBSET Published, N \in SUBSET Ids(Published) : Put(S, N)
  /\ cmd' = NoCmd
  /\ excused' = (excused \/ token)
  /\ UNCHANGED <<ran, localVars, workerVars, toggle, behind, gone, torn, cut>>

PutAgain ==
  LET k == First(cmd.todo) IN
  /\ InPhase("again")
  /\ Put({k}, Ids({k}))
  /\ Left(cmd.todo \ {k})
  /\ UNCHANGED <<ran, localVars, workerVars, toggle, behind, gone, keyHistory>>

\* It waits until what it has put can be read, for so long.
Await ==
  /\ InPhase("await")
  /\ cmd' = IF cmd.op \in {"bootstrap", "provision"}
            THEN [cmd EXCEPT !.ph = "clean"] ELSE NoCmd
  /\ UNCHANGED <<ran, localVars, kvVars, workerVars, toggle, kvHistory,
                 keyHistory>>

Missing == {k \in Manifest : rec[k].st = "absent"}

Partial == IF cmd.op = "bootstrap" THEN cmd.failed ELSE Missing # {}

\* The setup token goes when every key of the manifest has its record, from the
\* Worker and then from the .env of the host.
Clean ==
  /\ InPhase("clean")
  /\ Bind
  /\ IF Partial
     THEN cmd' = NoCmd /\ excused' = token /\ UNCHANGED token
     ELSE Goto("cleanEnv") /\ token' = FALSE /\ excused' = FALSE
  /\ UNCHANGED <<ran, keysFile, rec, pkFile, envToken, kvVars, vault, sshKey,
                 toggle, kvHistory, torn, cut>>

CleanEnv ==
  /\ InPhase("cleanEnv")
  /\ envToken' = FALSE
  /\ cmd' = NoCmd
  /\ UNCHANGED <<ran, keysFile, rec, cfgFile, pkFile, kvVars, workerVars,
                 toggle, kvHistory, keyHistory>>

\* --deploy-worker renews the code, and the namespace if there is none.
DeployWorker ==
  /\ cmd = NoCmd
  /\ Bind
  /\ UNCHANGED <<ran, keysFile, rec, pkFile, envToken, kvVars, workerVars, cmd,
                 toggle, kvHistory, keyHistory>>

-----------------------------------------------------------------------------
(* handleManagePauseToggle reads the entry, puts it, and puts what it read  *)
(* when the audit cannot be written.                                       *)

Publishing == cmd.ph \in {"read", "put", "again"}

ToggleRead(k) ==
  /\ toggle = NoToggle
  /\ k \in Pausable /\ entry[k].on /\ ran.requests < MaxRequests
  /\ ran' = [ran EXCEPT !.requests = @ + 1]
  /\ toggle' = [ph |-> "read", k |-> k, old |-> entry[k]]
  /\ UNCHANGED <<localVars, kvVars, workerVars, cmd, kvHistory,
                 keyHistory>>

TogglePuts(e) ==
  LET k == toggle.k IN
  /\ entry' = [entry EXCEPT ![k] = e]
  /\ paused' = IF e.paused THEN paused \cup {k} ELSE paused \ {k}
  /\ crossed' = IF Publishing THEN crossed \cup {k} ELSE crossed
  /\ UNCHANGED <<ran, localVars, policy, workerVars, cmd, behind, gone,
                 keyHistory>>

TogglePut ==
  /\ toggle.ph = "read"
  /\ \E to \in BOOLEAN : TogglePuts([toggle.old EXCEPT !.paused = to])
  /\ toggle' = [toggle EXCEPT !.ph = "put"]

ToggleRevert ==
  /\ toggle.ph = "put"
  /\ TogglePuts(toggle.old)
  /\ toggle' = NoToggle

\* It is answered, or the Worker goes down with it.
ToggleDone ==
  /\ toggle # NoToggle
  /\ toggle' = NoToggle
  /\ UNCHANGED <<ran, localVars, kvVars, workerVars, cmd, kvHistory,
                 keyHistory>>

-----------------------------------------------------------------------------

KeyCommand ==
  \/ \E k \in Key :
       \/ RevokeKey(k) \/ RevokeAgain(k) \/ Rotate(k)
       \/ \E p \in Policies[k] :
            \/ Reencrypt(k, p) \/ UpdatePolicy(k, p)
            \/ AddSshKey(k, p) \/ RotateSshKey(k, p) \/ Provision(k, p)
  \/ PushRegistry \/ DeployWorker

KeyStep ==
  \/ LendToken \/ VaultCall \/ Reclaim \/ Write \/ UnlistKey \/ UnlistPolicy
  \/ Publish \/ ReadEntry \/ PutEntries \/ PutFails \/ PutAgain \/ Await
  \/ Clean \/ CleanEnv \/ Abort

Management ==
  \/ \E k \in Key : ToggleRead(k)
  \/ TogglePut \/ ToggleRevert \/ ToggleDone
=============================================================================
