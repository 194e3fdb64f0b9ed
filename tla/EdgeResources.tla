---------------------------- MODULE EdgeResources ----------------------------
(***************************************************************************)
(* The Cloudflare objects bootstrap makes next to the Worker: the Tunnel,  *)
(* its DNS record, the Access application with its policy and its service  *)
(* token (_provision_cloudflare_resources, subumbra_cf.py), the Access     *)
(* bypass of the two approval paths (run_update_gate) and their teardown   *)
(* (run_nuke_cloudflare).                                                  *)
(*                                                                         *)
(* Provisioning is a saga: each object is looked up, reused or created;    *)
(* when a creation is refused, what this run created is deleted again, in  *)
(* the reverse order.  What exists is on record in data/cf-resources.json, *)
(* which the run reads at its start and writes only once the policy is     *)
(* made and at its end.  The two secrets that Cloudflare shows once, of    *)
(* the tunnel and of the service token, go to the host's .env.             *)
(*                                                                         *)
(* Every call to the API can be refused, or take effect and lose its       *)
(* answer; the command can be killed between two steps, or while it writes *)
(* the record, which is truncated first; an operator can delete an object  *)
(* in the dashboard.  One command runs at a time.                          *)
(***************************************************************************)
EXTENDS Integers

CONSTANTS
    MaxMade,    \* a kind of object is made at most this often
    MaxFaults   \* faults of the API, kills and deletions by hand in a behaviour

ASSUME BoundsAssumption == MaxMade \in Nat \ {0} /\ MaxFaults \in Nat

VARIABLES
    live,    \* the objects that exist at Cloudflare
    file,    \* data/cf-resources.json
    torn,    \* that file does not parse; what file says is of no account
    env,     \* TUNNEL_TOKEN and CF_ACCESS_CLIENT_ID/_SECRET in the host's .env
    cmd,     \* the command that runs, or how the last one ended
    made,    \* how many objects of each kind were ever made
    faults,  \* the faults so far
    orphans  \* history: the objects whose id a command lost, or erased

vars == <<live, file, torn, env, cmd, made, faults, orphans>>

-----------------------------------------------------------------------------
None == 0
Own  == MaxMade + 1     \* a secret the operator entered

TunnelPart == {"tunnel", "dns"}
AccessPart == {"app", "policy", "token"}
Saga       == TunnelPart \cup AccessPart
BypassPart == {"approve", "approve_policy", "deny", "deny_policy"}
Kinds      == Saga \cup BypassPart

\* The order in which objects are made; they are deleted in the reverse order.
Rank == [tunnel |-> 1, dns |-> 2, app |-> 3, policy |-> 4, token |-> 5,
         approve |-> 6, approve_policy |-> 7, deny |-> 8, deny_policy |-> 9]

\* What an object hangs on; a policy is looked up and deleted under its application.
Under    == [policy |-> "app", approve_policy |-> "approve", deny_policy |-> "deny"]
Parent   == [policy |-> "app", approve_policy |-> "approve", deny_policy |-> "deny",
             dns |-> "tunnel"]
Policies == DOMAIN Under

Id     == 0 .. MaxMade
Object == [kind : Kinds, id : Id, of : Id]
File   == [ids : [Kinds -> Id], zone : BOOLEAN, janus : BOOLEAN]
Command == [what : {"none", "provision", "gate", "nuke"},
            phase : {"idle", "make", "save", "undo", "delete", "wipe"},
            todo : SUBSET Kinds, mem : File, want : SUBSET Saga, new : SUBSET Kinds,
            end : {"none", "done", "undone", "stopped"}]
Empty  == [ids |-> [k \in Kinds |-> None], zone |-> FALSE, janus |-> FALSE]

Idle == [what |-> "none", phase |-> "idle", todo |-> {}, mem |-> Empty,
         want |-> {}, new |-> {}, end |-> "none"]

TypeOK ==
    /\ live \subseteq Object
    /\ \A o, p \in live : o.kind = p.kind /\ o.id = p.id => o = p
    /\ \A o \in live : o.id <= made[o.kind]
    /\ file \in File
    /\ env \in [tunnel : Id \cup {Own}, access : Id \cup {Own}]
    /\ cmd \in Command
    /\ cmd.phase = "undo" => cmd.todo \subseteq cmd.new
    /\ made \in [Kinds -> Id]
    /\ faults \in 0 .. MaxFaults
    /\ torn \in BOOLEAN
    /\ orphans \subseteq Object

Init ==
    /\ live = {}
    /\ file = Empty /\ torn = FALSE
    /\ env = [tunnel |-> None, access |-> None]
    /\ cmd = Idle
    /\ made = [k \in Kinds |-> 0]
    /\ faults = 0
    /\ orphans = {}

-----------------------------------------------------------------------------
(* The API. *)

Fault == faults < MaxFaults /\ faults' = faults + 1
Calm  == UNCHANGED faults

\* A GET on the tracked id; a policy is asked for under the application at hand.
Exists(k, f) ==
    \E o \in live : /\ o.kind = k /\ o.id = f.ids[k]
                    /\ k \in Policies => o.of = f.ids[Under[k]]

\* Cloudflare takes a name once, for a tunnel and for a DNS record.
Taken(k) == k \in {"tunnel", "dns"} /\ \E o \in live : o.kind = k

\* The object a POST makes.
Fresh(k) ==
    [kind |-> k, id |-> made[k] + 1,
     of |-> IF k \in DOMAIN Parent THEN cmd.mem.ids[Parent[k]] ELSE None]

Make(k) ==
    /\ made[k] < MaxMade
    /\ made' = [made EXCEPT ![k] = @ + 1]
    /\ live' = live \cup {Fresh(k)}

\* What is left after a DELETE of the recorded object; 404 is no error, and an
\* application takes its policy with it.
Without(k) ==
    {o \in live :
        /\ ~(o.kind = k /\ o.id = cmd.mem.ids[k])
        /\ ~(/\ o.kind \in Policies /\ Under[o.kind] = k
             /\ o.of = cmd.mem.ids[k])}

-----------------------------------------------------------------------------
(* A command begins, stops, ends. *)

Ready == cmd.phase = "idle"
Room(todo) == \A k \in todo : made[k] < MaxMade

Start(what, phase, todo, mem) ==
    cmd' = [Idle EXCEPT !.what = what, !.phase = phase, !.todo = todo, !.mem = mem,
                        !.want = todo \cap Saga]

End(how) == cmd' = [cmd EXCEPT !.phase = "idle", !.todo = {}, !.end = how]

\* What the run has made and not written down yet.
Unrecorded ==
    {o \in live : o.kind \in cmd.new /\ o.id = cmd.mem.ids[o.kind] /\ o.id # file.ids[o.kind]}

\* An error nobody catches before die(): what only the run knew is lost.
Stop == End("stopped") /\ orphans' = orphans \cup Unrecorded

\* The part of bootstrap that asks for a Tunnel when there is a hostname and no
\* token, and for Access when there are no credentials and it is named or the
\* Tunnel needs it.
Provision(hostname, named) ==
    LET tunnel == hostname /\ env.tunnel = None
        access == env.access = None /\ (named \/ tunnel)
        todo   == (IF tunnel THEN TunnelPart ELSE {})
                  \cup (IF access THEN AccessPart ELSE {})
    IN  /\ Ready /\ ~torn /\ Room(todo)
        /\ todo # {}
        /\ Start("provision", "make", todo, file)
        /\ UNCHANGED <<live, file, torn, env, made, faults, orphans>>

\* --update-janus: the Worker's secrets, when they or their public half are
\* missing, and then the bypass of both paths.
UpdateGate ==
    /\ Ready /\ ~torn /\ Room(BypassPart)
    /\ \/ Start("gate", "save", BypassPart, [file EXCEPT !.janus = TRUE])
       \/ file.janus /\ Start("gate", "make", BypassPart, file)
    /\ UNCHANGED <<live, file, torn, env, made, faults, orphans>>

\* --nuke-cloudflare: refused without a record, or without the zone in it.
Nuke ==
    /\ Ready /\ ~torn
    /\ file # Empty /\ file.zone
    /\ Start("nuke", "delete", {k \in Saga : file.ids[k] # None}, file)
    /\ UNCHANGED <<live, file, torn, env, made, faults, orphans>>

\* --update-tunnel and --update-access: enter a secret, or clear it.
UpdateEnv(part, value) ==
    /\ Ready
    /\ env' = [env EXCEPT ![part] = value]
    /\ cmd' = Idle
    /\ UNCHANGED <<live, file, torn, made, faults, orphans>>

\* An operator deletes an object in Cloudflare's dashboard.
Dashboard(o) ==
    /\ Ready /\ Fault
    /\ live' = {p \in live : p # o /\ ~(p.kind \in Policies /\ Under[p.kind] = o.kind
                                                            /\ p.of = o.id)}
    /\ cmd' = Idle
    /\ UNCHANGED <<file, torn, env, made, orphans>>

-----------------------------------------------------------------------------
(* Making the objects, in their order. *)

Making(k) ==
    cmd.phase = "make" /\ k \in cmd.todo /\ \A j \in cmd.todo : Rank[k] <= Rank[j]

\* Secrets are shown once: the tracked object, or a tunnel found by its name, is of
\* no use without one.  In this phase the secret is absent: it is why it is wanted.
Unusable(k) == \/ k \in {"tunnel", "token"} /\ Exists(k, cmd.mem)
               \/ k = "tunnel" /\ Taken(k)

Reuse(k) ==
    /\ Making(k) /\ Exists(k, cmd.mem) /\ ~Unusable(k)
    /\ cmd' = [cmd EXCEPT !.todo = @ \ {k}]
    /\ UNCHANGED <<live, file, torn, env, made, faults, orphans>>

SecretIsGone(k) ==
    /\ Making(k) /\ Unusable(k)
    /\ Stop
    /\ UNCHANGED <<live, file, torn, env, made, faults>>

\* The secret goes to the .env at once.
Secrets(k) == CASE k = "tunnel" -> [env EXCEPT !.tunnel = Fresh(k).id]
                []  k = "token"  -> [env EXCEPT !.access = Fresh(k).id]
                []  OTHER        -> env

Create(k) ==
    /\ Making(k) /\ ~Exists(k, cmd.mem) /\ ~Taken(k)
    /\ Make(k)
    /\ cmd' = [cmd EXCEPT !.todo = @ \ {k}, !.new = @ \cup {k},
                          !.mem.ids[k] = Fresh(k).id,
                          !.mem.zone = @ \/ k = "tunnel",
                          !.phase = IF k = "policy" THEN "save" ELSE @]
    /\ env' = Secrets(k)
    /\ UNCHANGED <<file, torn, faults, orphans>>

\* The record is written once the policy is made, and when the gate has its
\* secrets.
Save ==
    /\ cmd.phase = "save"
    /\ file' = cmd.mem
    /\ cmd' = [cmd EXCEPT !.phase = "make"]
    /\ UNCHANGED <<live, torn, env, made, faults, orphans>>

\* Mutant: undoes what it has on record, created by this run or not.
ToUndoAll == {k \in Saga : cmd.mem.ids[k] # None}

\* Mutant: forgets the DNS record.
ToUndoTunnel == cmd.new \cap {"policy", "app", "tunnel"}

\* What a refused creation deletes again: all that this run created, last first.
ToUndo == Saga \cap cmd.new

Undo == /\ cmd.what = "provision"
        /\ cmd' = [cmd EXCEPT !.phase = "undo", !.todo = ToUndo]

\* The gate has no undo.
Refused(k) ==
    /\ Making(k) /\ ~Exists(k, cmd.mem) /\ ~Unusable(k)
    /\ IF Taken(k) THEN Calm ELSE Fault
    /\ \/ Undo /\ UNCHANGED orphans
       \/ cmd.what = "gate" /\ Stop
    /\ UNCHANGED <<live, file, torn, env, made>>

\* The object is made and nobody learns its id: the call timed out, or the
\* command was killed before it could write the answer down.
AnswerLost(k) ==
    /\ Making(k) /\ ~Exists(k, cmd.mem) /\ ~Taken(k)
    /\ Fault
    /\ Make(k)
    /\ \/ Undo /\ orphans' = orphans \cup {Fresh(k)}
       \/ End("stopped") /\ orphans' = orphans \cup {Fresh(k)} \cup Unrecorded
    /\ UNCHANGED <<file, torn, env>>

\* The look-up itself fails: no handler, so nothing is undone.
CheckFails(k) ==
    /\ Making(k) /\ (cmd.mem.ids[k] # None \/ k = "tunnel")
    /\ Fault
    /\ Stop
    /\ UNCHANGED <<live, file, torn, env, made>>

\* Mutant: only the Tunnel part counts as a change of the record.
FinishTunnel ==
    /\ cmd.phase = "make" /\ cmd.todo = {}
    /\ file' = IF cmd.new \cap TunnelPart = {} THEN file
               ELSE [cmd.mem EXCEPT !.zone = TRUE]
    /\ End("done")
    /\ UNCHANGED <<live, torn, env, made, faults, orphans>>

\* The record is written at the end when something was created.
Finish ==
    /\ cmd.phase = "make" /\ cmd.todo = {}
    /\ file' = IF cmd.new = {} THEN file
               ELSE [cmd.mem EXCEPT !.zone = @ \/ cmd.what = "provision"]
    /\ End("done")
    /\ UNCHANGED <<live, torn, env, made, faults, orphans>>

-----------------------------------------------------------------------------
(* Deleting them: what this run created, or what the record names. *)

Deleting(k) ==
    /\ cmd.phase \in {"undo", "delete"}
    /\ k \in cmd.todo /\ \A j \in cmd.todo : Rank[j] <= Rank[k]

Delete(k) ==
    /\ Deleting(k)
    /\ live' = Without(k)
    /\ cmd' = [cmd EXCEPT !.todo = @ \ {k}]
    /\ UNCHANGED <<file, torn, env, made, faults, orphans>>

\* Refused, or done with the answer lost: the command stops where it is.
DeleteFails(k) ==
    /\ Deleting(k) /\ Fault
    /\ live' \in {live, Without(k)}
    /\ Stop
    /\ UNCHANGED <<file, torn, env, made>>

\* At last the tunnel's token is taken from the .env again.
Undone ==
    /\ cmd.phase = "undo" /\ cmd.todo = {}
    /\ env' = IF "tunnel" \in cmd.new THEN [env EXCEPT !.tunnel = None] ELSE env
    /\ End("undone")
    /\ UNCHANGED <<live, file, torn, made, faults, orphans>>

WipeEnv ==
    /\ cmd.phase = "delete" /\ cmd.todo = {}
    /\ env' = [tunnel |-> None, access |-> None]
    /\ cmd' = [cmd EXCEPT !.phase = "wipe"]
    /\ UNCHANGED <<live, file, torn, made, faults, orphans>>

\* The record goes, and with it what it says of the bypass, which is left.
WipeFile ==
    /\ cmd.phase = "wipe"
    /\ file' = Empty
    /\ orphans' = orphans \cup {o \in live : o.kind \in BypassPart}
    /\ End("done")
    /\ UNCHANGED <<live, torn, env, made, faults>>

\* The record is rewritten in place: after the policy, when the gate has its
\* secrets, at the end, and in a teardown before the policy is deleted.
Writing ==
    \/ cmd.phase = "save"
    \/ cmd.phase = "make" /\ cmd.todo = {} /\ cmd.new # {}
    \/ cmd.what = "nuke" /\ Deleting("policy")

\* The command is killed after the truncation, or the disk is full.
WriteTorn ==
    /\ Writing /\ Fault
    /\ file' = Empty /\ torn' = TRUE
    /\ orphans' = orphans \cup live
    /\ End("stopped")
    /\ UNCHANGED <<live, env, made>>

Kill ==
    /\ cmd.phase # "idle" /\ Fault
    /\ Stop
    /\ UNCHANGED <<live, file, torn, env, made>>

-----------------------------------------------------------------------------
Next ==
    \/ \E hostname, named \in BOOLEAN : Provision(hostname, named)
    \/ UpdateGate
    \/ Nuke
    \/ \E part \in {"tunnel", "access"}, value \in {None, Own} : UpdateEnv(part, value)
    \/ \E o \in live : Dashboard(o)
    \/ \E k \in Kinds : \/ Reuse(k) \/ SecretIsGone(k) \/ Create(k) \/ Refused(k)
                        \/ AnswerLost(k) \/ CheckFails(k)
                        \/ Delete(k) \/ DeleteFails(k)
    \/ Save
    \/ Finish
    \/ Undone
    \/ WipeEnv
    \/ WipeFile
    \/ WriteTorn
    \/ Kill

Spec == Init /\ [][Next]_vars

-----------------------------------------------------------------------------
(* Nothing is left that no record names: once a command is over, every     *)
(* Tunnel, DNS record, Access object and service token that exists is in   *)
(* cf-resources.json under its own id, whatever was refused, undone,       *)
(* deleted by hand, torn down or half torn down on the way.  So the undo   *)
(* of a refused creation is complete.  Excused are the objects             *)
(* themselves, one by one: those whose answer was lost; those that a run   *)
(* had made and not written down when an error or a kill stopped it; all,  *)
(* when the record was torn in writing; and the applications and policies  *)
(* of the bypass, which a teardown leaves while it erases their record     *)
(* (run_nuke_cloudflare deletes none of them).                             *)
Accounted ==
    cmd.phase = "idle" => \A o \in live \ orphans : file.ids[o.kind] = o.id

(* A run that reports success has what it was asked for: every wanted      *)
(* object exists under the recorded id, the policy under the recorded      *)
(* application, the secrets in the .env are those of the recorded tunnel   *)
(* and service token, a new DNS record points at the tunnel, and the       *)
(* teardown will accept the record.                                        *)
ProvisionedIsComplete ==
    cmd.phase = "idle" /\ cmd.what = "provision" /\ cmd.end = "done" =>
        /\ \A k \in cmd.want : Exists(k, file)
        /\ "tunnel" \in cmd.want => env.tunnel = file.ids["tunnel"]
        /\ "token" \in cmd.want => env.access = file.ids["token"]
        /\ "dns" \in cmd.new => \E o \in live : /\ o.kind = "dns" /\ o.id = file.ids["dns"]
                                                /\ o.of = file.ids["tunnel"]
        /\ file.zone
=============================================================================
