------------------------ MODULE EdgeResources_proofs ------------------------
(***************************************************************************)
(* Provisioning, the bypass of the approval paths and the teardown, for    *)
(* every number of objects and faults: what exists is on record, or is one *)
(* of the objects a command lost or erased (Accounted), an undo deletes    *)
(* only what its run made (TypeOK), and a run that reports success made    *)
(* what it was asked for (ProvisionedIsComplete).                          *)
(***************************************************************************)
EXTENDS EdgeResources, TLAPS

\* Objects of a kind are numbered as they are made.
Numbered ==
  /\ \A o \in live : o.id \in 1 .. made[o.kind]
  /\ \A o, p \in live : o.kind = p.kind /\ o.id = p.id => o = p

\* A record names nothing that is yet to be made.
Known == \A k \in Kinds : file.ids[k] <= made[k] /\ cmd.mem.ids[k] <= made[k]

\* A policy goes with its application.
Held == \A o \in live : o.kind \in Policies =>
          \E a \in live : a.kind = Under[o.kind] /\ a.id = o.of

\* A record that names a policy names the application it is under.
Linked(f) == \A o \in live \ orphans :
  o.kind \in Policies /\ f.ids[o.kind] = o.id => f.ids[Under[o.kind]] = o.of

\* A command that makes objects, or undoes it, goes by what it has in memory.
Busy == cmd.phase \in {"make", "save", "undo"}

Chained == Linked(file) /\ (Busy => Linked(cmd.mem))

\* Where the record in memory and the one on disk agree.
Agree ==
  /\ cmd.phase \in {"make", "save"} => cmd.what \in {"provision", "gate"}
  /\ cmd.phase = "undo" => cmd.what = "provision" /\ cmd.todo \subseteq cmd.new
  /\ Busy => \A k \in Kinds \ cmd.new : file.ids[k] = cmd.mem.ids[k]
  /\ cmd.phase \in {"delete", "wipe"} =>
       cmd.what = "nuke" /\ cmd.new = {} /\ cmd.mem = file

\* What of the objects a command knows in each of its phases.
Traced == \A o \in live \ orphans :
  /\ IF Busy THEN cmd.mem.ids[o.kind] = o.id ELSE file.ids[o.kind] = o.id
  /\ cmd.phase = "undo" /\ o.kind \in cmd.new => o.kind \in cmd.todo
  /\ cmd.phase = "delete" /\ o.kind \in Saga => o.kind \in cmd.todo
  /\ cmd.phase = "wipe" => o.kind \notin Saga

Whole(part) == cmd.want \cap part = {} \/ part \subseteq cmd.want

\* All that a command is to make or find, and what it has done of it so far.
Asked == IF cmd.what = "gate" THEN BypassPart ELSE cmd.want

Secured(f) ==
  /\ "tunnel" \in cmd.new => env.tunnel = f.ids["tunnel"]
  /\ "token" \in cmd.new => env.access = f.ids["token"]
  /\ "dns" \in cmd.new => \E o \in live : /\ o.kind = "dns" /\ o.id = f.ids["dns"]
                                          /\ o.of = f.ids["tunnel"]

Made(f) ==
  /\ \A k \in Asked \ cmd.todo : Exists(k, f)
  /\ (Asked \ cmd.todo) \cap {"tunnel", "token"} \subseteq cmd.new
  /\ Secured(f)

Advancing == cmd.phase \in {"make", "save"} =>
  /\ cmd.todo \subseteq Asked /\ cmd.new \subseteq Asked \ cmd.todo
  /\ IF cmd.what = "gate" THEN cmd.want = {}
     ELSE cmd.want # {} /\ Whole(TunnelPart) /\ Whole(AccessPart)
  /\ \A k \in Asked \ cmd.todo, j \in cmd.todo : Rank[k] < Rank[j]
  /\ Made(cmd.mem)

-----------------------------------------------------------------------------
(* Types.                                                                  *)

LEMMA FreshTyped ==
  ASSUME TypeOK, NEW k \in Kinds, made[k] < MaxMade
  PROVE  /\ Fresh(k) \in Object
         /\ Fresh(k).kind = k /\ Fresh(k).id = made[k] + 1
         /\ k \in DOMAIN Parent => Fresh(k).of = cmd.mem.ids[Parent[k]]
  <1>1. made[k] \in Nat /\ made[k] + 1 \in Id
    BY BoundsAssumption DEF TypeOK, Id
  <1>2. DOMAIN Parent \subseteq Kinds /\ \A j \in DOMAIN Parent : Parent[j] \in Kinds
    BY DEF Parent, Kinds, Saga, TunnelPart, AccessPart, BypassPart
  <1>3. cmd.mem.ids \in [Kinds -> Id]
    BY DEF TypeOK, Command, File
  <1>4. None \in Id
    BY BoundsAssumption DEF Id, None
  <1> QED
    BY <1>1, <1>2, <1>3, <1>4 DEF Fresh, Object

\* What Make does, wherever it is called.
LEMMA MakeSteps ==
  ASSUME TypeOK, Numbered, NEW k \in Kinds, Make(k)
  PROVE  /\ made' \in [Kinds -> Id] /\ live' \subseteq Object
         /\ Numbered'
         /\ live' = live \cup {Fresh(k)}
         /\ \A o \in live : ~(o.kind = k /\ o.id = Fresh(k).id)
  <1>1. made[k] < MaxMade /\ made \in [Kinds -> Id] /\ live \subseteq Object
    BY DEF Make, TypeOK
  <1>2. /\ Fresh(k) \in Object /\ Fresh(k).kind = k /\ Fresh(k).id = made[k] + 1
    BY <1>1, FreshTyped
  <1>3. made' = [made EXCEPT ![k] = made[k] + 1] /\ live' = live \cup {Fresh(k)}
    BY DEF Make
  <1>4. made' \in [Kinds -> Id] /\ \A j \in Kinds : made[j] \in Nat /\ made'[j] \in Nat /\ made[j] <= made'[j]
    BY <1>1, <1>3, BoundsAssumption DEF Id
  <1>5. \A o \in live : o.kind \in Kinds /\ o.id \in 1 .. made[o.kind]
    BY <1>1 DEF Numbered, Object
  <1>6. \A o \in live : ~(o.kind = k /\ o.id = Fresh(k).id)
    BY <1>2, <1>4, <1>5
  <1>7. \A o \in live' : o.id \in 1 .. made'[o.kind]
    <2>1. ASSUME NEW o \in live PROVE o.id \in 1 .. made'[o.kind]
      BY <1>4, <1>5
    <2>2. Fresh(k).id \in 1 .. made'[Fresh(k).kind]
      BY <1>1, <1>2, <1>3, <1>4
    <2> QED
      BY <1>3, <2>1, <2>2
  <1>8. \A o, p \in live' : o.kind = p.kind /\ o.id = p.id => o = p
    BY <1>2, <1>3, <1>6 DEF Numbered
  <1> QED
    BY <1>1, <1>2, <1>3, <1>4, <1>6, <1>7, <1>8 DEF Numbered

LEMMA Less ==
  ASSUME TypeOK, Numbered, live' \subseteq live, made' = made
  PROVE  live' \subseteq Object /\ Numbered'
  BY DEF TypeOK, Numbered

LEMMA EndSteps ==
  ASSUME TypeOK, NEW how \in {"none", "done", "undone", "stopped"}, End(how)
  PROVE  /\ cmd' \in Command
         /\ cmd'.phase = "idle" /\ cmd'.todo = {} /\ cmd'.end = how
         /\ cmd'.what = cmd.what /\ cmd'.mem = cmd.mem
         /\ cmd'.want = cmd.want /\ cmd'.new = cmd.new
  BY DEF TypeOK, End, Command

LEMMA EmptyTyped == Empty \in File /\ Idle \in Command
  BY BoundsAssumption DEF Empty, File, Id, None, Idle, Command

LEMMA StartSteps ==
  ASSUME NEW what \in {"provision", "gate", "nuke"}, NEW phase \in {"make", "save", "delete"},
         NEW todo \in SUBSET Kinds, NEW mem \in File, Start(what, phase, todo, mem)
  PROVE  /\ cmd' \in Command
         /\ cmd'.what = what /\ cmd'.phase = phase /\ cmd'.todo = todo
         /\ cmd'.mem = mem /\ cmd'.want = todo \cap Saga /\ cmd'.new = {}
         /\ cmd'.end = "none"
  BY EmptyTyped DEF Start, Idle, Command

LEMMA NextKind ==
  ASSUME TypeOK, NEW k \in Kinds, cmd' = [cmd EXCEPT !.todo = @ \ {k}]
  PROVE  /\ cmd' \in Command
         /\ cmd'.todo = cmd.todo \ {k}
         /\ cmd'.what = cmd.what /\ cmd'.phase = cmd.phase /\ cmd'.mem = cmd.mem
         /\ cmd'.want = cmd.want /\ cmd'.new = cmd.new /\ cmd'.end = cmd.end
  BY DEF TypeOK, Command

LEMMA CreateSteps ==
  ASSUME TypeOK, Numbered, NEW k \in Kinds, Create(k)
  PROVE  /\ cmd' \in Command
         /\ cmd'.todo = cmd.todo \ {k} /\ cmd'.new = cmd.new \cup {k}
         /\ cmd'.what = cmd.what /\ cmd.phase = "make"
         /\ cmd'.phase = IF k = "policy" THEN "save" ELSE "make"
         /\ cmd'.want = cmd.want /\ cmd'.end = cmd.end
         /\ cmd'.mem \in File
         /\ cmd'.mem.ids[k] = Fresh(k).id
         /\ \A j \in Kinds \ {k} : cmd'.mem.ids[j] = cmd.mem.ids[j]
         /\ cmd'.mem.zone = (cmd.mem.zone \/ k = "tunnel")
  <1>1. Fresh(k).id \in Id
    BY FreshTyped DEF Create, Make, Object
  <1>2. cmd \in Command /\ cmd.mem \in File /\ cmd.mem.ids \in [Kinds -> Id]
    BY DEF TypeOK, Command, File
  <1> DEFINE mem == [cmd.mem EXCEPT !.ids[k] = Fresh(k).id, !.zone = @ \/ k = "tunnel"]
  <1>3. /\ mem \in File /\ mem.ids[k] = Fresh(k).id
        /\ \A j \in Kinds \ {k} : mem.ids[j] = cmd.mem.ids[j]
        /\ mem.zone = (cmd.mem.zone \/ k = "tunnel")
    BY <1>1, <1>2 DEF File
  <1>4. cmd' = [cmd EXCEPT !.todo = @ \ {k}, !.new = @ \cup {k}, !.mem = mem,
                           !.phase = IF k = "policy" THEN "save" ELSE @]
    BY <1>2 DEF Create, Command, File
  <1> HIDE DEF mem
  <1>5. cmd.phase = "make"
    BY DEF Create, Making
  <1> QED
    BY <1>2, <1>3, <1>4, <1>5 DEF Command

Typed == TypeOK /\ Numbered /\ Agree

LEMMA Assemble ==
  ASSUME live' \subseteq Object, Numbered', file' \in File,
         env' \in [tunnel : Id \cup {Own}, access : Id \cup {Own}],
         cmd' \in Command, cmd'.phase = "undo" => cmd'.todo \subseteq cmd'.new,
         made' \in [Kinds -> Id], faults' \in 0 .. MaxFaults, torn' \in BOOLEAN,
         orphans' \subseteq Object
  PROVE  TypeOK'
  <1>1. \A o \in live' : o.id <= made'[o.kind]
    BY DEF Numbered
  <1> QED
    BY <1>1 DEF TypeOK, Numbered

LEMMA OpenTyped ==
  ASSUME TypeOK
  PROVE  /\ live \subseteq Object /\ file \in File /\ cmd \in Command /\ cmd.mem \in File
         /\ env \in [tunnel : Id \cup {Own}, access : Id \cup {Own}]
         /\ made \in [Kinds -> Id] /\ faults \in 0 .. MaxFaults
         /\ torn \in BOOLEAN /\ orphans \subseteq Object
         /\ None \in Id
         /\ cmd.mem.ids \in [Kinds -> Id] /\ file.ids \in [Kinds -> Id]
         /\ cmd.todo \subseteq Kinds /\ cmd.new \subseteq Kinds /\ cmd.want \subseteq Saga
  BY BoundsAssumption DEF TypeOK, Id, None, File, Command

LEMMA FaultTyped ==
  ASSUME TypeOK, Fault \/ Calm
  PROVE  faults' \in 0 .. MaxFaults
  BY BoundsAssumption DEF TypeOK, Fault, Calm

\* An object made, and the command goes on.
LEMMA CreateTyped ==
  ASSUME Typed, NEW k \in Kinds, Create(k)
  PROVE  TypeOK' /\ Numbered'
  <1> USE DEF Typed
  <1>1. Fresh(k) \in Object
    BY FreshTyped DEF Create, Make
  <1>2. env' \in [tunnel : Id \cup {Own}, access : Id \cup {Own}]
    BY <1>1, OpenTyped DEF Create, Secrets, Object
  <1>3. file' \in File
    BY OpenTyped DEF Create
  <1>4. live' \subseteq Object /\ Numbered' /\ made' \in [Kinds -> Id]
    BY MakeSteps DEF Create
  <1>5. faults' = faults /\ torn' = torn /\ orphans' = orphans
    BY DEF Create
  <1> QED
    BY <1>2, <1>3, <1>4, <1>5, CreateSteps, OpenTyped, Assemble

\* The ways a command ends.
LEMMA StopTyped ==
  ASSUME TypeOK, Stop
  PROVE  /\ cmd' \in Command /\ cmd'.phase = "idle" /\ cmd'.end = "stopped"
         /\ cmd'.what = cmd.what /\ cmd'.new = cmd.new /\ cmd'.mem = cmd.mem
         /\ orphans' = orphans \cup Unrecorded /\ orphans' \subseteq Object
  <1>1. orphans' = orphans \cup Unrecorded /\ End("stopped")
    BY DEF Stop
  <1>2. orphans' \subseteq Object
    BY <1>1 DEF Unrecorded, TypeOK
  <1> QED
    BY <1>1, <1>2, EndSteps

LEMMA UndoSteps ==
  ASSUME TypeOK, Undo
  PROVE  /\ cmd' \in Command
         /\ cmd.what = "provision" /\ cmd'.what = cmd.what
         /\ cmd'.mem = cmd.mem /\ cmd'.new = cmd.new
         /\ cmd'.want = cmd.want /\ cmd'.end = cmd.end
         /\ cmd'.phase = "undo" /\ cmd'.todo = Saga \cap cmd.new
         /\ cmd'.todo \subseteq cmd'.new
  <1>1. cmd.what = "provision" /\ cmd' = [cmd EXCEPT !.phase = "undo", !.todo = ToUndo]
    BY DEF Undo
  <1>2. ToUndo = Saga \cap cmd.new /\ ToUndo \subseteq Kinds
    BY OpenTyped DEF ToUndo
  <1> QED
    BY <1>1, <1>2, OpenTyped DEF Command

LEMMA WithoutLess ==
  ASSUME NEW k \in Kinds
  PROVE  Without(k) \subseteq live
  BY DEF Without

LEMMA ProvisionSteps ==
  ASSUME TypeOK, NEW hostname \in BOOLEAN, NEW named \in BOOLEAN,
         Provision(hostname, named)
  PROVE  /\ cmd' \in Command
         /\ cmd'.what = "provision" /\ cmd'.phase = "make" /\ cmd'.mem = file
         /\ cmd'.new = {} /\ cmd'.end = "none"
         /\ cmd'.todo \subseteq Saga /\ cmd'.want = cmd'.todo /\ cmd'.todo # {}
         /\ cmd'.todo \cap TunnelPart = {} \/ TunnelPart \subseteq cmd'.todo
         /\ cmd'.todo \cap AccessPart = {} \/ AccessPart \subseteq cmd'.todo
         /\ UNCHANGED <<live, file, torn, env, made, faults, orphans>>
         /\ cmd.phase = "idle"
  <1> DEFINE tunnel == hostname /\ env.tunnel = None
             access == env.access = None /\ (named \/ tunnel)
             todo   == (IF tunnel THEN TunnelPart ELSE {})
                       \cup (IF access THEN AccessPart ELSE {})
  <1>1. /\ Ready /\ todo # {} /\ Start("provision", "make", todo, file)
        /\ UNCHANGED <<live, file, torn, env, made, faults, orphans>>
    BY DEF Provision
  <1>2. todo \subseteq Saga /\ todo \cap Saga = todo
    BY DEF Saga
  <1>3. /\ todo \cap TunnelPart = {} \/ TunnelPart \subseteq todo
        /\ todo \cap AccessPart = {} \/ AccessPart \subseteq todo
    BY DEF TunnelPart, AccessPart
  <1> HIDE DEF todo
  <1>4. todo \in SUBSET Kinds /\ file \in File
    BY <1>2, OpenTyped DEF Kinds
  <1> QED
    BY <1>1, <1>2, <1>3, <1>4, StartSteps DEF Ready

LEMMA UpdateGateSteps ==
  ASSUME TypeOK, UpdateGate
  PROVE  /\ cmd' \in Command
         /\ cmd'.what = "gate" /\ cmd'.phase \in {"make", "save"}
         /\ cmd'.mem \in File /\ cmd'.mem.ids = file.ids
         /\ cmd'.new = {} /\ cmd'.end = "none" /\ cmd'.want = {}
         /\ cmd'.todo = BypassPart
         /\ UNCHANGED <<live, file, torn, env, made, faults, orphans>>
         /\ cmd.phase = "idle"
  <1> DEFINE mem == [file EXCEPT !.janus = TRUE]
  <1>1. \/ Start("gate", "save", BypassPart, mem)
        \/ Start("gate", "make", BypassPart, file)
    BY DEF UpdateGate
  <1>2. mem \in File /\ mem.ids = file.ids /\ file \in File
    BY OpenTyped DEF File
  <1>3. BypassPart \in SUBSET Kinds /\ BypassPart \cap Saga = {}
    BY DEF Kinds, BypassPart, Saga, TunnelPart, AccessPart
  <1> HIDE DEF mem
  <1>4. CASE Start("gate", "save", BypassPart, mem)
    BY <1>2, <1>3, <1>4, StartSteps DEF UpdateGate, Ready
  <1>5. CASE Start("gate", "make", BypassPart, file)
    BY <1>2, <1>3, <1>5, StartSteps DEF UpdateGate, Ready
  <1> QED
    BY <1>1, <1>4, <1>5

LEMMA NukeSteps ==
  ASSUME TypeOK, Nuke
  PROVE  /\ cmd' \in Command
         /\ cmd'.what = "nuke" /\ cmd'.phase = "delete" /\ cmd'.mem = file
         /\ cmd'.new = {} /\ cmd'.end = "none"
         /\ cmd'.todo = {k \in Saga : file.ids[k] # None}
         /\ UNCHANGED <<live, file, torn, env, made, faults, orphans>>
         /\ cmd.phase = "idle"
  <1> DEFINE todo == {k \in Saga : file.ids[k] # None}
  <1>1. Start("nuke", "delete", todo, file)
    BY DEF Nuke
  <1>2. todo \in SUBSET Kinds /\ file \in File
    BY OpenTyped DEF Kinds
  <1> QED
    BY <1>1, <1>2, StartSteps DEF Nuke, Ready

LEMMA WipeEnvSteps ==
  ASSUME TypeOK, WipeEnv
  PROVE  /\ cmd' \in Command
         /\ cmd'.phase = "wipe" /\ cmd'.what = cmd.what /\ cmd'.todo = cmd.todo
         /\ cmd'.mem = cmd.mem /\ cmd'.want = cmd.want /\ cmd'.new = cmd.new
         /\ cmd'.end = cmd.end
  <1>1. cmd' = [cmd EXCEPT !.phase = "wipe"]
    BY DEF WipeEnv
  <1> QED
    BY <1>1, OpenTyped DEF Command

LEMMA SaveSteps ==
  ASSUME TypeOK, Save
  PROVE  /\ cmd' \in Command
         /\ cmd'.phase = "make" /\ cmd'.what = cmd.what /\ cmd'.todo = cmd.todo
         /\ cmd'.mem = cmd.mem /\ cmd'.want = cmd.want /\ cmd'.new = cmd.new
         /\ cmd'.end = cmd.end
  <1>1. cmd' = [cmd EXCEPT !.phase = "make"]
    BY DEF Save
  <1> QED
    BY <1>1, OpenTyped DEF Command

LEMMA FinishSteps ==
  ASSUME TypeOK, Finish
  PROVE  /\ file' \in File
         /\ cmd.new = {} => file' = file
         /\ cmd.new # {} => /\ file'.ids = cmd.mem.ids
                            /\ file'.zone = (cmd.mem.zone \/ cmd.what = "provision")
  <1>1. CASE cmd.new = {}
    BY <1>1, OpenTyped DEF Finish
  <1>2. CASE cmd.new # {}
    <2>1. file' = [cmd.mem EXCEPT !.zone = @ \/ cmd.what = "provision"]
      BY <1>2 DEF Finish
    <2> QED
      BY <1>2, <2>1, OpenTyped DEF File
  <1> QED
    BY <1>1, <1>2

LEMMA StepTyped == Typed /\ [Next]_vars => TypeOK' /\ Numbered'
  <1> SUFFICES ASSUME Typed, [Next]_vars PROVE TypeOK' /\ Numbered'
    OBVIOUS
  <1> USE DEF Typed
  <1>a. /\ live \subseteq Object /\ file \in File /\ cmd \in Command /\ cmd.mem \in File
        /\ env \in [tunnel : Id \cup {Own}, access : Id \cup {Own}]
        /\ made \in [Kinds -> Id] /\ faults \in 0 .. MaxFaults
        /\ torn \in BOOLEAN /\ orphans \subseteq Object
        /\ None \in Id
    BY OpenTyped
  <1>b. cmd.phase = "undo" => cmd.todo \subseteq cmd.new
    BY DEF TypeOK
  <1>1. ASSUME NEW hostname \in BOOLEAN, NEW named \in BOOLEAN, Provision(hostname, named)
        PROVE  TypeOK' /\ Numbered'
    BY <1>a, <1>1, ProvisionSteps, Less, Assemble
  <1>2. CASE UpdateGate
    BY <1>a, <1>2, UpdateGateSteps, Less, Assemble
  <1>3. CASE Nuke
    BY <1>a, <1>3, NukeSteps, Less, Assemble
  <1>4. ASSUME NEW part \in {"tunnel", "access"}, NEW value \in {None, Own},
               UpdateEnv(part, value)
        PROVE  TypeOK' /\ Numbered'
    <2>1. env' \in [tunnel : Id \cup {Own}, access : Id \cup {Own}]
      BY <1>a, <1>4 DEF UpdateEnv
    <2>2. cmd' \in Command /\ cmd'.phase = "idle"
      BY <1>4, EmptyTyped DEF UpdateEnv, Idle
    <2>3. UNCHANGED <<live, file, torn, made, faults, orphans>>
      BY <1>4 DEF UpdateEnv
    <2> QED
      BY <1>a, <2>1, <2>2, <2>3, Less, Assemble
  <1>5. ASSUME NEW o \in live, Dashboard(o) PROVE TypeOK' /\ Numbered'
    <2>1. live' \subseteq live /\ UNCHANGED <<file, torn, env, made, orphans>>
      BY <1>5 DEF Dashboard
    <2>2. cmd' \in Command /\ cmd'.phase = "idle"
      BY <1>5, EmptyTyped DEF Dashboard, Idle
    <2>3. faults' \in 0 .. MaxFaults
      BY <1>5, FaultTyped DEF Dashboard
    <2> QED
      BY <1>a, <2>1, <2>2, <2>3, Less, Assemble
  <1>6. ASSUME NEW k \in Kinds, Reuse(k) PROVE TypeOK' /\ Numbered'
    <2>1. cmd' = [cmd EXCEPT !.todo = @ \ {k}]
          /\ UNCHANGED <<live, file, torn, env, made, faults, orphans>>
      BY <1>6 DEF Reuse
    <2> QED
      BY <1>a, <1>b, <2>1, NextKind, Less, Assemble
  <1>7. ASSUME NEW k \in Kinds, SecretIsGone(k) PROVE TypeOK' /\ Numbered'
    BY <1>a, <1>7, StopTyped, Less, Assemble DEF SecretIsGone
  <1>8. ASSUME NEW k \in Kinds, Create(k) PROVE TypeOK' /\ Numbered'
    BY <1>8, CreateTyped
  <1>9. ASSUME NEW k \in Kinds, Refused(k) PROVE TypeOK' /\ Numbered'
    <2>1. UNCHANGED <<live, file, torn, env, made>>
      BY <1>9 DEF Refused
    <2>2. faults' \in 0 .. MaxFaults
      BY <1>9, FaultTyped DEF Refused
    <2>3. CASE Undo /\ UNCHANGED orphans
      BY <1>a, <2>1, <2>2, <2>3, UndoSteps, Less, Assemble
    <2>4. CASE Stop
      BY <1>a, <2>1, <2>2, <2>4, StopTyped, Less, Assemble
    <2> QED
      BY <1>9, <2>3, <2>4 DEF Refused
  <1>10. ASSUME NEW k \in Kinds, AnswerLost(k) PROVE TypeOK' /\ Numbered'
    <2>1. UNCHANGED <<file, torn, env>> /\ Make(k)
      BY <1>10 DEF AnswerLost
    <2>2. faults' \in 0 .. MaxFaults
      BY <1>10, FaultTyped DEF AnswerLost
    <2>3. cmd' \in Command /\ (cmd'.phase = "undo" => cmd'.todo \subseteq cmd'.new)
      BY <1>10, UndoSteps, EndSteps DEF AnswerLost
    <2>4. live' \subseteq Object /\ Numbered' /\ made' \in [Kinds -> Id]
      BY <2>1, MakeSteps
    <2>5. Fresh(k) \in Object
      BY <2>1, FreshTyped DEF Make
    <2>6. orphans' \subseteq Object
      BY <1>a, <1>10, <2>5 DEF AnswerLost, Unrecorded
    <2> QED
      BY <1>a, <2>1, <2>2, <2>3, <2>4, <2>6, Assemble
  <1>11. ASSUME NEW k \in Kinds, CheckFails(k) PROVE TypeOK' /\ Numbered'
    <2>1. UNCHANGED <<live, file, torn, env, made>> /\ Stop
      BY <1>11 DEF CheckFails
    <2>2. faults' \in 0 .. MaxFaults
      BY <1>11, FaultTyped DEF CheckFails
    <2> QED
      BY <1>a, <2>1, <2>2, StopTyped, Less, Assemble
  <1>12. ASSUME NEW k \in Kinds, Delete(k) PROVE TypeOK' /\ Numbered'
    <2>1. live' \subseteq live /\ UNCHANGED <<file, torn, env, made, faults, orphans>>
      BY <1>12, WithoutLess DEF Delete
    <2>2. cmd' = [cmd EXCEPT !.todo = @ \ {k}]
      BY <1>12 DEF Delete
    <2> QED
      BY <1>a, <1>b, <2>1, <2>2, NextKind, Less, Assemble
  <1>13. ASSUME NEW k \in Kinds, DeleteFails(k) PROVE TypeOK' /\ Numbered'
    <2>1. live' \subseteq live /\ UNCHANGED <<file, torn, env, made>> /\ Stop
      BY <1>13, WithoutLess DEF DeleteFails
    <2>2. faults' \in 0 .. MaxFaults
      BY <1>13, FaultTyped DEF DeleteFails
    <2> QED
      BY <1>a, <2>1, <2>2, StopTyped, Less, Assemble
  <1>14. CASE Finish
    <2>1. End("done") /\ UNCHANGED <<live, torn, env, made, faults, orphans>>
      BY <1>14 DEF Finish
    <2> QED
      BY <1>a, <1>14, <2>1, FinishSteps, EndSteps, Less, Assemble
  <1>15. CASE Undone
    <2>1. End("undone") /\ UNCHANGED <<live, file, torn, made, faults, orphans>>
      BY <1>15 DEF Undone
    <2>2. env' \in [tunnel : Id \cup {Own}, access : Id \cup {Own}]
      BY <1>a, <1>15 DEF Undone
    <2> QED
      BY <1>a, <2>1, <2>2, EndSteps, Less, Assemble
  <1>16. CASE WipeEnv
    <2>1. env' \in [tunnel : Id \cup {Own}, access : Id \cup {Own}]
      BY <1>a, <1>16 DEF WipeEnv
    <2>2. UNCHANGED <<live, file, torn, made, faults, orphans>>
      BY <1>16 DEF WipeEnv
    <2> QED
      BY <1>a, <1>16, <2>1, <2>2, WipeEnvSteps, Less, Assemble
  <1>17. CASE WipeFile
    <2>1. orphans' \subseteq Object
      BY <1>a, <1>17 DEF WipeFile
    <2> QED
      BY <1>a, <1>17, <2>1, EndSteps, EmptyTyped, Less, Assemble DEF WipeFile
  <1>18. CASE Kill
    <2>1. UNCHANGED <<live, file, torn, env, made>> /\ Stop
      BY <1>18 DEF Kill
    <2>2. faults' \in 0 .. MaxFaults
      BY <1>18, FaultTyped DEF Kill
    <2> QED
      BY <1>a, <2>1, <2>2, StopTyped, Less, Assemble
  <1>19. CASE Save
    <2>1. file' = cmd.mem /\ UNCHANGED <<live, torn, env, made, faults, orphans>>
      BY <1>19 DEF Save
    <2> QED
      BY <1>a, <1>19, <2>1, SaveSteps, Less, Assemble
  <1>20. CASE WriteTorn
    <2>1. /\ file' = Empty /\ torn' = TRUE /\ End("stopped")
          /\ orphans' = orphans \cup live /\ UNCHANGED <<live, env, made>>
      BY <1>20 DEF WriteTorn
    <2>2. faults' \in 0 .. MaxFaults
      BY <1>20, FaultTyped DEF WriteTorn
    <2>3. orphans' \subseteq Object /\ file' \in File
      BY <1>a, <2>1, EmptyTyped
    <2> QED
      BY <1>a, <2>1, <2>2, <2>3, EndSteps, Less, Assemble
  <1>21. CASE UNCHANGED vars
    BY <1>21 DEF vars, TypeOK, Numbered
  <1> QED
    BY <1>1, <1>2, <1>3, <1>4, <1>5, <1>6, <1>7, <1>8, <1>9, <1>10, <1>11, <1>12,
       <1>13, <1>14, <1>15, <1>16, <1>17, <1>18, <1>19, <1>20, <1>21 DEF Next

-----------------------------------------------------------------------------
(* The policy and its application.                                         *)

LEMMA KindFacts ==
  /\ Saga = {"tunnel", "dns", "app", "policy", "token"}
  /\ Saga \subseteq Kinds /\ BypassPart \subseteq Kinds /\ Saga \cap BypassPart = {}
  /\ Kinds = Saga \cup BypassPart
  /\ \A k \in Policies : Under[k] \in Kinds \ Policies
  /\ Policies \subseteq Kinds
  /\ \A k \in Policies : k \in DOMAIN Parent /\ Parent[k] = Under[k]
  /\ "dns" \in DOMAIN Parent /\ Parent["dns"] = "tunnel"
  BY DEF Saga, TunnelPart, AccessPart, BypassPart, Kinds, Policies, Under, Parent

LEMMA RankFacts ==
  /\ \A k \in Kinds : Rank[k] \in 1 .. 9
  /\ Rank["tunnel"] = 1 /\ Rank["dns"] = 2
  /\ \A j, k \in Kinds : Rank[j] = Rank[k] => j = k
  /\ \A k \in Policies : Rank[Under[k]] < Rank[k]
  BY DEF Rank, Kinds, Saga, TunnelPart, AccessPart, BypassPart, Policies, Under

\* A policy is asked for with its application.
LEMMA AskedFacts ==
  ASSUME Typed, Advancing, cmd.phase \in {"make", "save"}
  PROVE  /\ Asked \subseteq Kinds
         /\ \A k \in Policies : k \in Asked => Under[k] \in Asked
         /\ Asked \cap TunnelPart = {} \/ cmd.what = "provision"
  <1>1. cmd.what \in {"provision", "gate"} /\ cmd.want \subseteq Saga
    BY OpenTyped DEF Typed, Agree
  <1>2. CASE cmd.what = "gate"
    <2>1. Asked = BypassPart
      BY <1>2 DEF Asked
    <2> QED
      BY <2>1 DEF BypassPart, Policies, Under, Kinds, TunnelPart, AccessPart, Saga
  <1>3. CASE cmd.what = "provision"
    <2>1. Asked = cmd.want /\ Whole(AccessPart)
      BY <1>3 DEF Asked, Advancing
    <2>2. \A k \in Policies : k \in Asked => Under[k] \in Asked
      BY <1>1, <2>1 DEF Whole, AccessPart, TunnelPart, Saga, Policies, Under
    <2> QED
      BY <1>1, <1>3, <2>1, <2>2, KindFacts
  <1> QED
    BY <1>1, <1>2, <1>3

\* A command makes what is left of it to make, after what precedes it.
LEMMA MakingFacts ==
  ASSUME Typed, Advancing, NEW k \in Kinds, Making(k)
  PROVE  /\ cmd.phase = "make" /\ k \in cmd.todo /\ k \in Asked /\ Busy
         /\ \A j \in cmd.todo \ {k} : Rank[k] < Rank[j]
         /\ cmd.what \in {"provision", "gate"}
  <1>1. cmd.phase = "make" /\ k \in cmd.todo /\ \A j \in cmd.todo : Rank[k] <= Rank[j]
    BY DEF Making
  <1>2. \A j \in cmd.todo \ {k} : Rank[k] < Rank[j]
    BY <1>1, RankFacts, OpenTyped DEF Typed
  <1> QED
    BY <1>1, <1>2 DEF Typed, Agree, Advancing, Busy

\* A policy is made when its application is there.
LEMMA AppFirst ==
  ASSUME Typed, Advancing, NEW k \in Policies, Making(k)
  PROVE  \E a \in live : a.kind = Under[k] /\ a.id = cmd.mem.ids[Under[k]]
  <1>1. /\ cmd.phase = "make" /\ k \in Kinds /\ Under[k] \in Kinds /\ k \in Asked
        /\ \A j \in cmd.todo \ {k} : Rank[k] < Rank[j]
    BY MakingFacts, KindFacts
  <1>2. Rank[Under[k]] < Rank[k] /\ Rank[k] \in 1 .. 9 /\ Rank[Under[k]] \in 1 .. 9
    BY <1>1, RankFacts
  <1>3. Under[k] \in Asked \ cmd.todo
    BY <1>1, <1>2, AskedFacts
  <1>4. Exists(Under[k], cmd.mem)
    BY <1>1, <1>3 DEF Advancing, Made
  <1> QED
    BY <1>4 DEF Exists

LEMMA HeldMade ==
  ASSUME Typed, Advancing, Held, NEW k \in Kinds, Making(k), Make(k)
  PROVE  Held'
  <1>1. live' = live \cup {Fresh(k)} /\ made[k] < MaxMade
    BY DEF Make
  <1>2. Fresh(k).kind = k /\ (k \in DOMAIN Parent => Fresh(k).of = cmd.mem.ids[Parent[k]])
    BY <1>1, FreshTyped DEF Typed
  <1>3. ASSUME NEW o \in live', o.kind \in Policies
        PROVE  \E a \in live' : a.kind = Under[o.kind] /\ a.id = o.of
    <2>1. CASE o \in live
      BY <1>1, <1>3, <2>1 DEF Held
    <2>2. CASE o = Fresh(k)
      <3>1. k \in Policies /\ o.kind = k /\ o.of = cmd.mem.ids[Under[k]]
        BY <1>2, <1>3, <2>2, KindFacts
      <3> QED
        BY <1>1, <3>1, AppFirst
    <2> QED
      BY <1>1, <1>3, <2>1, <2>2
  <1> QED
    BY <1>3 DEF Held

LEMMA HeldWithout ==
  ASSUME Held, NEW k \in Kinds, live' = Without(k)
  PROVE  Held'
  <1>1. SUFFICES ASSUME NEW o \in live', o.kind \in Policies
                 PROVE  \E a \in live' : a.kind = Under[o.kind] /\ a.id = o.of
    BY DEF Held
  <1>2. o \in live /\ ~(Under[o.kind] = k /\ o.of = cmd.mem.ids[k])
    BY <1>1 DEF Without
  <1>3. PICK a \in live : a.kind = Under[o.kind] /\ a.id = o.of
    BY <1>1, <1>2 DEF Held
  <1>4. a.kind \notin Policies
    BY <1>1, <1>3, KindFacts
  <1>5. a \in live'
    BY <1>2, <1>3, <1>4 DEF Without
  <1> QED
    BY <1>3, <1>5

LEMMA HeldDashboard ==
  ASSUME Held, NEW p \in live, Dashboard(p)
  PROVE  Held'
  <1>1. SUFFICES ASSUME NEW o \in live', o.kind \in Policies
                 PROVE  \E a \in live' : a.kind = Under[o.kind] /\ a.id = o.of
    BY DEF Held
  <1>2. o \in live /\ ~(Under[o.kind] = p.kind /\ o.of = p.id)
    BY <1>1 DEF Dashboard
  <1>3. PICK a \in live : a.kind = Under[o.kind] /\ a.id = o.of
    BY <1>1, <1>2 DEF Held
  <1>4. a.kind \notin Policies
    BY <1>1, <1>3, KindFacts
  <1>5. a \in live'
    BY <1>2, <1>3, <1>4 DEF Dashboard
  <1> QED
    BY <1>3, <1>5

-----------------------------------------------------------------------------
(* The inductive invariant, action by action.                              *)

Rest == Agree /\ Held /\ Chained /\ Traced /\ Advancing /\ ProvisionedIsComplete
IInv == TypeOK /\ Numbered /\ Known /\ Rest

LEMMA OpenInv ==
  ASSUME IInv
  PROVE  /\ Typed /\ TypeOK /\ Numbered /\ Known
         /\ Agree /\ Held /\ Chained /\ Traced /\ Advancing
         /\ ProvisionedIsComplete
         /\ \A o \in live : /\ o.kind \in Kinds /\ o.id # None
                            /\ o.kind \in Saga \/ o.kind \in BypassPart
  <1>1. \A o \in live : o.kind \in Kinds /\ o.id # None
    BY DEF IInv, TypeOK, Numbered, Object, Id, None
  <1> QED
    BY <1>1, KindFacts DEF IInv, Rest, Typed

LEMMA KnownStep == IInv /\ [Next]_vars => Known'
  <1> SUFFICES ASSUME IInv, [Next]_vars PROVE Known'
    OBVIOUS
  <1>1. /\ TypeOK /\ Numbered /\ Known
        /\ made \in [Kinds -> Id] /\ cmd.mem \in File /\ file \in File
        /\ \A k \in Kinds : made[k] \in Nat
    BY OpenInv, OpenTyped, BoundsAssumption DEF Id
  <1>2. \A k \in Kinds : Empty.ids[k] <= made[k] /\ Idle.mem.ids[k] <= made[k]
    BY <1>1 DEF Empty, Idle, None
  <1>3. CASE made' = made /\ file' \in {file, cmd.mem, Empty}
             /\ cmd'.mem.ids \in {file.ids, cmd.mem.ids, Empty.ids}
    BY <1>1, <1>2, <1>3 DEF Known
  <1>4. ASSUME NEW k \in Kinds, Make(k), file' = file, cmd'.mem = cmd.mem
        PROVE  Known'
    <2>1. made' = [made EXCEPT ![k] = made[k] + 1]
      BY <1>4 DEF Make
    <2>2. \A j \in Kinds : made[j] <= made'[j]
      BY <1>1, <2>1
    <2>3. /\ \A j \in Kinds : made'[j] \in Nat
          /\ file.ids \in [Kinds -> Id] /\ cmd.mem.ids \in [Kinds -> Id]
      BY <1>1, <2>1, OpenTyped
    <2> QED
      BY <1>1, <1>4, <2>2, <2>3, BoundsAssumption DEF Known, Id
  <1>5. ASSUME NEW k \in Kinds, Create(k) PROVE Known'
    <2>1. made' = [made EXCEPT ![k] = made[k] + 1] /\ file' = file /\ made[k] < MaxMade
      BY <1>5 DEF Create, Make
    <2>2. /\ cmd'.mem.ids[k] = made[k] + 1
          /\ \A j \in Kinds \ {k} : cmd'.mem.ids[j] = cmd.mem.ids[j]
      BY <1>1, <1>5, <2>1, CreateSteps, FreshTyped
    <2>3. /\ \A j \in Kinds : made'[j] \in Nat
          /\ file.ids \in [Kinds -> Id] /\ cmd.mem.ids \in [Kinds -> Id]
      BY <1>1, <2>1, OpenTyped
    <2>4. ASSUME NEW j \in Kinds
          PROVE  file'.ids[j] <= made'[j] /\ cmd'.mem.ids[j] <= made'[j]
      <3>1. file.ids[j] \in Nat /\ cmd.mem.ids[j] \in Nat
        BY <2>3, BoundsAssumption DEF Id
      <3>2. file.ids[j] <= made[j] /\ cmd.mem.ids[j] <= made[j]
        BY <1>1 DEF Known
      <3> QED
        BY <1>1, <2>1, <2>2, <3>1, <3>2
    <2> QED
      BY <2>4 DEF Known
  <1>6. ASSUME NEW k \in Kinds, AnswerLost(k) PROVE Known'
    <2>1. Make(k) /\ file' = file /\ (Undo \/ End("stopped"))
      BY <1>6 DEF AnswerLost
    <2> QED
      BY <1>1, <1>4, <2>1, UndoSteps, EndSteps
  <1>7. ASSUME NEW k \in Kinds,
               Reuse(k) \/ SecretIsGone(k) \/ Refused(k) \/ CheckFails(k)
               \/ Delete(k) \/ DeleteFails(k)
        PROVE  Known'
    <2>1. made' = made /\ file' = file
      BY <1>7 DEF Reuse, SecretIsGone, Refused, CheckFails, Delete, DeleteFails
    <2>2. cmd' = [cmd EXCEPT !.todo = @ \ {k}] \/ Stop \/ Undo
      BY <1>7 DEF Reuse, SecretIsGone, Refused, CheckFails, Delete, DeleteFails
    <2>3. cmd'.mem = cmd.mem
      BY <1>1, <2>2, NextKind, StopTyped, UndoSteps
    <2> QED
      BY <1>3, <2>1, <2>3
  <1>8. CASE \E hostname, named \in BOOLEAN : Provision(hostname, named)
    BY <1>1, <1>3, <1>8, ProvisionSteps
  <1>9. CASE UpdateGate \/ Nuke
    BY <1>1, <1>3, <1>9, UpdateGateSteps, NukeSteps
  <1>10. CASE \/ \E part \in {"tunnel", "access"}, value \in {None, Own} : UpdateEnv(part, value)
              \/ \E o \in live : Dashboard(o)
    <2>1. made' = made /\ file' = file /\ cmd' = Idle
      BY <1>10 DEF UpdateEnv, Dashboard
    <2> QED
      BY <1>3, <2>1 DEF Idle
  <1>11. CASE Save \/ WipeEnv
    <2>1. made' = made /\ file' \in {file, cmd.mem}
      BY <1>11 DEF Save, WipeEnv
    <2> QED
      BY <1>1, <1>3, <1>11, <2>1, SaveSteps, WipeEnvSteps
  <1>12. CASE Finish
    <2>1. made' = made /\ End("done")
      BY <1>12 DEF Finish
    <2>2. cmd'.mem = cmd.mem /\ file'.ids \in {file.ids, cmd.mem.ids}
      BY <1>1, <1>12, <2>1, EndSteps, FinishSteps
    <2> QED
      BY <1>1, <2>1, <2>2 DEF Known
  <1>13. CASE Undone \/ WipeFile \/ WriteTorn \/ Kill
    <2>1. made' = made /\ file' \in {file, Empty}
      BY <1>13 DEF Undone, WipeFile, WriteTorn, Kill
    <2>2. cmd'.mem = cmd.mem
      BY <1>1, <1>13, EndSteps DEF Undone, WipeFile, WriteTorn, Kill, Stop
    <2> QED
      BY <1>3, <2>1, <2>2
  <1>14. CASE UNCHANGED vars
    BY <1>1, <1>14 DEF vars, Known
  <1> QED
    BY <1>5, <1>6, <1>7, <1>8, <1>9, <1>10, <1>11, <1>12, <1>13, <1>14 DEF Next

\* Links that hold keep holding while objects go and the record moves or stays.
LEMMA ChainedKept ==
  ASSUME Chained, live' \ orphans' \subseteq live \ orphans,
         file'.ids = file.ids \/ (Busy /\ file'.ids = cmd.mem.ids),
         Busy' => cmd'.mem.ids = file.ids \/ (Busy /\ cmd'.mem.ids = cmd.mem.ids)
  PROVE  Chained'
  <1>1. Linked(file)'
    BY DEF Chained, Linked
  <1>2. Busy' => Linked(cmd.mem)'
    BY DEF Chained, Linked
  <1> QED
    BY <1>1, <1>2 DEF Chained

LEMMA ProvisionKept ==
  ASSUME IInv, NEW hostname \in BOOLEAN, NEW named \in BOOLEAN,
         Provision(hostname, named)
  PROVE  Rest'
  <1>1. /\ TypeOK /\ Agree /\ Held /\ Chained /\ Traced /\ Advancing /\ ProvisionedIsComplete
    BY OpenInv
  <1>2. /\ cmd'.what = "provision" /\ cmd'.phase = "make" /\ cmd'.mem = file
        /\ cmd'.new = {} /\ cmd'.todo \subseteq Saga /\ cmd'.want = cmd'.todo
        /\ cmd'.todo # {}
        /\ cmd'.todo \cap TunnelPart = {} \/ TunnelPart \subseteq cmd'.todo
        /\ cmd'.todo \cap AccessPart = {} \/ AccessPart \subseteq cmd'.todo
        /\ live' = live /\ file' = file /\ env' = env /\ orphans' = orphans
        /\ cmd.phase = "idle"
    BY <1>1, ProvisionSteps
  <1>3. Agree'
    BY <1>2 DEF Agree, Busy
  <1>4. Held'
    BY <1>1, <1>2 DEF Held
  <1>5. Chained'
    BY <1>1, <1>2, ChainedKept
  <1>6. Traced'
    BY <1>1, <1>2 DEF Traced, Busy
  <1>7. Advancing'
    BY <1>2 DEF Advancing, Whole, Made, Secured, Asked
  <1>8. ProvisionedIsComplete'
    BY <1>2 DEF ProvisionedIsComplete
  <1> QED
    BY <1>3, <1>4, <1>5, <1>6, <1>7, <1>8 DEF Rest

LEMMA UpdateGateKept ==
  ASSUME IInv, UpdateGate
  PROVE  Rest'
  <1>1. /\ TypeOK /\ Agree /\ Held /\ Chained /\ Traced /\ Advancing /\ ProvisionedIsComplete
    BY OpenInv
  <1>2. /\ cmd'.what = "gate" /\ cmd'.phase \in {"make", "save"} /\ cmd'.mem.ids = file.ids
        /\ cmd'.new = {} /\ cmd'.want = {} /\ cmd'.todo = BypassPart
        /\ live' = live /\ file' = file /\ env' = env /\ orphans' = orphans
        /\ cmd.phase = "idle"
    BY <1>1, UpdateGateSteps
  <1>3. Agree'
    BY <1>2 DEF Agree, Busy
  <1>4. Held'
    BY <1>1, <1>2 DEF Held
  <1>5. Chained'
    BY <1>1, <1>2, ChainedKept
  <1>6. Traced'
    BY <1>1, <1>2 DEF Traced, Busy
  <1>7. Advancing'
    BY <1>2 DEF Advancing, Made, Secured, Asked
  <1>8. ProvisionedIsComplete'
    BY <1>2 DEF ProvisionedIsComplete
  <1> QED
    BY <1>3, <1>4, <1>5, <1>6, <1>7, <1>8 DEF Rest

LEMMA NukeKept ==
  ASSUME IInv, Nuke
  PROVE  Rest'
  <1>1. /\ TypeOK /\ Agree /\ Held /\ Chained /\ Traced /\ Advancing /\ ProvisionedIsComplete
        /\ \A o \in live : o.id # None
    BY OpenInv
  <1>2. /\ cmd'.what = "nuke" /\ cmd'.phase = "delete" /\ cmd'.mem = file
        /\ cmd'.new = {} /\ cmd'.todo = {k \in Saga : file.ids[k] # None}
        /\ live' = live /\ file' = file /\ env' = env /\ orphans' = orphans
        /\ cmd.phase = "idle"
    BY <1>1, NukeSteps
  <1>3. Agree'
    BY <1>2 DEF Agree, Busy
  <1>4. Held'
    BY <1>1, <1>2 DEF Held
  <1>5. Chained'
    BY <1>1, <1>2, ChainedKept
  <1>6. Traced'
    BY <1>1, <1>2 DEF Traced, Busy
  <1>7. Advancing'
    BY <1>2 DEF Advancing
  <1>8. ProvisionedIsComplete'
    BY <1>2 DEF ProvisionedIsComplete
  <1> QED
    BY <1>3, <1>4, <1>5, <1>6, <1>7, <1>8 DEF Rest

\* What an operator does between two commands.
LEMMA ByHandKept ==
  ASSUME IInv, cmd.phase = "idle", cmd' = Idle, live' \subseteq live, Held',
         file' = file, orphans' = orphans
  PROVE  Rest'
  <1>1. Traced /\ Chained
    BY OpenInv
  <1>2. cmd'.what = "none" /\ cmd'.phase = "idle" /\ ~Busy' /\ ~Busy
    BY DEF Idle, Busy
  <1>3. Agree' /\ Advancing' /\ ProvisionedIsComplete'
    BY <1>2 DEF Agree, Advancing, ProvisionedIsComplete
  <1>4. Traced'
    BY <1>1, <1>2 DEF Traced
  <1>5. Chained'
    BY <1>1, <1>2, ChainedKept
  <1> QED
    BY <1>3, <1>4, <1>5 DEF Rest

\* A command that stops leaves what it knew, and the objects on no record.
LEMMA StopKept ==
  ASSUME IInv, cmd.phase # "idle", cmd'.phase = "idle", cmd'.end = "stopped",
         file' = file, Held',
         live' \ orphans' \subseteq live \ (orphans \cup Unrecorded)
  PROVE  Rest'
  <1>1. Agree /\ Traced /\ Chained /\ TypeOK /\ \A o \in live : o.kind \in Kinds
    BY OpenInv
  <1>2. ~Busy'
    BY DEF Busy
  <1>3. Agree' /\ Advancing' /\ ProvisionedIsComplete'
    BY <1>2 DEF Agree, Advancing, ProvisionedIsComplete
  <1>4. ASSUME NEW o \in live' \ orphans'
        PROVE  file.ids[o.kind] = o.id
    <2>1. o \in live \ orphans /\ o \notin Unrecorded /\ o.kind \in Kinds
      BY <1>1, <1>4
    <2>2. IF Busy THEN cmd.mem.ids[o.kind] = o.id ELSE file.ids[o.kind] = o.id
      BY <1>1, <2>1 DEF Traced
    <2>3. CASE Busy /\ o.kind \notin cmd.new
      BY <1>1, <2>1, <2>2, <2>3 DEF Agree
    <2>4. CASE Busy /\ o.kind \in cmd.new
      BY <2>1, <2>2, <2>4 DEF Unrecorded
    <2> QED
      BY <2>2, <2>3, <2>4
  <1>5. Traced'
    BY <1>2, <1>4 DEF Traced
  <1>6. Chained'
    BY <1>1, <1>2, ChainedKept
  <1> QED
    BY <1>3, <1>5, <1>6 DEF Rest

\* A refused creation, or one whose answer is lost, is undone.
LEMMA UndoKept ==
  ASSUME IInv, cmd.phase = "make", Undo, file' = file, Held',
         live' \ orphans' \subseteq live \ orphans
  PROVE  Rest'
  <1>1. TypeOK /\ Agree /\ Chained /\ Traced /\ Advancing /\ Busy
    BY OpenInv DEF Busy
  <1>2. /\ cmd.what = "provision" /\ cmd'.what = cmd.what
        /\ cmd'.phase = "undo" /\ cmd'.todo = Saga \cap cmd.new
        /\ cmd'.mem = cmd.mem /\ cmd'.new = cmd.new /\ Busy'
    BY <1>1, UndoSteps DEF Busy
  <1>3. cmd.new \subseteq Saga
    BY <1>1, <1>2, OpenTyped DEF Advancing, Asked
  <1>4. Agree'
    BY <1>1, <1>2 DEF Agree
  <1>5. Traced'
    BY <1>1, <1>2, <1>3 DEF Traced
  <1>6. Chained'
    BY <1>1, <1>2, ChainedKept
  <1>7. Advancing' /\ ProvisionedIsComplete'
    BY <1>2 DEF Advancing, ProvisionedIsComplete
  <1> QED
    BY <1>4, <1>5, <1>6, <1>7 DEF Rest

LEMMA ReuseKept ==
  ASSUME IInv, NEW k \in Kinds, Reuse(k)
  PROVE  Rest'
  <1>1. /\ TypeOK /\ Typed /\ Agree /\ Held /\ Chained /\ Traced /\ Advancing
    BY OpenInv
  <1>2. /\ Making(k) /\ Exists(k, cmd.mem) /\ ~Unusable(k)
        /\ live' = live /\ file' = file /\ env' = env /\ orphans' = orphans
    BY DEF Reuse
  <1>3. /\ cmd'.todo = cmd.todo \ {k} /\ cmd'.what = cmd.what /\ cmd'.phase = cmd.phase
        /\ cmd'.mem = cmd.mem /\ cmd'.want = cmd.want /\ cmd'.new = cmd.new
        /\ Busy' = Busy /\ Asked' = Asked
    BY <1>1, NextKind DEF Reuse, Busy, Asked
  <1>4. /\ cmd.phase = "make" /\ k \in cmd.todo /\ k \in Asked /\ Busy
        /\ \A j \in cmd.todo \ {k} : Rank[k] < Rank[j]
        /\ cmd.what \in {"provision", "gate"}
    BY <1>1, <1>2, MakingFacts
  <1>5. k \notin {"tunnel", "token"}
    BY <1>2 DEF Unusable
  <1>6. Agree'
    BY <1>1, <1>2, <1>3, <1>4 DEF Agree
  <1>7. Held'
    BY <1>1, <1>2 DEF Held
  <1>8. Chained'
    BY <1>1, <1>2, <1>3, ChainedKept
  <1>9. Traced'
    BY <1>1, <1>2, <1>3, <1>4 DEF Traced
  <1>10. Advancing'
    <2>1. /\ cmd.todo \subseteq Asked /\ cmd.new \subseteq Asked \ cmd.todo
          /\ \A i \in Asked \ cmd.todo, j \in cmd.todo : Rank[i] < Rank[j]
          /\ Made(cmd.mem)
      BY <1>1, <1>4 DEF Advancing
    <2>2. Asked' \ cmd'.todo = (Asked \ cmd.todo) \cup {k}
      BY <1>3, <1>4, <2>1
    <2>3. \A i \in Asked' \ cmd'.todo, j \in cmd'.todo : Rank[i] < Rank[j]
      BY <1>3, <1>4, <2>1, <2>2
    <2>4. \A i \in Asked' \ cmd'.todo : Exists(i, cmd.mem)
      BY <1>2, <1>3, <2>1, <2>2 DEF Made
    <2>5. (Asked' \ cmd'.todo) \cap {"tunnel", "token"} \subseteq cmd'.new
      BY <1>3, <1>5, <2>1, <2>2 DEF Made
    <2>6. \A i \in Asked' \ cmd'.todo : Exists(i, cmd.mem)'
      BY <1>2, <1>3, <2>4 DEF Exists
    <2>7. Made(cmd.mem)'
      BY <1>2, <1>3, <2>1, <2>5, <2>6 DEF Made, Secured
    <2>8. /\ cmd'.todo \subseteq Asked' /\ cmd'.new \subseteq Asked' \ cmd'.todo
          /\ IF cmd'.what = "gate" THEN cmd'.want = {}
             ELSE cmd'.want # {} /\ Whole(TunnelPart)' /\ Whole(AccessPart)'
      BY <1>1, <1>3, <1>4, <2>1, <2>2 DEF Advancing, Whole
    <2> QED
      BY <1>3, <2>3, <2>7, <2>8 DEF Advancing
  <1>11. ProvisionedIsComplete'
    BY <1>3, <1>4 DEF ProvisionedIsComplete
  <1> QED
    BY <1>6, <1>7, <1>8, <1>9, <1>10, <1>11 DEF Rest

\* A kind is made because what the record names of it is gone: of the objects
\* that the command knows there is no other of the kind, and none under it.
LEMMA NoneOfTheKind ==
  ASSUME IInv, NEW k \in Kinds, Making(k), ~Exists(k, cmd.mem)
  PROVE  \A o \in live \ orphans :
           o.kind # k /\ ~(o.kind \in Policies /\ Under[o.kind] = k)
  <1>1. Typed /\ Advancing /\ Held /\ Chained /\ Traced /\ Busy
    BY OpenInv, MakingFacts
  <1>2. SUFFICES ASSUME NEW o \in live \ orphans
                 PROVE  o.kind # k /\ ~(o.kind \in Policies /\ Under[o.kind] = k)
    OBVIOUS
  <1>3. cmd.mem.ids[o.kind] = o.id
    BY <1>1 DEF Traced
  <1>4. o.kind \in Policies => cmd.mem.ids[Under[o.kind]] = o.of
    BY <1>1, <1>3 DEF Chained, Linked
  <1>5. o.kind # k
    BY <1>3, <1>4 DEF Exists
  <1>6. ASSUME o.kind \in Policies, Under[o.kind] = k PROVE FALSE
    <2>1. PICK a \in live : a.kind = k /\ a.id = o.of
      BY <1>1, <1>6 DEF Held
    <2>2. a.id = cmd.mem.ids[k] /\ k \notin Policies
      BY <1>4, <1>6, <2>1, KindFacts
    <2> QED
      BY <2>1, <2>2 DEF Exists
  <1> QED
    BY <1>5, <1>6

LEMMA CreateRecord ==
  ASSUME IInv, NEW k \in Kinds, Create(k)
  PROVE  /\ Agree'
         /\ Traced'
         /\ Chained'
  <1>1. /\ TypeOK /\ Typed /\ Numbered /\ Known /\ Agree /\ Chained /\ Traced /\ Advancing
        /\ \A o \in live : o.kind \in Kinds
    BY OpenInv
  <1>2. /\ Making(k) /\ ~Exists(k, cmd.mem) /\ Make(k) /\ file' = file /\ orphans' = orphans
    BY DEF Create
  <1>3. /\ cmd.phase = "make" /\ cmd.what \in {"provision", "gate"} /\ Busy
    BY <1>1, <1>2, MakingFacts
  <1>4. /\ cmd'.new = cmd.new \cup {k} /\ cmd'.what = cmd.what
        /\ cmd'.phase \in {"make", "save"} /\ Busy'
        /\ cmd'.mem.ids[k] = Fresh(k).id
        /\ \A j \in Kinds \ {k} : cmd'.mem.ids[j] = cmd.mem.ids[j]
    BY <1>1, CreateSteps DEF Busy
  <1>5. live' = live \cup {Fresh(k)} /\ made[k] < MaxMade
    BY <1>2 DEF Make
  <1>6. /\ Fresh(k).kind = k /\ Fresh(k).id = made[k] + 1
        /\ k \in DOMAIN Parent => Fresh(k).of = cmd.mem.ids[Parent[k]]
    BY <1>1, <1>5, FreshTyped
  <1>7. Agree'
    BY <1>1, <1>2, <1>3, <1>4 DEF Agree
  <1>8. ASSUME NEW o \in live \ orphans
        PROVE  /\ o.kind \in Kinds \ {k}
               /\ o.kind \in Policies => Under[o.kind] \in Kinds \ {k}
    BY <1>1, <1>2, <1>8, NoneOfTheKind, KindFacts
  <1>9. Traced'
    <2>1. ASSUME NEW o \in live' \ orphans'
          PROVE  cmd'.mem.ids[o.kind] = o.id
      <3>1. CASE o = Fresh(k)
        BY <1>4, <1>6, <3>1
      <3>2. CASE o \in live \ orphans
        BY <1>1, <1>3, <1>4, <1>8, <3>2 DEF Traced
      <3> QED
        BY <1>2, <1>5, <2>1, <3>1, <3>2
    <2> QED
      BY <1>4, <2>1 DEF Traced
  <1>10. Linked(file)'
    <2>1. ASSUME NEW o \in live' \ orphans', o.kind \in Policies, file.ids[o.kind] = o.id
          PROVE  file.ids[Under[o.kind]] = o.of
      <3>1. CASE o = Fresh(k)
        <4>1. file.ids[k] = made[k] + 1 /\ file.ids[k] <= made[k] /\ made[k] \in Nat
          BY <1>1, <1>6, <2>1, <3>1, OpenTyped, BoundsAssumption DEF Known, Id
        <4> QED
          BY <4>1
      <3>2. CASE o \in live \ orphans
        BY <1>1, <2>1, <3>2 DEF Chained, Linked
      <3> QED
        BY <1>2, <1>5, <2>1, <3>1, <3>2
    <2> QED
      BY <1>2, <2>1 DEF Linked
  <1>11. Linked(cmd.mem)'
    <2>1. ASSUME NEW o \in live' \ orphans', o.kind \in Policies, cmd'.mem.ids[o.kind] = o.id
          PROVE  cmd'.mem.ids[Under[o.kind]] = o.of
      <3>1. CASE o = Fresh(k)
        <4>1. k \in Policies /\ Under[k] \in Kinds \ {k} /\ o.of = cmd.mem.ids[Under[k]]
          BY <1>6, <2>1, <3>1, KindFacts
        <4> QED
          BY <1>4, <1>6, <3>1, <4>1
      <3>2. CASE o \in live \ orphans
        BY <1>1, <1>3, <1>4, <1>8, <2>1, <3>2 DEF Chained, Linked
      <3> QED
        BY <1>2, <1>5, <2>1, <3>1, <3>2
    <2> QED
      BY <2>1 DEF Linked
  <1> QED
    BY <1>7, <1>9, <1>10, <1>11 DEF Chained

LEMMA CreateAdvances ==
  ASSUME IInv, NEW k \in Kinds, Create(k)
  PROVE  /\ \A i \in Asked \ cmd'.todo : Exists(i, cmd.mem)'
         /\ Secured(cmd.mem)'
  <1>1. /\ TypeOK /\ Typed /\ Numbered /\ Advancing
    BY OpenInv
  <1>2. /\ Making(k) /\ Make(k) /\ env' = Secrets(k) /\ made[k] < MaxMade
    BY DEF Create, Make
  <1>3. /\ cmd.phase = "make" /\ k \in cmd.todo
        /\ \A j \in cmd.todo \ {k} : Rank[k] < Rank[j]
    BY <1>1, <1>2, MakingFacts
  <1>4. /\ cmd'.todo = cmd.todo \ {k} /\ cmd'.new = cmd.new \cup {k}
        /\ cmd'.mem.ids[k] = Fresh(k).id
        /\ \A j \in Kinds \ {k} : cmd'.mem.ids[j] = cmd.mem.ids[j]
    BY <1>1, CreateSteps
  <1>5. /\ live' = live \cup {Fresh(k)} /\ Fresh(k).kind = k
        /\ k \in DOMAIN Parent => Fresh(k).of = cmd.mem.ids[Parent[k]]
    BY <1>1, <1>2, FreshTyped DEF Make
  <1>6. /\ cmd.new \subseteq Asked \ cmd.todo /\ Asked \subseteq Kinds
        /\ \A i \in Asked \ cmd.todo : Rank[i] < Rank[k]
        /\ Made(cmd.mem)
    BY <1>1, <1>3, AskedFacts DEF Advancing
  <1>7. ASSUME NEW i \in Asked \ cmd'.todo PROVE Exists(i, cmd.mem)'
    <2>1. CASE i = k
      <3>1. ASSUME k \in Policies PROVE Fresh(k).of = cmd'.mem.ids[Under[k]]
        <4>1. Under[k] \in Kinds \ {k} /\ k \in DOMAIN Parent /\ Parent[k] = Under[k]
          BY <3>1, KindFacts
        <4> QED
          BY <1>4, <1>5, <4>1
      <3> QED
        BY <1>4, <1>5, <2>1, <3>1 DEF Exists
    <2>2. CASE i # k
      <3>1. i \in Asked \ cmd.todo /\ i \in Kinds \ {k}
        BY <1>4, <1>6, <1>7, <2>2
      <3>2. PICK o \in live : /\ o.kind = i /\ o.id = cmd.mem.ids[i]
                              /\ i \in Policies => o.of = cmd.mem.ids[Under[i]]
        BY <1>6, <3>1 DEF Made, Exists
      <3>3. ASSUME i \in Policies
            PROVE  cmd'.mem.ids[Under[i]] = cmd.mem.ids[Under[i]]
        <4>1. Under[i] \in Kinds /\ Rank[Under[i]] < Rank[i] /\ Rank[i] < Rank[k]
          BY <1>6, <3>1, <3>3, KindFacts, RankFacts
        <4>2. Rank[Under[i]] \in 1 .. 9 /\ Rank[i] \in 1 .. 9 /\ Rank[k] \in 1 .. 9
          BY <3>1, <4>1, RankFacts
        <4>3. Under[i] # k
          BY <4>1, <4>2
        <4> QED
          BY <1>4, <4>1, <4>3
      <3> QED
        BY <1>4, <1>5, <3>1, <3>2, <3>3 DEF Exists
    <2> QED
      BY <2>1, <2>2
  <1>8. env \in [tunnel : Id \cup {Own}, access : Id \cup {Own}]
    BY <1>1, OpenTyped
  <1>9. "tunnel" \in cmd'.new => env'.tunnel = cmd'.mem.ids["tunnel"]
    <2>1. CASE k = "tunnel"
      BY <1>2, <1>4, <1>8, <2>1 DEF Secrets
    <2>2. CASE k # "tunnel"
      BY <1>2, <1>4, <1>6, <1>8, <2>2 DEF Secrets, Made, Secured
    <2> QED
      BY <2>1, <2>2
  <1>10. "token" \in cmd'.new => env'.access = cmd'.mem.ids["token"]
    <2>1. CASE k = "token"
      BY <1>2, <1>4, <1>8, <2>1 DEF Secrets
    <2>2. CASE k # "token"
      BY <1>2, <1>4, <1>6, <1>8, <2>2 DEF Secrets, Made, Secured
    <2> QED
      BY <2>1, <2>2
  <1>11. "dns" \in cmd'.new => \E o \in live' : /\ o.kind = "dns" /\ o.id = cmd'.mem.ids["dns"]
                                                /\ o.of = cmd'.mem.ids["tunnel"]
    <2>a. "tunnel" \in Kinds /\ "dns" \in Kinds
      BY DEF Kinds, Saga, TunnelPart
    <2>1. CASE k = "dns"
      <3>1. Fresh(k).of = cmd'.mem.ids["tunnel"]
        BY <1>4, <1>5, <2>a, <2>1, KindFacts
      <3> QED
        BY <1>4, <1>5, <2>1, <3>1
    <2>2. CASE k # "dns"
      <3>1. SUFFICES ASSUME "dns" \in cmd.new
                     PROVE  \E o \in live' : /\ o.kind = "dns" /\ o.id = cmd'.mem.ids["dns"]
                                             /\ o.of = cmd'.mem.ids["tunnel"]
        BY <1>4, <2>2
      <3>2. k # "tunnel"
        BY <1>6, <3>1, RankFacts
      <3>3. /\ cmd'.mem.ids["dns"] = cmd.mem.ids["dns"]
            /\ cmd'.mem.ids["tunnel"] = cmd.mem.ids["tunnel"]
        BY <1>4, <2>a, <2>2, <3>2
      <3> QED
        BY <1>5, <1>6, <3>1, <3>3 DEF Made, Secured
    <2> QED
      BY <2>1, <2>2
  <1> QED
    BY <1>7, <1>9, <1>10, <1>11 DEF Secured

LEMMA CreateKept ==
  ASSUME IInv, NEW k \in Kinds, Create(k)
  PROVE  Rest'
  <1>1. /\ TypeOK /\ Typed /\ Numbered /\ Held /\ Advancing
    BY OpenInv
  <1>2. Making(k) /\ Make(k)
    BY DEF Create
  <1>3. /\ cmd.phase = "make" /\ k \in cmd.todo /\ k \in Asked
        /\ \A j \in cmd.todo \ {k} : Rank[k] < Rank[j]
    BY <1>1, <1>2, MakingFacts
  <1>4. /\ cmd'.todo = cmd.todo \ {k} /\ cmd'.new = cmd.new \cup {k}
        /\ cmd'.what = cmd.what /\ cmd'.phase \in {"make", "save"} /\ cmd'.want = cmd.want
        /\ Asked' = Asked
    BY <1>1, CreateSteps DEF Asked
  <1>5. Held'
    BY <1>1, <1>2, HeldMade
  <1>6. Advancing'
    <2>1. /\ cmd.todo \subseteq Asked /\ cmd.new \subseteq Asked \ cmd.todo
          /\ \A i \in Asked \ cmd.todo, j \in cmd.todo : Rank[i] < Rank[j]
          /\ Made(cmd.mem)
      BY <1>1, <1>3 DEF Advancing
    <2>2. Asked' \ cmd'.todo = (Asked \ cmd.todo) \cup {k}
      BY <1>3, <1>4, <2>1
    <2>3. \A i \in Asked' \ cmd'.todo, j \in cmd'.todo : Rank[i] < Rank[j]
      BY <1>3, <1>4, <2>1, <2>2
    <2>4. (Asked' \ cmd'.todo) \cap {"tunnel", "token"} \subseteq cmd'.new
      BY <1>4, <2>1, <2>2 DEF Made
    <2>5. Made(cmd.mem)'
      BY <1>4, <2>4, CreateAdvances DEF Made
    <2>6. /\ cmd'.todo \subseteq Asked' /\ cmd'.new \subseteq Asked' \ cmd'.todo
          /\ IF cmd'.what = "gate" THEN cmd'.want = {}
             ELSE cmd'.want # {} /\ Whole(TunnelPart)' /\ Whole(AccessPart)'
      BY <1>1, <1>3, <1>4, <2>1, <2>2 DEF Advancing, Whole
    <2> QED
      BY <2>3, <2>5, <2>6 DEF Advancing
  <1>7. ProvisionedIsComplete'
    BY <1>4 DEF ProvisionedIsComplete
  <1> QED
    BY <1>5, <1>6, <1>7, CreateRecord DEF Rest

LEMMA SaveKept ==
  ASSUME IInv, Save
  PROVE  Rest'
  <1>1. /\ TypeOK /\ Agree /\ Held /\ Chained /\ Traced /\ Advancing
    BY OpenInv
  <1>2. /\ cmd.phase = "save" /\ Busy /\ file' = cmd.mem
        /\ live' = live /\ env' = env /\ orphans' = orphans
    BY DEF Save, Busy
  <1>3. /\ cmd'.phase = "make" /\ cmd'.what = cmd.what /\ cmd'.todo = cmd.todo
        /\ cmd'.mem = cmd.mem /\ cmd'.want = cmd.want /\ cmd'.new = cmd.new
        /\ Busy' /\ Asked' = Asked
    BY <1>1, SaveSteps DEF Busy, Asked
  <1>4. Agree'
    BY <1>1, <1>2, <1>3 DEF Agree
  <1>5. Held'
    BY <1>1, <1>2 DEF Held
  <1>6. Chained'
    BY <1>1, <1>2, <1>3, ChainedKept
  <1>7. Traced'
    BY <1>1, <1>2, <1>3 DEF Traced
  <1>8. Advancing'
    <2>1. \A k \in Asked \ cmd.todo : Exists(k, cmd.mem) => Exists(k, cmd.mem)'
      BY <1>2, <1>3 DEF Exists
    <2>2. Secured(cmd.mem) => Secured(cmd.mem)'
      BY <1>2, <1>3 DEF Secured
    <2>3. Made(cmd.mem) => Made(cmd.mem)'
      BY <1>3, <2>1, <2>2 DEF Made
    <2> QED
      BY <1>1, <1>2, <1>3, <2>3 DEF Advancing, Whole
  <1>9. ProvisionedIsComplete'
    BY <1>3 DEF ProvisionedIsComplete
  <1> QED
    BY <1>4, <1>5, <1>6, <1>7, <1>8, <1>9 DEF Rest

LEMMA RefusedKept ==
  ASSUME IInv, NEW k \in Kinds, Refused(k)
  PROVE  Rest'
  <1>1. /\ TypeOK /\ Held /\ cmd.phase = "make" /\ live' = live /\ file' = file
    BY OpenInv DEF Refused, Making
  <1>2. Held'
    BY <1>1 DEF Held
  <1>3. CASE Undo /\ UNCHANGED orphans
    BY <1>1, <1>2, <1>3, UndoKept
  <1>4. CASE Stop
    BY <1>1, <1>2, <1>4, StopTyped, StopKept
  <1> QED
    BY <1>3, <1>4 DEF Refused

LEMMA AnswerLostKept ==
  ASSUME IInv, NEW k \in Kinds, AnswerLost(k)
  PROVE  Rest'
  <1>1. /\ TypeOK /\ Typed /\ Held /\ Advancing
    BY OpenInv
  <1>2. /\ Making(k) /\ Make(k) /\ file' = file /\ cmd.phase = "make"
        /\ live' = live \cup {Fresh(k)}
    BY DEF AnswerLost, Making, Make
  <1>3. Held'
    BY <1>1, <1>2, HeldMade
  <1>4. CASE Undo /\ orphans' = orphans \cup {Fresh(k)}
    BY <1>2, <1>3, <1>4, UndoKept
  <1>5. CASE End("stopped") /\ orphans' = orphans \cup {Fresh(k)} \cup Unrecorded
    BY <1>1, <1>2, <1>3, <1>5, EndSteps, StopKept
  <1> QED
    BY <1>4, <1>5 DEF AnswerLost

LEMMA SecretIsGoneKept ==
  ASSUME IInv, NEW k \in Kinds, SecretIsGone(k)
  PROVE  Rest'
  <1>1. TypeOK /\ Held
    BY OpenInv
  <1>2. cmd.phase # "idle" /\ Stop /\ live' = live /\ file' = file
    BY DEF SecretIsGone, Making
  <1>3. Held'
    BY <1>1, <1>2 DEF Held
  <1> QED
    BY <1>1, <1>2, <1>3, StopTyped, StopKept

LEMMA CheckFailsKept ==
  ASSUME IInv, NEW k \in Kinds, CheckFails(k)
  PROVE  Rest'
  <1>1. TypeOK /\ Held
    BY OpenInv
  <1>2. cmd.phase # "idle" /\ Stop /\ live' = live /\ file' = file
    BY DEF CheckFails, Making
  <1>3. Held'
    BY <1>1, <1>2 DEF Held
  <1> QED
    BY <1>1, <1>2, <1>3, StopTyped, StopKept

LEMMA KillKept ==
  ASSUME IInv, Kill
  PROVE  Rest'
  <1>1. TypeOK /\ Held
    BY OpenInv
  <1>2. cmd.phase # "idle" /\ Stop /\ live' = live /\ file' = file
    BY DEF Kill
  <1>3. Held'
    BY <1>1, <1>2 DEF Held
  <1> QED
    BY <1>1, <1>2, <1>3, StopTyped, StopKept

LEMMA DeleteFailsKept ==
  ASSUME IInv, NEW k \in Kinds, DeleteFails(k)
  PROVE  Rest'
  <1>1. TypeOK /\ Held
    BY OpenInv
  <1>2. cmd.phase # "idle" /\ Stop /\ file' = file /\ live' \in {live, Without(k)}
    BY DEF DeleteFails, Deleting
  <1>3. Held'
    <2>1. CASE live' = live
      BY <1>1, <2>1 DEF Held
    <2>2. CASE live' = Without(k)
      BY <1>1, <2>2, HeldWithout
    <2> QED
      BY <1>2, <2>1, <2>2
  <1>4. live' \subseteq live
    BY <1>2, WithoutLess
  <1> QED
    BY <1>1, <1>2, <1>3, <1>4, StopTyped, StopKept

\* A record torn in writing says nothing more of what exists.
LEMMA WriteTornKept ==
  ASSUME IInv, WriteTorn
  PROVE  Rest'
  <1>1. TypeOK /\ Held
    BY OpenInv
  <1>2. End("stopped") /\ live' = live /\ live' \ orphans' = {}
    BY DEF WriteTorn
  <1>3. cmd'.phase = "idle" /\ cmd'.end = "stopped" /\ ~Busy'
    BY <1>1, <1>2, EndSteps DEF Busy
  <1>4. Held'
    BY <1>1, <1>2 DEF Held
  <1> QED
    BY <1>2, <1>3, <1>4 DEF Rest, Agree, Chained, Linked, Traced, Advancing,
       ProvisionedIsComplete

LEMMA DeleteKept ==
  ASSUME IInv, NEW k \in Kinds, Delete(k)
  PROVE  Rest'
  <1>1. /\ TypeOK /\ Agree /\ Held /\ Chained /\ Traced
    BY OpenInv
  <1>2. /\ cmd.phase \in {"undo", "delete"} /\ k \in cmd.todo
        /\ live' = Without(k) /\ file' = file /\ orphans' = orphans
        /\ live' \subseteq live
    BY WithoutLess DEF Delete, Deleting
  <1>3. /\ cmd'.todo = cmd.todo \ {k} /\ cmd'.what = cmd.what /\ cmd'.phase = cmd.phase
        /\ cmd'.mem = cmd.mem /\ cmd'.new = cmd.new /\ Busy' = Busy
    BY <1>1, NextKind DEF Delete, Busy
  <1>4. Agree'
    BY <1>1, <1>2, <1>3 DEF Agree
  <1>5. Held'
    BY <1>1, <1>2, HeldWithout
  <1>6. Chained'
    BY <1>1, <1>2, <1>3, ChainedKept
  <1>7. Traced'
    <2>1. SUFFICES ASSUME NEW o \in live' \ orphans'
                   PROVE  /\ IF Busy THEN cmd.mem.ids[o.kind] = o.id
                                     ELSE file.ids[o.kind] = o.id
                          /\ cmd.phase = "undo" /\ o.kind \in cmd.new =>
                               o.kind \in cmd.todo \ {k}
                          /\ cmd.phase = "delete" /\ o.kind \in Saga =>
                               o.kind \in cmd.todo \ {k}
      BY <1>2, <1>3 DEF Traced
    <2>2. o \in live \ orphans /\ ~(o.kind = k /\ o.id = cmd.mem.ids[k])
      BY <1>2, <2>1 DEF Without
    <2>3. /\ IF Busy THEN cmd.mem.ids[o.kind] = o.id ELSE file.ids[o.kind] = o.id
          /\ cmd.phase = "undo" /\ o.kind \in cmd.new => o.kind \in cmd.todo
          /\ cmd.phase = "delete" /\ o.kind \in Saga => o.kind \in cmd.todo
      BY <1>1, <2>2 DEF Traced
    <2>4. IF cmd.phase = "undo" THEN Busy ELSE ~Busy /\ cmd.mem = file
      BY <1>1, <1>2 DEF Agree, Busy
    <2>5. o.kind # k
      BY <2>2, <2>3, <2>4
    <2> QED
      BY <2>3, <2>5
  <1>8. Advancing' /\ ProvisionedIsComplete'
    BY <1>2, <1>3 DEF Advancing, ProvisionedIsComplete
  <1> QED
    BY <1>4, <1>5, <1>6, <1>7, <1>8 DEF Rest

\* What a finished provisioning was asked for is there.
LEMMA FinishComplete ==
  ASSUME IInv, Finish, cmd.what = "provision"
  PROVE  /\ \A k \in cmd.want : Exists(k, file)'
         /\ "tunnel" \in cmd.want => env.tunnel = file'.ids["tunnel"]
         /\ "token" \in cmd.want => env.access = file'.ids["token"]
         /\ "dns" \in cmd.new => \E o \in live : /\ o.kind = "dns" /\ o.id = file'.ids["dns"]
                                                 /\ o.of = file'.ids["tunnel"]
         /\ file'.zone
  <1>1. TypeOK /\ Advancing
    BY OpenInv
  <1>2. cmd.phase = "make" /\ cmd.todo = {} /\ live' = live
    BY DEF Finish
  <1>3. /\ cmd.want # {} /\ Whole(TunnelPart) /\ Whole(AccessPart)
        /\ Made(cmd.mem) /\ cmd.want \subseteq Saga /\ Asked = cmd.want
    BY <1>1, <1>2, OpenTyped DEF Advancing, Asked
  <1>4. "tunnel" \in cmd.want \/ "token" \in cmd.want
    BY <1>3 DEF Whole, Saga, TunnelPart, AccessPart
  <1>5. cmd.want \cap {"tunnel", "token"} \subseteq cmd.new
    BY <1>2, <1>3 DEF Made
  <1>6. file'.ids = cmd.mem.ids /\ file'.zone
    BY <1>1, <1>4, <1>5, FinishSteps
  <1>7. \A k \in cmd.want : Exists(k, file)'
    BY <1>2, <1>3, <1>6 DEF Made, Exists
  <1> QED
    BY <1>3, <1>5, <1>6, <1>7 DEF Made, Secured

LEMMA FinishKept ==
  ASSUME IInv, Finish
  PROVE  Rest'
  <1>1. /\ TypeOK /\ Agree /\ Held /\ Chained /\ Traced /\ \A o \in live : o.kind \in Kinds
    BY OpenInv
  <1>2. /\ cmd.phase = "make" /\ cmd.todo = {} /\ End("done") /\ Busy
        /\ live' = live /\ env' = env /\ orphans' = orphans
    BY DEF Finish, Busy
  <1>3. /\ cmd'.phase = "idle" /\ cmd'.what = cmd.what /\ cmd'.want = cmd.want
        /\ cmd'.new = cmd.new /\ ~Busy'
    BY <1>1, <1>2, EndSteps DEF Busy
  <1>4. Agree' /\ Advancing'
    BY <1>3 DEF Agree, Advancing
  <1>5. Held'
    BY <1>1, <1>2 DEF Held
  <1>6. file' = file \/ file'.ids = cmd.mem.ids
    BY <1>1, FinishSteps
  <1>7. Chained'
    BY <1>1, <1>2, <1>3, <1>6, ChainedKept
  <1>8. Traced'
    <2>1. ASSUME NEW k \in Kinds PROVE file'.ids[k] = cmd.mem.ids[k]
      BY <1>1, <1>2, FinishSteps DEF Agree
    <2> QED
      BY <1>1, <1>2, <1>3, <2>1 DEF Traced
  <1>9. ProvisionedIsComplete'
    <2>1. CASE cmd.what # "provision"
      BY <1>3, <2>1 DEF ProvisionedIsComplete
    <2>2. CASE cmd.what = "provision"
      BY <1>2, <1>3, <2>2, FinishComplete DEF ProvisionedIsComplete
    <2> QED
      BY <2>1, <2>2
  <1> QED
    BY <1>4, <1>5, <1>7, <1>8, <1>9 DEF Rest

\* All that the run made is deleted: the record on disk names what is left.
LEMMA UndoneKept ==
  ASSUME IInv, Undone
  PROVE  Rest'
  <1>1. /\ TypeOK /\ Agree /\ Held /\ Chained /\ Traced /\ \A o \in live : o.kind \in Kinds
    BY OpenInv
  <1>2. /\ cmd.phase = "undo" /\ cmd.todo = {} /\ End("undone") /\ Busy
        /\ live' = live /\ file' = file /\ orphans' = orphans
    BY DEF Undone, Busy
  <1>3. cmd'.phase = "idle" /\ cmd'.end = "undone" /\ ~Busy'
    BY <1>1, <1>2, EndSteps DEF Busy
  <1>4. Agree' /\ Advancing' /\ ProvisionedIsComplete'
    BY <1>3 DEF Agree, Advancing, ProvisionedIsComplete
  <1>5. Held'
    BY <1>1, <1>2 DEF Held
  <1>6. Chained'
    BY <1>1, <1>2, <1>3, ChainedKept
  <1>7. ASSUME NEW o \in live \ orphans PROVE file.ids[o.kind] = o.id
    <2>1. cmd.mem.ids[o.kind] = o.id /\ o.kind \notin cmd.new
      BY <1>1, <1>2, <1>7 DEF Traced
    <2> QED
      BY <1>1, <1>2, <2>1 DEF Agree
  <1>8. Traced'
    BY <1>2, <1>3, <1>7 DEF Traced
  <1> QED
    BY <1>4, <1>5, <1>6, <1>8 DEF Rest

LEMMA WipeEnvKept ==
  ASSUME IInv, WipeEnv
  PROVE  Rest'
  <1>1. /\ TypeOK /\ Agree /\ Held /\ Chained /\ Traced
    BY OpenInv
  <1>2. /\ cmd.phase = "delete" /\ cmd.todo = {} /\ ~Busy
        /\ live' = live /\ file' = file /\ orphans' = orphans
    BY DEF WipeEnv, Busy
  <1>3. /\ cmd'.phase = "wipe" /\ cmd'.what = cmd.what
        /\ cmd'.mem = cmd.mem /\ cmd'.new = cmd.new /\ ~Busy'
    BY <1>1, WipeEnvSteps DEF Busy
  <1>4. Agree'
    BY <1>1, <1>2, <1>3 DEF Agree
  <1>5. Held' /\ Chained'
    BY <1>1, <1>2, <1>3, ChainedKept DEF Held
  <1>6. Traced' /\ Advancing' /\ ProvisionedIsComplete'
    BY <1>1, <1>2, <1>3 DEF Traced, Advancing, ProvisionedIsComplete
  <1> QED
    BY <1>4, <1>5, <1>6 DEF Rest

\* With the record gone, what is left of the bypass is on none.
LEMMA WipeFileKept ==
  ASSUME IInv, WipeFile
  PROVE  Rest'
  <1>1. /\ TypeOK /\ Agree /\ Held /\ Traced
        /\ \A o \in live : o.kind \in Saga \/ o.kind \in BypassPart
    BY OpenInv
  <1>2. /\ cmd.phase = "wipe" /\ End("done") /\ live' = live
        /\ orphans' = orphans \cup {o \in live : o.kind \in BypassPart}
    BY DEF WipeFile
  <1>3. cmd'.phase = "idle" /\ cmd'.what = "nuke" /\ ~Busy'
    BY <1>1, <1>2, EndSteps DEF Agree, Busy
  <1>4. Held'
    BY <1>1, <1>2 DEF Held
  <1>5. live' \ orphans' = {}
    BY <1>1, <1>2 DEF Traced
  <1> QED
    BY <1>3, <1>4, <1>5 DEF Rest, Agree, Chained, Linked, Traced, Advancing,
       ProvisionedIsComplete

-----------------------------------------------------------------------------
(* The theorems.                                                           *)

LEMMA InvInit == Init => IInv
  <1> SUFFICES ASSUME Init PROVE IInv
    OBVIOUS
  <1>1. /\ live = {} /\ file = Empty /\ env = [tunnel |-> None, access |-> None]
        /\ cmd = Idle /\ made = [k \in Kinds |-> 0] /\ faults = 0
        /\ torn = FALSE /\ orphans = {}
    BY DEF Init
  <1>2. Numbered
    BY <1>1 DEF Numbered
  <1>3. Idle.phase = "idle" /\ Idle.what = "none" /\ Idle.mem = Empty
    BY DEF Idle
  <1>4. TypeOK
    <2>1. None \in Id
      BY BoundsAssumption DEF None, Id
    <2>2. made \in [Kinds -> Id]
      BY <1>1, <2>1 DEF None
    <2>3. env \in [tunnel : Id \cup {Own}, access : Id \cup {Own}]
      BY <1>1, <2>1
    <2>4. faults \in 0 .. MaxFaults
      BY <1>1, BoundsAssumption
    <2> QED
      BY <1>1, <1>2, <1>3, <2>2, <2>3, <2>4, EmptyTyped DEF TypeOK
  <1>5. Known
    BY <1>1, <1>3 DEF Known, Empty, None
  <1>6. Rest
    BY <1>1, <1>3 DEF Rest, Agree, Held, Chained, Linked, Busy, Traced, Advancing,
       ProvisionedIsComplete
  <1> QED
    BY <1>2, <1>4, <1>5, <1>6 DEF IInv

LEMMA InvStep == IInv /\ [Next]_vars => IInv'
  <1> SUFFICES ASSUME IInv, [Next]_vars PROVE IInv'
    OBVIOUS
  <1>1. TypeOK' /\ Numbered' /\ Known'
    BY OpenInv, StepTyped, KnownStep
  <1>2. Rest'
    <2>1. ASSUME NEW hostname \in BOOLEAN, NEW named \in BOOLEAN,
                 Provision(hostname, named)
          PROVE  Rest'
      BY <2>1, ProvisionKept
    <2>2. ASSUME NEW part \in {"tunnel", "access"}, NEW value \in {None, Own},
                 UpdateEnv(part, value)
          PROVE  Rest'
      <3>1. /\ cmd.phase = "idle" /\ cmd' = Idle
            /\ live' = live /\ file' = file /\ orphans' = orphans
        BY <2>2 DEF UpdateEnv, Ready
      <3>2. Held'
        BY <3>1, OpenInv DEF Held
      <3> QED
        BY <3>1, <3>2, ByHandKept
    <2>3. ASSUME NEW o \in live, Dashboard(o) PROVE Rest'
      <3>1. /\ cmd.phase = "idle" /\ cmd' = Idle
            /\ live' \subseteq live /\ file' = file /\ orphans' = orphans
        BY <2>3 DEF Dashboard, Ready
      <3>2. Held'
        BY <2>3, OpenInv, HeldDashboard
      <3> QED
        BY <3>1, <3>2, ByHandKept
    <2>4. ASSUME NEW k \in Kinds,
                 \/ Reuse(k) \/ SecretIsGone(k) \/ Create(k) \/ Refused(k)
                 \/ AnswerLost(k) \/ CheckFails(k) \/ Delete(k) \/ DeleteFails(k)
          PROVE  Rest'
      BY <2>4, ReuseKept, SecretIsGoneKept, CreateKept, RefusedKept, AnswerLostKept,
         CheckFailsKept, DeleteKept, DeleteFailsKept
    <2>5. CASE UNCHANGED vars
      <3>1. UNCHANGED <<live, file, env, cmd, orphans>>
        BY <2>5 DEF vars
      <3>2. Agree' /\ Held' /\ Traced' /\ ProvisionedIsComplete'
        BY <3>1, OpenInv DEF Agree, Held, Traced, Busy, Exists, ProvisionedIsComplete
      <3>3. Chained'
        BY <3>1, OpenInv DEF Chained, Linked, Busy
      <3>4. Advancing'
        BY <3>1, OpenInv DEF Advancing, Asked, Whole, Made, Secured, Exists
      <3> QED
        BY <3>2, <3>3, <3>4 DEF Rest
    <2> QED
      BY <2>1, <2>2, <2>3, <2>4, <2>5, UpdateGateKept, NukeKept, SaveKept, FinishKept,
         UndoneKept, WipeEnvKept, WipeFileKept, WriteTornKept, KillKept DEF Next
  <1> QED
    BY <1>1, <1>2 DEF IInv

LEMMA InvKept == Spec => []IInv
  BY InvInit, InvStep, PTL DEF Spec

\* What an undo deletes is what its own run made, never what it only found and
\* reused (the except blocks of _provision_cloudflare_resources); and the types.
THEOREM UndoTakesOnlyItsOwn == Spec => []TypeOK
  <1>1. IInv => TypeOK
    BY DEF IInv
  <1> QED
    BY <1>1, InvKept, PTL

\* Once a command is over, every object that exists, of provisioning or of the
\* bypass, is on record under its id, whatever was refused, undone, deleted by
\* hand or torn down (_provision_cloudflare_resources, run_update_gate,
\* run_nuke_cloudflare), for every number of objects and faults.  Excused are the
\* orphans, object by object: its answer was lost, its run stopped before it wrote
\* the record, the record was torn in writing, or a teardown left it, an
\* application or a policy of the bypass, and erased the record.
THEOREM WhatExistsIsOnRecord == Spec => []Accounted
  <1>1. IInv => Accounted
    BY OpenInv DEF Traced, Accounted, Busy
  <1> QED
    BY <1>1, InvKept, PTL

\* A provisioning that reports success made or found all it was asked for, with
\* the secrets in the .env that belong to it (_provision_cloudflare_resources).
THEOREM SuccessIsComplete == Spec => []ProvisionedIsComplete
  <1>1. IInv => ProvisionedIsComplete
    BY OpenInv
  <1> QED
    BY <1>1, InvKept, PTL
=============================================================================
