-------------------------- MODULE ScenarioEngineProofs --------------------------
(***************************************************************************)
(* Proofs about the scenario engine, for any runs, resets and verifiers,   *)
(* any workloads, scenarios and crashes: what a run changes can always be  *)
(* undone, and the next run starts on the platform as it was deployed.     *)
(*                                                                         *)
(* ChangesRecoverable is not inductive: it does not say who is about to    *)
(* undo what, nor that the record that names a change will still be whole  *)
(* and unrestored when it is read. Inv says both. Turns: the commands that *)
(* touch the platform have the lock, and a reset runs beside none of them. *)
(* UndoneBy(Run): whatever stands is named by a record that the next       *)
(* command restores and that no verifier is about to overwrite. Held says  *)
(* how a restore plan in progress shrinks what stands (LeftBy), for the    *)
(* recovery at the start, the body, the finally block and the reset alike; *)
(* TasksOf and FirstCounts that the count a journal names first is the     *)
(* deployed one; Seen that records in use exist.                           *)
(*                                                                         *)
(* The hypothesis ResetBesideRun = FALSE is needed: a reset beside a run   *)
(* marks the run's record restored while the run goes on to change the     *)
(* platform.                                                               *)
(***************************************************************************)
EXTENDS ScenarioEngine, TLAPS, FiniteSetTheorems

-----------------------------------------------------------------------------
(* What every variable holds, and what a command's place says of its own    *)
(* variables.                                                               *)

Starting == {"idle", "acquire", "load", "recover", "recoverRestore", "recoveredSave", "recoveredWrite", "firstSave"}
Changing == {"preflight", "breakers", "faults", "faultPut", "traffic", "draining", "bodyRestore", "finallyRestore"}
Closing == {"checks", "finally", "finalSave", "finalWrite"}
Ended == {"exit", "end", "dead"}
RunPlace == Starting \cup {"firstWrite"} \cup Changing \cup Closing \cup Ended
ResetPlace == {"idle", "reset", "load", "recover", "recoverRestore", "recoveredSave", "recoveredWrite",
               "resetClear", "resetBreakers", "resetDone"} \cup Ended
VerifyPlace == {"idle", "verify", "verifySave", "verifyWrite"} \cup Ended

Place == RunPlace \cup ResetPlace \cup VerifyPlace

Entry == [kind : {"fault", "scale", "rollout-restart", "delete-pod"}, workload : Workload, detail : Nat]
Record == [restored : BOOLEAN, status : Statuses]
File == [file : {"absent", "torn", "tornByVerify", "whole"}, restored : BOOLEAN, status : Statuses]
Plan == [clear : SUBSET Workload, scale : SUBSET Workload, wait : SUBSET Workload]
Task == [state : {"waiting", "read", "journaled", "applied", "done"}, original : Nat]

\* The pods that run; TypeOK says it of one pod.
Running == UNION {RunningPods(w) : w \in Workload}

PlatformTypes ==
    /\ replicas \in [Workload -> Nat]
    /\ settled \in [Workload -> BOOLEAN]
    /\ breakersOpen \in BOOLEAN
    /\ \A r \in rules : r.pod \in Running

FileTypes ==
    /\ journal \in [Run -> Seq(Entry)]
    /\ disk \in [Run -> File]
    /\ lock \in Run \cup {None}

Places ==
    /\ pc \in [Command -> Place]
    /\ \A c \in Run : pc[c] \in RunPlace
    /\ \A c \in Reset : pc[c] \in ResetPlace
    /\ \A c \in Verify : pc[c] \in VerifyPlace

\* The scenario a run was given passed the schema.
ScenarioTypes ==
    /\ scenario \in [Run -> [faults : Seq(FaultFields), actions : Seq(ActionFields)]]
    /\ \A c \in Run : ValidScenario(scenario[c])

MemoryTypes ==
    /\ record \in [Command -> Record]
    /\ queue \in [Command -> SUBSET Run]
    /\ subject \in [Command -> Command]
    /\ plan \in [Command -> Plan]
    /\ fault \in [Command -> Nat]
    /\ targets \in [Command -> SUBSET (Workload \X Nat)]
    /\ DOMAIN task = Command
    /\ \A c \in Command : task[c] \in [DOMAIN task[c] -> Task]
    /\ \A c \in Run : DOMAIN task[c] = 1..Len(scenario[c].actions)

Types == PlatformTypes /\ FileTypes /\ Places /\ ScenarioTypes /\ MemoryTypes

-----------------------------------------------------------------------------
(* Whose turn it is.                                                        *)

\* A command that may change the platform, or has looked at what is to be undone.
Working(c) == c \in Run \cup Reset /\ pc[c] \notin {"idle", "acquire"} \cup Ended

Turns ==
    /\ \A c \in Run : Working(c) => lock = c
    /\ \A c \in Reset : \A d \in (Run \cup Reset) \ {c} : Live(c) => ~Live(d)

-----------------------------------------------------------------------------
(* What stands on the platform, and who can undo it.                        *)

Scaled(d) == Named(journal[d], {"scale"})
Faulted(d) == Named(journal[d], {"fault"})

\* The record of d says, or a verifier is about to make it say, that d is undone.
SaidUndone(d) ==
    \/ disk[d].restored
    \/ \E v \in Verify : pc[v] \in {"verifySave", "verifyWrite"} /\ subject[v] = d /\ record[v].restored

\* The next command restores d, and no verifier will take that away.
Standing(d) == disk[d].file \in {"whole", "tornByVerify"} /\ ~SaidUndone(d)

UndoneBy(D) ==
    /\ \A w \in Workload : replicas[w] # Baseline[w] => \E d \in D : Standing(d) /\ w \in Scaled(d)
    /\ \A r \in rules : \E d \in D : Standing(d) /\ r.pod[1] \in Faulted(d)

\* The first count a journal names is the deployed one.
FirstCounts == \A d \in Run : \A w \in Scaled(d) : OriginalReplicas(journal[d], w) = Baseline[w]

\* In the middle of a restore plan: what still stands is in the plan, or some
\* other record in D undoes it.
LeftBy(c, D) ==
    /\ plan[c].scale \subseteq Scaled(subject[c]) /\ plan[c].clear \subseteq Faulted(subject[c])
    /\ \A w \in Workload : replicas[w] # Baseline[w] =>
         w \in plan[c].scale \/ \E d \in D \ {subject[c]} : Standing(d) /\ w \in Scaled(d)
    /\ \A r \in rules :
         r.pod[1] \in plan[c].clear \/ \E d \in D \ {subject[c]} : Standing(d) /\ r.pod[1] \in Faulted(d)

-----------------------------------------------------------------------------
(* What holds at each place.                                                *)

RecoveryAt(c) ==
    /\ pc[c] = "recover" => UndoneBy(queue[c])
    /\ pc[c] = "recoverRestore" => subject[c] \in queue[c] /\ LeftBy(c, queue[c])
    /\ pc[c] \in {"recoveredSave", "recoveredWrite"} => subject[c] \in queue[c] /\ UndoneBy(queue[c] \ {subject[c]})

\* A record that was never written is nobody's subject.
RecordAt(c) ==
    /\ pc[c] \in Starting => disk[c].file = "absent"
    /\ pc[c] \in Starting \cup {"firstWrite"} \cup Changing => ~record[c].restored
    /\ pc[c] = "firstWrite" => ~SaidUndone(c)
    /\ pc[c] \in Changing => Standing(c)
    /\ pc[c] = "checks" => record[c].restored
    /\ pc[c] = "finally" /\ ~record[c].restored => Standing(c)
    /\ pc[c] \in {"firstSave", "firstWrite"} \cup Changing \cup Closing => subject[c] = c

PlatformAt(c) ==
    /\ pc[c] \in {"firstSave", "firstWrite", "preflight", "breakers", "checks", "finalSave", "finalWrite"} => AsFound
    /\ pc[c] = "finally" => IF record[c].restored THEN AsFound ELSE UndoneBy({c})
    /\ pc[c] \in {"faults", "faultPut", "traffic", "draining"} => UndoneBy({c})
    /\ pc[c] \in {"bodyRestore", "finallyRestore"} => LeftBy(c, {c})

FaultsAt(c) ==
    /\ pc[c] \in Starting \cup {"firstWrite", "preflight", "breakers"} => targets[c] = {}
    /\ pc[c] \in {"faults", "faultPut"} => targets[c] \subseteq Running /\ ~breakersOpen
    /\ pc[c] = "faultPut" =>
         LET last == journal[c][Len(journal[c])]
         IN  Len(journal[c]) > 0 /\ last.kind = "fault" /\ <<last.workload, last.detail>> \in targets[c]

\* The actions of a run know the deployed count, or its journal does.
TasksOf(c) ==
    \A i \in DOMAIN task[c] :
        LET w == Actions(c)[i].workload
            scales == Actions(c)[i].action = "scale"
        IN  /\ task[c][i].state = "read" /\ scales => w \in Scaled(c) \/ task[c][i].original = Baseline[w]
            /\ task[c][i].state = "journaled" /\ scales => w \in Scaled(c)
            /\ task[c][i].state = "applied" => w \in Scaled(c)

ResetAt(c) ==
    /\ pc[c] \in {"resetClear", "resetBreakers", "resetDone"} => AsFound
    /\ pc[c] = "resetClear" => plan[c].scale = {}
    /\ pc[c] = "resetDone" => ~breakersOpen

\* The records commands work on were written once.
Seen ==
    /\ \A c \in Command : \A d \in queue[c] : disk[d].file # "absent"
    /\ \A v \in Verify : pc[v] \in {"verifySave", "verifyWrite"} => subject[v] \in Run /\ disk[subject[v]].file # "absent"
    /\ \A d \in Run : disk[d].file = "absent" => ~disk[d].restored

\* What holds of a command wherever it is.
Held(c) ==
    /\ RecoveryAt(c)
    /\ c \in Run => RecordAt(c) /\ PlatformAt(c) /\ FaultsAt(c)
    /\ c \in Reset => ResetAt(c)

Inv ==
    /\ Types /\ Turns /\ Seen
    /\ UndoneBy(Run) /\ FirstCounts
    /\ \A c \in Run : TasksOf(c)
    /\ \A c \in Run \cup Reset : Held(c)

-----------------------------------------------------------------------------
(* Types.                                                                   *)

\* The next state is typed if each part is; parts an action leaves alone stay.
LEMMA ScenarioStays == ScenarioTypes /\ UNCHANGED scenario => ScenarioTypes'
  BY DEF ScenarioTypes

LEMMA PlatformStays == PlatformTypes /\ UNCHANGED platform => PlatformTypes'
  BY DEF PlatformTypes, platform, Running, RunningPods

LEMMA FilesStay == FileTypes /\ UNCHANGED <<files, lock>> => FileTypes'
  BY DEF FileTypes, files

LEMMA PlacesStay == Places /\ UNCHANGED pc => Places'
  BY DEF Places

LEMMA MemoryStays ==
  MemoryTypes /\ UNCHANGED <<scenario, record, queue, subject, plan, fault, targets, task>> => MemoryTypes'
  BY DEF MemoryTypes

LEMMA KindsDiffer ==
  /\ Run \subseteq Command /\ Reset \subseteq Command /\ Verify \subseteq Command
  /\ \A c \in Run : c \notin Reset /\ c \notin Verify
  /\ \A c \in Reset : c \notin Run /\ c \notin Verify
  /\ \A c \in Verify : c \notin Run /\ c \notin Reset
  /\ None \notin Run
  BY KindsAssumption DEF Command

\* A command goes to a place of its kind.
LEMMA GotoPlace ==
  ASSUME Places, NEW c \in Command, NEW l \in Place, Goto(c, l),
         c \in Run => l \in RunPlace, c \in Reset => l \in ResetPlace, c \in Verify => l \in VerifyPlace
  PROVE  Places'
<1>1. pc' \in [Command -> Place]
  BY DEF Places, Goto
<1>2. \A d \in Command : pc'[d] = IF d = c THEN l ELSE pc[d]
  BY DEF Places, Goto
<1> QED
  BY <1>1, <1>2, KindsDiffer DEF Places

LEMMA FreshTypes == NewRecord \in Record /\ NewTask \in Task /\ NoPlan \in Plan
<1>1. NewRecord \in Record
  BY DEF NewRecord, Record, Statuses
<1>2. NewTask \in Task
  BY DEF NewTask, Task
<1>3. NoPlan \in Plan
  BY DEF NoPlan, Plan
<1> QED
  BY <1>1, <1>2, <1>3

LEMMA ForgetTypes ==
  ASSUME MemoryTypes, NEW c \in Command, Forget(c)
  PROVE  MemoryTypes'
<1>1. NewRecord \in Record /\ NewTask \in Task /\ NoPlan \in Plan
  BY FreshTypes
<1>2. task' = [task EXCEPT ![c] = [i \in DOMAIN task[c] |-> NewTask]]
  BY DEF Forget
<1>3. /\ DOMAIN task' = Command
      /\ \A d \in Command : DOMAIN task'[d] = DOMAIN task[d] /\ task'[d] \in [DOMAIN task'[d] -> Task]
  BY <1>1, <1>2 DEF MemoryTypes
<1>4. \A d \in Run : DOMAIN task'[d] = 1..Len(scenario'[d].actions)
  BY <1>3, KindsDiffer DEF MemoryTypes, Forget
<1>5. /\ record' \in [Command -> Record] /\ queue' \in [Command -> SUBSET Run]
      /\ subject' \in [Command -> Command] /\ plan' \in [Command -> Plan]
      /\ fault' \in [Command -> Nat] /\ targets' \in [Command -> SUBSET (Workload \X Nat)]
  BY <1>1 DEF Forget, MemoryTypes
<1> QED
  BY <1>3, <1>4, <1>5 DEF MemoryTypes

\* What a journal names are workloads.
LEMMA PlanTypes ==
  ASSUME NEW j \in Seq(Entry)
  PROVE  /\ RestorePlan(j) \in Plan
         /\ \A K : Named(j, K) \subseteq Workload
<1>1. \A i \in 1..Len(j) : j[i].workload \in Workload
  <2>1. \A i \in 1..Len(j) : j[i] \in Entry
    OBVIOUS
  <2> QED
    BY <2>1 DEF Entry
<1>2. \A K : Named(j, K) \subseteq Workload
  BY <1>1 DEF Named
<1> QED
  BY <1>2 DEF RestorePlan, Plan

\* Setting a replica count keeps the platform typed.
LEMMA SetReplicasTypes ==
  ASSUME PlatformTypes, NEW w \in Workload, NEW n \in Nat, SetReplicas(w, n)
  PROVE  /\ PlatformTypes'
         /\ rules' \subseteq rules
         /\ replicas' = [replicas EXCEPT ![w] = n]
<1>1. replicas' = [replicas EXCEPT ![w] = n] /\ rules' \subseteq rules
  BY DEF SetReplicas
<1>2. replicas' \in [Workload -> Nat] /\ settled' \in [Workload -> BOOLEAN] /\ breakersOpen' \in BOOLEAN
  BY <1>1 DEF PlatformTypes, SetReplicas
<1>3. ASSUME NEW r \in rules' PROVE r.pod \in Running'
  <2>1. PICK x \in Workload : r.pod \in RunningPods(x)
    BY <1>1, <1>3 DEF PlatformTypes, Running
  <2>2. PICK i \in 1..replicas[x] : r.pod = <<x, i>>
    BY <2>1 DEF RunningPods
  <2>3. i \in 1..replicas'[x]
    <3>1. CASE x = w
      <4>1. i <= n
        BY <1>3, <2>2, <3>1 DEF SetReplicas
      <4> QED
        BY <4>1, <3>1, <1>1, <2>2 DEF PlatformTypes
    <3>2. CASE x # w
      BY <3>2, <1>1 DEF PlatformTypes
    <3> QED
      BY <3>1, <3>2
  <2> QED
    BY <2>2, <2>3 DEF Running, RunningPods
<1> QED
  BY <1>1, <1>2, <1>3 DEF PlatformTypes

LEMMA FewerRules ==
  ASSUME PlatformTypes, rules' \subseteq rules, UNCHANGED replicas,
         settled' \in [Workload -> BOOLEAN], breakersOpen' \in BOOLEAN
  PROVE  PlatformTypes'
  BY DEF PlatformTypes, Running, RunningPods
\* The actions and faults of a scenario that passed the schema.
LEMMA ActionFacts ==
  ASSUME ScenarioTypes, NEW c \in Run, NEW i \in 1..Len(scenario[c].actions)
  PROVE  /\ Actions(c)[i].action \in {"scale", "rollout-restart", "delete-pod"}
         /\ Actions(c)[i].workload \in Workload
         /\ Actions(c)[i].action = "scale" => Actions(c)[i].replicas \in Nat
         /\ Actions(c)[i].restoreAfter => Actions(c)[i].action = "scale"
<1>1. scenario[c].actions \in Seq(ActionFields)
  BY DEF ScenarioTypes
<1>2. scenario[c].actions[i] \in ActionFields
  BY <1>1
<1>3. ValidAction(scenario[c].actions[i])
  BY <1>1 DEF ScenarioTypes, ValidScenario
<1> QED
  BY <1>2, <1>3 DEF ActionFields, ValidAction, Actions

LEMMA FaultFacts ==
  ASSUME ScenarioTypes, NEW c \in Run, NEW i \in 1..Len(Faults(c))
  PROVE  Faults(c)[i].service \in Workload
<1>1. scenario[c].faults \in Seq(FaultFields)
  BY DEF ScenarioTypes
<1>2. scenario[c].faults[i] \in FaultFields
  BY <1>1 DEF Faults
<1> QED
  BY <1>2 DEF FaultFields, Faults

\* The tasks of a run are those of its actions.
LEMMA TaskFacts ==
  ASSUME ScenarioTypes, MemoryTypes, NEW c \in Run, NEW i \in DOMAIN task[c]
  PROVE  /\ i \in 1..Len(scenario[c].actions)
         /\ task[c][i] \in Task
  BY KindsDiffer DEF MemoryTypes

LEMMA SetTaskTypes ==
  ASSUME MemoryTypes, NEW c \in Command, NEW i \in DOMAIN task[c], NEW t \in Task,
         task' = [task EXCEPT ![c] = [@ EXCEPT ![i] = t]],
         UNCHANGED <<scenario, record, queue, subject, plan, fault, targets>>
  PROVE  MemoryTypes'
<1>1. DOMAIN task' = Command
  BY DEF MemoryTypes
<1>2. \A d \in Command : DOMAIN task'[d] = DOMAIN task[d] /\ task'[d] \in [DOMAIN task'[d] -> Task]
  BY DEF MemoryTypes
<1> QED
  BY <1>1, <1>2, KindsDiffer DEF MemoryTypes

\* A change of state is a change to a task.
LEMMA SetTaskIs ==
  ASSUME MemoryTypes, NEW c \in Command, NEW i \in DOMAIN task[c],
         NEW s \in {"waiting", "read", "journaled", "applied", "done"}, SetTask(c, i, s)
  PROVE  \E t \in Task : /\ t.state = s /\ t.original = task[c][i].original
                         /\ task' = [task EXCEPT ![c] = [@ EXCEPT ![i] = t]]
<1>0. task[c][i] \in Task
  BY DEF MemoryTypes
<1> DEFINE t == [task[c][i] EXCEPT !.state = s]
<1>1. t \in Task /\ t.state = s /\ t.original = task[c][i].original
  BY <1>0 DEF Task
<1>2. task' = [task EXCEPT ![c] = [@ EXCEPT ![i] = t]]
  BY DEF SetTask, MemoryTypes
<1> QED
  BY <1>1, <1>2

\* The journal grows by a typed entry.
LEMMA JournalTypes ==
  ASSUME FileTypes, NEW c \in Run, NEW e \in Entry, Journal(c, e.kind, e.workload, e.detail),
         UNCHANGED <<disk, lock>>
  PROVE  /\ FileTypes'
         /\ journal' = [journal EXCEPT ![c] = Append(@, e)]
<1>1. e = [kind |-> e.kind, workload |-> e.workload, detail |-> e.detail]
  BY DEF Entry
<1>2. journal' = [journal EXCEPT ![c] = Append(@, e)]
  BY <1>1 DEF Journal
<1>3. journal' \in [Run -> Seq(Entry)]
  BY <1>2 DEF FileTypes
<1> QED
  BY <1>2, <1>3 DEF FileTypes
\* Every count a restore plan sets is the deployed one.
LEMMA RestoredCount ==
  ASSUME Inv, NEW c \in Command, RestoreReplicas(c)
  PROVE  \E w \in plan[c].scale :
           /\ w \in Workload
           /\ SetReplicas(w, Baseline[w])
           /\ Baseline[w] \in Nat
           /\ plan' = [plan EXCEPT ![c].scale = @ \ {w}]
<1>1. PICK w \in plan[c].scale : /\ SetReplicas(w, OriginalReplicas(journal[subject[c]], w))
                                 /\ plan' = [plan EXCEPT ![c].scale = @ \ {w}]
  BY DEF RestoreReplicas
<1>2. plan[c] \in Plan /\ w \in Workload
  BY DEF Inv, Types, MemoryTypes, Plan
<1>3. pc[c] \in {"recoverRestore", "bodyRestore", "finallyRestore", "resetClear"}
  BY DEF RestoreReplicas, Restoring
<1>4. c \notin Verify
  BY <1>3 DEF Inv, Types, Places, VerifyPlace, Ended
<1>5. subject[c] \in Run /\ w \in Scaled(subject[c])
  <2>1. CASE pc[c] = "recoverRestore"
    <3>1. c \in Run \cup Reset
      BY <1>4 DEF Command
    <3>2. RecoveryAt(c)
      BY <3>1 DEF Inv, Held
    <3>3. subject[c] \in queue[c] /\ plan[c].scale \subseteq Scaled(subject[c])
      BY <3>2, <2>1 DEF RecoveryAt, LeftBy
    <3>4. queue[c] \in SUBSET Run
      BY DEF Inv, Types, MemoryTypes
    <3> QED
      BY <3>3, <3>4, <1>1
  <2>2. CASE pc[c] \in {"bodyRestore", "finallyRestore"}
    <3>1. c \in Run
      BY <1>4, <2>2 DEF Command, Inv, Types, Places, ResetPlace, Ended
    <3>2. RecordAt(c) /\ PlatformAt(c)
      BY <3>1 DEF Inv, Held
    <3>3. subject[c] = c
      BY <3>2, <2>2 DEF RecordAt, Changing
    <3>4. plan[c].scale \subseteq Scaled(subject[c])
      BY <3>2, <2>2 DEF PlatformAt, LeftBy
    <3> QED
      BY <3>1, <3>3, <3>4, <1>1
  <2>3. CASE pc[c] = "resetClear"
    <3>1. c \in Reset
      BY <1>4, <2>3 DEF Command, Inv, Types, Places, RunPlace, Starting, Changing, Closing, Ended
    <3>2. plan[c].scale = {}
      BY <3>1, <2>3 DEF Inv, Held, ResetAt
    <3> QED
      BY <3>2, <1>1
  <2> QED
    BY <1>3, <2>1, <2>2, <2>3
<1>6. OriginalReplicas(journal[subject[c]], w) = Baseline[w]
  BY <1>5 DEF Inv, FirstCounts
<1>7. Baseline[w] \in Nat
  BY <1>2, KindsAssumption
<1> QED
  BY <1>1, <1>2, <1>6, <1>7

\* The pod a fault is put on runs.
LEMMA FaultedPod ==
  ASSUME Inv, NEW c \in Run, pc[c] = "faultPut"
  PROVE  LET last == journal[c][Len(journal[c])]
         IN  /\ <<last.workload, last.detail>> \in Running
             /\ <<last.workload, last.detail>> \in targets[c]
             /\ last.workload \in Faulted(c)
<1> DEFINE last == journal[c][Len(journal[c])]
<1>1. FaultsAt(c)
  BY DEF Inv, Held
<1>2. Len(journal[c]) > 0 /\ last.kind = "fault" /\ <<last.workload, last.detail>> \in targets[c]
  BY <1>1 DEF FaultsAt
<1>3. targets[c] \subseteq Running
  BY <1>1 DEF FaultsAt
<1>4. journal[c] \in Seq(Entry)
  BY DEF Inv, Types, FileTypes
<1>5. Len(journal[c]) \in 1..Len(journal[c])
  BY <1>4, <1>2
<1>6. last.workload \in Faulted(c)
  BY <1>2, <1>5 DEF Faulted, Named
<1> QED
  BY <1>2, <1>3, <1>6

LEMMA RunningPodsAre ==
  ASSUME PlatformTypes, NEW w \in Workload
  PROVE  /\ ReadyPods(w) \subseteq RunningPods(w)
         /\ RunningPods(w) \subseteq Running
         /\ RunningPods(w) \subseteq Workload \X Nat
<1>1. replicas[w] \in Nat
  BY DEF PlatformTypes
<1> QED
  BY <1>1 DEF ReadyPods, Running, RunningPods
LEMMA PlanChangeTypes ==
  ASSUME MemoryTypes, NEW c \in Command, NEW p \in Plan, plan' = [plan EXCEPT ![c] = p],
         UNCHANGED <<scenario, record, queue, subject, fault, targets, task>>
  PROVE  MemoryTypes'
  BY DEF MemoryTypes

LEMMA RecordChangeTypes ==
  ASSUME MemoryTypes, NEW c \in Command, NEW r \in Record, record' = [record EXCEPT ![c] = r],
         UNCHANGED <<scenario, queue, subject, plan, fault, targets, task>>
  PROVE  MemoryTypes'
  BY DEF MemoryTypes

LEMMA RecordFacts ==
  ASSUME MemoryTypes, NEW c \in Command
  PROVE  /\ [record[c] EXCEPT !.status = "ended"] \in Record
         /\ [record[c] EXCEPT !.restored = TRUE] \in Record
         /\ \A b \in BOOLEAN : [restored |-> b, status |-> "ended"] \in Record
<1>1. record[c] \in Record
  BY DEF MemoryTypes
<1>2. [record[c] EXCEPT !.status = "ended"] \in Record
  BY <1>1 DEF Record, Statuses
<1>3. [record[c] EXCEPT !.restored = TRUE] \in Record
  BY <1>1 DEF Record, Statuses
<1>4. \A b \in BOOLEAN : [restored |-> b, status |-> "ended"] \in Record
  BY DEF Record, Statuses
<1> QED
  BY <1>2, <1>3, <1>4

LEMMA PlanFacts ==
  ASSUME MemoryTypes, NEW c \in Command
  PROVE  \A w : /\ [plan[c] EXCEPT !.clear = @ \ {w}] \in Plan
                /\ [plan[c] EXCEPT !.scale = @ \ {w}] \in Plan
                /\ [plan[c] EXCEPT !.wait = @ \ {w}] \in Plan
<1>1. plan[c] \in Plan
  BY DEF MemoryTypes
<1> QED
  BY <1>1 DEF Plan

LEMMA TypesRestore ==
  ASSUME Inv, NEW c \in Command, RestoreStep(c)
  PROVE  Types'
<1> USE DEF Types
<1>0. Types
  BY DEF Inv
<1>1. CASE ClearFaults(c)
  <2>1. PICK w : rules' = rules \ ListFaults(w) /\ plan' = [plan EXCEPT ![c].clear = @ \ {w}]
    BY <1>1 DEF ClearFaults
  <2>2. PlatformTypes'
    BY <1>0, <1>1, <2>1, FewerRules DEF ClearFaults, PlatformTypes
  <2>3. MemoryTypes'
    BY <1>0, <1>1, <2>1, PlanFacts, PlanChangeTypes DEF ClearFaults
  <2> QED
    BY <1>0, <1>1, <2>2, <2>3, ScenarioStays, FilesStay, PlacesStay DEF ClearFaults
<1>2. CASE RestoreReplicas(c)
  <2>1. PICK w \in plan[c].scale : /\ w \in Workload /\ SetReplicas(w, Baseline[w]) /\ Baseline[w] \in Nat
                                   /\ plan' = [plan EXCEPT ![c].scale = @ \ {w}]
    BY <1>2, RestoredCount
  <2>2. PlatformTypes'
    BY <1>0, <2>1, SetReplicasTypes
  <2>3. MemoryTypes'
    BY <1>0, <1>2, <2>1, PlanFacts, PlanChangeTypes DEF RestoreReplicas
  <2> QED
    BY <1>0, <1>2, <2>2, <2>3, ScenarioStays, FilesStay, PlacesStay DEF RestoreReplicas
<1>3. CASE WaitAvailable(c)
  <2>1. PICK w : plan' = [plan EXCEPT ![c].wait = @ \ {w}]
    BY <1>3 DEF WaitAvailable
  <2>2. MemoryTypes'
    BY <1>0, <1>3, <2>1, PlanFacts, PlanChangeTypes DEF WaitAvailable
  <2> QED
    BY <1>0, <1>3, <2>2, PlatformStays, ScenarioStays, FilesStay, PlacesStay DEF WaitAvailable
<1>4. CASE RestoreRaises(c)
  <2>1. MemoryTypes'
    <3>1. CASE record' = [record EXCEPT ![c].status = "ended"]
      BY <1>0, <1>4, <3>1, RecordFacts, RecordChangeTypes DEF RestoreRaises
    <3>2. CASE UNCHANGED record
      BY <1>0, <1>4, <3>2, MemoryStays DEF RestoreRaises
    <3> QED
      BY <1>4, <3>1, <3>2 DEF RestoreRaises
  <2>2. Places'
    <3>1. CASE pc[c] = "bodyRestore"
      <4>1. Goto(c, "finally") /\ c \in Run
        BY <1>0, <1>4, <3>1 DEF RestoreRaises, Command, Places, ResetPlace, VerifyPlace, Ended
      <4> QED
        BY <1>0, <4>1, GotoPlace, KindsDiffer DEF Place, RunPlace, Closing
    <3>2. CASE pc[c] # "bodyRestore"
      BY <1>0, <1>4, <3>2, GotoPlace DEF RestoreRaises, Place, RunPlace, ResetPlace, VerifyPlace, Ended
    <3> QED
      BY <3>1, <3>2
  <2> QED
    BY <1>0, <1>4, <2>1, <2>2, PlatformStays, ScenarioStays, FilesStay DEF RestoreRaises
<1>5. CASE RestoreDone(c)
  <2>1. MemoryTypes'
    <3>1. CASE record' = [record EXCEPT ![c].restored = TRUE]
      BY <1>0, <1>5, <3>1, RecordFacts, RecordChangeTypes DEF RestoreDone
    <3>2. CASE UNCHANGED record
      BY <1>0, <1>5, <3>2, MemoryStays DEF RestoreDone
    <3> QED
      BY <1>5, <3>1, <3>2 DEF RestoreDone
  <2>2. Places'
    <3>1. CASE pc[c] = "recoverRestore"
      <4>1. Goto(c, "recoveredSave") /\ c \notin Verify
        BY <1>0, <1>5, <3>1 DEF RestoreDone, Places, VerifyPlace, Ended
      <4> QED
        BY <1>0, <4>1, GotoPlace DEF Place, RunPlace, Starting, ResetPlace
    <3>2. CASE pc[c] \in {"bodyRestore", "finallyRestore"}
      <4>1. c \in Run
        BY <1>0, <3>2 DEF Command, Places, ResetPlace, VerifyPlace, Ended
      <4>2. Goto(c, "checks") \/ Goto(c, "finalSave")
        BY <1>5, <3>2 DEF RestoreDone
      <4> QED
        BY <1>0, <4>1, <4>2, GotoPlace, KindsDiffer DEF Place, RunPlace, Closing
    <3>3. CASE pc[c] = "resetClear"
      <4>1. c \in Reset
        BY <1>0, <3>3 DEF Command, Places, RunPlace, Starting, Changing, Closing, VerifyPlace, Ended
      <4>2. Goto(c, "resetBreakers")
        BY <1>5, <3>3 DEF RestoreDone
      <4> QED
        BY <1>0, <4>1, <4>2, GotoPlace, KindsDiffer DEF Place, ResetPlace
    <3> QED
      BY <1>5, <3>1, <3>2, <3>3 DEF RestoreDone, Restoring
  <2> QED
    BY <1>0, <1>5, <2>1, <2>2, PlatformStays, ScenarioStays, FilesStay DEF RestoreDone
<1> QED
  BY <1>1, <1>2, <1>3, <1>4, <1>5 DEF RestoreStep
LEMMA TypesTask ==
  ASSUME Inv, NEW c \in Run, NEW i \in DOMAIN task[c], ActionStep(c, i)
  PROVE  Types'
<1> USE DEF Types
<1>0. Types /\ c \in Command
  BY KindsDiffer DEF Inv
<1>a. i \in 1..Len(scenario[c].actions) /\ task[c][i] \in Task
  BY <1>0, TaskFacts
<1>b. /\ Actions(c)[i].action \in {"scale", "rollout-restart", "delete-pod"}
      /\ Actions(c)[i].workload \in Workload
      /\ Actions(c)[i].action = "scale" => Actions(c)[i].replicas \in Nat
      /\ Actions(c)[i].restoreAfter => Actions(c)[i].action = "scale"
  BY <1>0, <1>a, ActionFacts
<1>t. ASSUME NEW s \in {"waiting", "read", "journaled", "applied", "done"}, SetTask(c, i, s),
             UNCHANGED <<scenario, record, queue, subject, plan, fault, targets>>
      PROVE  MemoryTypes'
  <2>1. PICK t \in Task : task' = [task EXCEPT ![c] = [@ EXCEPT ![i] = t]]
    BY <1>0, <1>t, SetTaskIs
  <2> QED
    BY <1>0, <1>t, <2>1, SetTaskTypes
<1>1. CASE ReadWorkload(c, i)
  <2> DEFINE t == [state |-> "read", original |-> replicas[Actions(c)[i].workload]]
  <2>1. replicas[Actions(c)[i].workload] \in Nat
    BY <1>0, <1>b DEF PlatformTypes
  <2>2. t \in Task
    BY <2>1 DEF Task
  <2>3. task' = [task EXCEPT ![c] = [@ EXCEPT ![i] = t]]
    BY <1>0, <1>1 DEF ReadWorkload, MemoryTypes
  <2>4. MemoryTypes'
    <3>1. UNCHANGED <<scenario, record, queue, subject, plan, fault, targets>>
      BY <1>1 DEF ReadWorkload
    <3>2. MemoryTypes
      BY <1>0
    <3> HIDE DEF t, Types
    <3> QED
      BY <1>0, <2>2, <2>3, <3>1, <3>2, SetTaskTypes
  <2> QED
    BY <1>0, <1>1, <2>4, PlatformStays, ScenarioStays, FilesStay, PlacesStay DEF ReadWorkload
<1>2. CASE JournalAction(c, i)
  <2> DEFINE e == [kind |-> Actions(c)[i].action, workload |-> Actions(c)[i].workload, detail |-> task[c][i].original]
  <2>1. e \in Entry
    <3>1. task[c][i].original \in Nat
      BY <1>a DEF Task
    <3> QED
      BY <1>b, <3>1 DEF Entry
  <2>2. Journal(c, e.kind, e.workload, e.detail)
    BY <1>2 DEF JournalAction
  <2>3. FileTypes'
    <3>1. UNCHANGED <<disk, lock>>
      BY <1>2 DEF JournalAction
    <3> HIDE DEF e
    <3> QED
      BY <1>0, <2>1, <2>2, <3>1, JournalTypes
  <2>4. MemoryTypes'
    BY <1>2, <1>t DEF JournalAction
  <2> QED
    BY <1>0, <1>2, <2>3, <2>4, PlatformStays, ScenarioStays, PlacesStay DEF JournalAction
<1>3. CASE ChangeWorkload(c, i)
  <2>1. PlatformTypes'
    <3>1. CASE Actions(c)[i].action = "scale" /\ SetReplicas(Actions(c)[i].workload, Actions(c)[i].replicas)
      BY <1>0, <1>b, <3>1, SetReplicasTypes
    <3>2. CASE settled' = [settled EXCEPT ![Actions(c)[i].workload] = FALSE] /\ UNCHANGED <<replicas, rules, breakersOpen>>
      BY <1>0, <3>2, FewerRules DEF PlatformTypes
    <3> QED
      BY <1>3, <3>1, <3>2 DEF ChangeWorkload
  <2>2. MemoryTypes'
    BY <1>3, <1>t DEF ChangeWorkload
  <2> QED
    BY <1>0, <1>3, <2>1, <2>2, ScenarioStays, FilesStay, PlacesStay DEF ChangeWorkload
<1>4. CASE RestoreAfter(c, i)
  <2>1. task[c][i].original \in Nat
    BY <1>a DEF Task
  <2>2. PlatformTypes'
    BY <1>0, <1>4, <1>b, <2>1, SetReplicasTypes DEF RestoreAfter
  <2>3. MemoryTypes'
    BY <1>4, <1>t DEF RestoreAfter
  <2> QED
    BY <1>0, <1>4, <2>2, <2>3, ScenarioStays, FilesStay, PlacesStay DEF RestoreAfter
<1>5. CASE ActionFails(c, i)
  <2>1. MemoryTypes'
    BY <1>5, <1>t DEF ActionFails
  <2> QED
    BY <1>0, <1>5, <2>1, PlatformStays, ScenarioStays, FilesStay, PlacesStay DEF ActionFails
<1> QED
  BY <1>1, <1>2, <1>3, <1>4, <1>5 DEF ActionStep

LEMMA TypesRun ==
  ASSUME Inv, NEW c \in Run, RunStep(c)
  PROVE  Types'
<1> USE DEF Types
<1>0. Types /\ c \in Command
  BY KindsDiffer DEF Inv
<1>g. ASSUME NEW l \in RunPlace, Goto(c, l) PROVE Places'
  BY <1>0, <1>g, GotoPlace, KindsDiffer DEF Place
<1> USE DEF RunPlace, Starting, Changing, Closing, Ended
<1>1. CASE Acquire(c)
  <2>1. lock' \in Run \cup {None} /\ Places'
    BY <1>0, <1>1, <1>g DEF Acquire, FileTypes
  <2>2. FileTypes'
    BY <1>0, <1>1, <2>1 DEF Acquire, FileTypes, files
  <2> QED
    BY <1>0, <1>1, <2>1, <2>2, PlatformStays, ScenarioStays, MemoryStays DEF Acquire, work
<1>2. CASE Preflight(c)
  <2>1. Places'
    BY <1>2, <1>g DEF Preflight
  <2>2. MemoryTypes'
    <3>1. CASE UNCHANGED record
      BY <1>0, <1>2, <3>1, MemoryStays DEF Preflight
    <3>2. CASE record' = [record EXCEPT ![c] = [restored |-> TRUE, status |-> "ended"]]
      BY <1>0, <1>2, <3>2, RecordFacts, RecordChangeTypes DEF Preflight
    <3> QED
      BY <1>2, <3>1, <3>2 DEF Preflight
  <2> QED
    BY <1>0, <1>2, <2>1, <2>2, PlatformStays, ScenarioStays, FilesStay DEF Preflight
<1>3. CASE NextFault(c)
  <2> DEFINE w == Faults(c)[fault[c] + 1].service
  <2>1. w \in Workload
    <3>1. fault[c] + 1 \in 1..Len(Faults(c))
      BY <1>0, <1>3 DEF NextFault, MemoryTypes, ScenarioTypes, Faults
    <3> QED
      BY <1>0, <3>1, FaultFacts
  <2>2. ReadyPods(w) \subseteq Workload \X Nat
    BY <1>0, <2>1, RunningPodsAre
  <2>3. PICK T \in SUBSET ReadyPods(w) : targets' = [targets EXCEPT ![c] = T]
    <3>1. ReadyPods(w) # {}
      BY <1>3 DEF NextFault
    <3>2. (CHOOSE p \in ReadyPods(w) : TRUE) \in ReadyPods(w)
      BY <3>1
    <3> QED
      BY <1>3, <3>2 DEF NextFault
  <2>4. MemoryTypes'
    <3>1. targets' \in [Command -> SUBSET (Workload \X Nat)]
      BY <1>0, <2>2, <2>3 DEF MemoryTypes
    <3> QED
      BY <1>0, <1>3, <3>1 DEF NextFault, MemoryTypes
  <2> QED
    BY <1>0, <1>3, <2>4, PlatformStays, ScenarioStays, FilesStay, PlacesStay DEF NextFault
<1>4. CASE JournalFault(c)
  <2>1. PICK p \in targets[c] : Journal(c, "fault", p[1], p[2])
    BY <1>4 DEF JournalFault
  <2> DEFINE e == [kind |-> "fault", workload |-> p[1], detail |-> p[2]]
  <2>2. e \in Entry
    BY <1>0 DEF MemoryTypes, Entry
  <2>3. FileTypes'
    <3>1. UNCHANGED <<disk, lock>> /\ Journal(c, e.kind, e.workload, e.detail)
      BY <1>4, <2>1 DEF JournalFault
    <3> HIDE DEF e
    <3> QED
      BY <1>0, <2>2, <3>1, JournalTypes
  <2>4. Places'
    BY <1>4, <1>g DEF JournalFault
  <2> QED
    BY <1>0, <1>4, <2>3, <2>4, PlatformStays, ScenarioStays, MemoryStays DEF JournalFault, work
<1>5. CASE PutFault(c)
  <2> DEFINE last == journal[c][Len(journal[c])]
             pod == <<last.workload, last.detail>>
  <2>1. pod \in Running
    BY <1>5, FaultedPod DEF PutFault
  <2>2. rules' = rules \cup {ToRule(Faults(c)[fault[c]], c, pod)} /\ targets' = [targets EXCEPT ![c] = @ \ {pod}]
    BY <1>5 DEF PutFault
  <2>3. ToRule(Faults(c)[fault[c]], c, pod).pod = pod
    BY DEF ToRule
  <2>4. PlatformTypes'
    <3> HIDE DEF pod
    <3>1. UNCHANGED <<replicas, settled, breakersOpen>>
      BY <1>5 DEF PutFault
    <3>2. \A r \in rules' : r.pod \in Running
      BY <1>0, <2>1, <2>2, <2>3 DEF PlatformTypes
    <3> QED
      BY <1>0, <3>1, <3>2 DEF PlatformTypes, Running, RunningPods
  <2>5. MemoryTypes'
    BY <1>0, <1>5, <2>2 DEF PutFault, MemoryTypes
  <2>6. Places'
    BY <1>5, <1>g DEF PutFault
  <2> QED
    BY <1>0, <1>5, <2>4, <2>5, <2>6, ScenarioStays, FilesStay DEF PutFault
<1>6. CASE StartTraffic(c) \/ Drained(c)
  <2>1. Places'
    BY <1>6, <1>g DEF StartTraffic, Drained
  <2> QED
    BY <1>0, <1>6, <2>1, PlatformStays, ScenarioStays, FilesStay, MemoryStays DEF StartTraffic, Drained, work
<1>7. CASE EndTraffic(c)
  <2>1. RestorePlan(journal[c]) \in Plan
    BY <1>0, PlanTypes DEF FileTypes
  <2>2. MemoryTypes'
    BY <1>0, <1>7, <2>1, PlanChangeTypes DEF EndTraffic
  <2>3. Places'
    BY <1>7, <1>g DEF EndTraffic
  <2>4. PlatformTypes'
    BY <1>0, <1>7, FewerRules DEF EndTraffic, PlatformTypes
  <2> QED
    BY <1>0, <1>7, <2>2, <2>3, <2>4, ScenarioStays, FilesStay DEF EndTraffic
<1>8. CASE Checks(c)
  <2>1. MemoryTypes'
    BY <1>0, <1>8, RecordFacts, RecordChangeTypes DEF Checks
  <2>2. Places'
    BY <1>8, <1>g DEF Checks
  <2> QED
    BY <1>0, <1>8, <2>1, <2>2, PlatformStays, ScenarioStays, FilesStay DEF Checks
<1>9. CASE Finally(c)
  <2>1. RestorePlan(journal[c]) \in Plan
    BY <1>0, PlanTypes DEF FileTypes
  <2>2. MemoryTypes'
    BY <1>0, <1>9, <2>1, PlanChangeTypes DEF Finally
  <2>3. Places'
    BY <1>9, <1>g DEF Finally
  <2> QED
    BY <1>0, <1>9, <2>2, <2>3, PlatformStays, ScenarioStays, FilesStay DEF Finally
<1>10. CASE \E i \in DOMAIN task[c] : ActionStep(c, i)
  BY <1>10, TypesTask
<1> QED
  BY <1>1, <1>2, <1>3, <1>4, <1>5, <1>6, <1>7, <1>8, <1>9, <1>10 DEF RunStep
\* What is neither a step of a restore plan nor of a run by itself.
OtherStep(c) ==
    \/ Start(c) \/ LoadInterrupted(c) \/ Recover(c) \/ CloseBreakers(c)
    \/ Truncate(c) \/ WriteRecovered(c) \/ WriteOwn(c) \/ Exit(c) \/ Crash(c)
    \/ c \in Reset /\ ForceRelease(c)
    \/ c \in Verify /\ LoadForVerify(c)
    \/ c \in Run /\ BodyFails(c)

LEMMA TypesOther ==
  ASSUME Inv, NEW c \in Command, OtherStep(c)
  PROVE  Types'
<1> USE DEF Types
<1>0. Types
  BY DEF Inv
<1>g. ASSUME NEW l \in Place, Goto(c, l),
             c \in Run => l \in RunPlace, c \in Reset => l \in ResetPlace, c \in Verify => l \in VerifyPlace
      PROVE  Places'
  BY <1>0, <1>g, GotoPlace
<1>k. /\ c \in Run => pc[c] \in RunPlace
      /\ c \in Reset => pc[c] \in ResetPlace
      /\ c \in Verify => pc[c] \in VerifyPlace
  BY <1>0 DEF Places
<1> USE DEF RunPlace, ResetPlace, VerifyPlace, Place, Starting, Changing, Closing, Ended
<1>1. CASE Start(c)
  <2>1. Places'
    BY <1>1, <1>g, KindsDiffer DEF Start, Command
  <2> QED
    BY <1>0, <1>1, <2>1, PlatformStays, ScenarioStays, FilesStay, MemoryStays DEF Start, work
<1>2. CASE LoadInterrupted(c)
  <2>1. Places'
    BY <1>2, <1>g, <1>k DEF LoadInterrupted
  <2>2. queue' \in [Command -> SUBSET Run]
    <3>1. CASE UNCHANGED queue
      BY <1>0, <3>1 DEF MemoryTypes
    <3>2. CASE queue' = [queue EXCEPT ![c] = {d \in Run : Unrestored(d)}]
      BY <1>0, <3>2 DEF MemoryTypes
    <3> QED
      BY <1>2, <3>1, <3>2 DEF LoadInterrupted
  <2>3. MemoryTypes'
    BY <1>0, <1>2, <2>2 DEF LoadInterrupted, MemoryTypes
  <2> QED
    BY <1>0, <1>2, <2>1, <2>3, PlatformStays, ScenarioStays, FilesStay DEF LoadInterrupted
<1>3. CASE Recover(c)
  <2>1. Places'
    BY <1>3, <1>g, <1>k, KindsDiffer DEF Recover, Command
  <2>2. PICK d \in Command, p \in Plan : subject' = [subject EXCEPT ![c] = d] /\ plan' = [plan EXCEPT ![c] = p]
    <3>1. ASSUME NEW d \in queue[c], subject' = [subject EXCEPT ![c] = d],
                 plan' = [plan EXCEPT ![c] = RestorePlan(journal[d])]
          PROVE  \E e \in Command, p \in Plan : subject' = [subject EXCEPT ![c] = e] /\ plan' = [plan EXCEPT ![c] = p]
      <4>1. d \in Run
        BY <1>0 DEF MemoryTypes
      <4>2. RestorePlan(journal[d]) \in Plan
        BY <1>0, <4>1, PlanTypes DEF FileTypes
      <4> QED
        BY <3>1, <4>1, <4>2, KindsDiffer
    <3>2. NoPlan \in Plan /\ [NoPlan EXCEPT !.clear = Workload] \in Plan
      BY DEF NoPlan, Plan
    <3> QED
      BY <1>3, <3>1, <3>2 DEF Recover
  <2>3. subject' \in [Command -> Command] /\ plan' \in [Command -> Plan]
    BY <1>0, <2>2 DEF MemoryTypes
  <2>4. MemoryTypes'
    BY <1>0, <1>3, <2>3 DEF Recover, MemoryTypes
  <2> QED
    BY <1>0, <1>3, <2>1, <2>4, PlatformStays, ScenarioStays, FilesStay DEF Recover
<1>4. CASE CloseBreakers(c)
  <2>1. Places'
    BY <1>4, <1>g, <1>k, KindsDiffer DEF CloseBreakers, Command
  <2>2. PlatformTypes'
    BY <1>0, <1>4, FewerRules DEF CloseBreakers, PlatformTypes
  <2> QED
    BY <1>0, <1>4, <2>1, <2>2, ScenarioStays, FilesStay, MemoryStays DEF CloseBreakers, work
<1>5. CASE Truncate(c)
  <2>1. Places'
    BY <1>5, <1>g, <1>k DEF Truncate, WriteOf
  <2>2. disk' \in [Run -> File]
    BY <1>0, <1>5 DEF Truncate, FileTypes, File
  <2>3. FileTypes'
    BY <1>0, <1>5, <2>2 DEF Truncate, FileTypes
  <2> QED
    BY <1>0, <1>5, <2>1, <2>3, PlatformStays, ScenarioStays, MemoryStays DEF Truncate, work
<1>6. CASE WriteRecovered(c)
  <2>1. Places'
    BY <1>6, <1>g, <1>k DEF WriteRecovered
  <2>2. disk' \in [Run -> File]
    <3>1. [file |-> "whole", restored |-> TRUE, status |-> "ended"] \in File
      BY DEF File, Statuses
    <3> QED
      BY <1>0, <1>6, <3>1 DEF WriteRecovered, FileTypes
  <2>3. FileTypes'
    BY <1>0, <1>6, <2>2 DEF WriteRecovered, FileTypes
  <2>4. MemoryTypes'
    BY <1>0, <1>6 DEF WriteRecovered, MemoryTypes
  <2> QED
    BY <1>0, <1>6, <2>1, <2>3, <2>4, PlatformStays, ScenarioStays DEF WriteRecovered
<1>7. CASE WriteOwn(c)
  <2>1. Places'
    BY <1>7, <1>g, <1>k DEF WriteOwn
  <2>2. disk' \in [Run -> File]
    <3>1. record[c] \in Record
      BY <1>0 DEF MemoryTypes
    <3>2. [file |-> "whole", restored |-> record[c].restored, status |-> record[c].status] \in File
      BY <3>1 DEF File, Record
    <3> QED
      BY <1>0, <1>7, <3>2 DEF WriteOwn, FileTypes
  <2>3. FileTypes'
    BY <1>0, <1>7, <2>2 DEF WriteOwn, FileTypes
  <2> QED
    BY <1>0, <1>7, <2>1, <2>3, PlatformStays, ScenarioStays, MemoryStays DEF WriteOwn, work
<1>8. CASE Exit(c) \/ Crash(c)
  <2>1. Places'
    BY <1>8, <1>g DEF Exit, Crash
  <2>2. MemoryTypes'
    BY <1>0, <1>8, ForgetTypes DEF Exit, Crash
  <2>3. FileTypes'
    BY <1>0, <1>8 DEF Exit, Crash, FileTypes, files
  <2>4. UNCHANGED scenario
    BY <1>8 DEF Exit, Crash, Forget
  <2> QED
    BY <1>0, <1>8, <2>1, <2>2, <2>3, <2>4, PlatformStays, ScenarioStays DEF Exit, Crash
<1>9. CASE c \in Reset /\ ForceRelease(c)
  <2>1. Places'
    BY <1>9, <1>g, KindsDiffer DEF ForceRelease
  <2>2. FileTypes'
    BY <1>0, <1>9 DEF ForceRelease, FileTypes, files
  <2> QED
    BY <1>0, <1>9, <2>1, <2>2, PlatformStays, ScenarioStays, MemoryStays DEF ForceRelease, work
<1>10. CASE c \in Verify /\ LoadForVerify(c)
  <2>1. Places'
    BY <1>10, <1>g, KindsDiffer DEF LoadForVerify
  <2>2. MemoryTypes'
    <3>1. CASE UNCHANGED <<subject, record>>
      BY <1>0, <1>10, <3>1, MemoryStays DEF LoadForVerify
    <3>2. ASSUME NEW d \in Run, subject' = [subject EXCEPT ![c] = d],
                 record' = [record EXCEPT ![c] = [restored |-> disk[d].restored, status |-> "ended"]]
          PROVE  MemoryTypes'
      <4>1. disk[d].restored \in BOOLEAN
        BY <1>0 DEF FileTypes, File
      <4>2. record' \in [Command -> Record]
        BY <1>0, <3>2, <4>1, RecordFacts DEF MemoryTypes
      <4>3. subject' \in [Command -> Command]
        BY <1>0, <3>2, KindsDiffer DEF MemoryTypes
      <4> QED
        BY <1>0, <1>10, <4>2, <4>3 DEF LoadForVerify, MemoryTypes
    <3> QED
      BY <1>10, <3>1, <3>2 DEF LoadForVerify
  <2> QED
    BY <1>0, <1>10, <2>1, <2>2, PlatformStays, ScenarioStays, FilesStay DEF LoadForVerify
<1>11. CASE c \in Run /\ BodyFails(c)
  <2>1. Places'
    BY <1>11, <1>g, KindsDiffer DEF BodyFails
  <2>2. MemoryTypes'
    BY <1>0, <1>11, RecordFacts, RecordChangeTypes DEF BodyFails
  <2> QED
    BY <1>0, <1>11, <2>1, <2>2, PlatformStays, ScenarioStays, FilesStay DEF BodyFails
<1> QED
  BY <1>1, <1>2, <1>3, <1>4, <1>5, <1>6, <1>7, <1>8, <1>9, <1>10, <1>11 DEF OtherStep

\* The steps of the system, by the part of the code that takes them.
LEMMA NextSteps ==
  ASSUME [Next]_vars
  PROVE  \/ \E c \in Command : OtherStep(c) \/ RestoreStep(c)
         \/ \E c \in Run : RunStep(c)
         \/ \E w \in Workload : Settle(w)
         \/ \E r \in rules : RuleGone(r)
         \/ LeaseExpires
         \/ UNCHANGED vars
<1>1. ASSUME NEW c \in Command, Start(c) \/ Step(c) \/ Crash(c)
      PROVE  \/ OtherStep(c)
             \/ RestoreStep(c) \/ (c \in Run /\ RunStep(c))
  BY <1>1 DEF Step, OtherStep
<1>2. ASSUME NEW c \in Run, BodyFails(c) PROVE OtherStep(c) /\ c \in Command
  BY <1>2, KindsDiffer DEF OtherStep
<1> QED
  BY <1>1, <1>2 DEF Next

LEMMA TypesStep == Inv /\ [Next]_vars => Types'
<1> SUFFICES ASSUME Inv, [Next]_vars PROVE Types'
  OBVIOUS
<1>0. Types
  BY DEF Inv
<1>1. ASSUME NEW c \in Command, OtherStep(c) PROVE Types'
  BY <1>1, TypesOther
<1>7. ASSUME NEW c \in Command, RestoreStep(c) PROVE Types'
  BY <1>7, TypesRestore
<1>2. ASSUME NEW c \in Run, RunStep(c) PROVE Types'
  BY <1>2, TypesRun
<1>3. ASSUME NEW w \in Workload, Settle(w) PROVE Types'
  <2>1. PlatformTypes'
    BY <1>0, <1>3, FewerRules DEF Settle, PlatformTypes, Types
  <2> QED
    BY <1>0, <1>3, <2>1, ScenarioStays, FilesStay, PlacesStay, MemoryStays DEF Settle, Types, work
<1>4. ASSUME NEW r \in rules, RuleGone(r) PROVE Types'
  <2>1. PlatformTypes'
    BY <1>0, <1>4, FewerRules DEF RuleGone, PlatformTypes, Types
  <2> QED
    BY <1>0, <1>4, <2>1, ScenarioStays, FilesStay, PlacesStay, MemoryStays DEF RuleGone, Types, work
<1>5. CASE LeaseExpires
  <2>1. FileTypes'
    BY <1>0, <1>5 DEF LeaseExpires, FileTypes, files, Types
  <2> QED
    BY <1>0, <1>5, <2>1, PlatformStays, ScenarioStays, PlacesStay, MemoryStays DEF LeaseExpires, Types, work
<1>6. CASE UNCHANGED vars
  BY <1>0, <1>6, PlatformStays, ScenarioStays, FilesStay, PlacesStay, MemoryStays DEF vars, Types, work
<1>8. CASE \E c \in Command : OtherStep(c) \/ RestoreStep(c)
  BY <1>8, <1>1, <1>7
<1> QED
  BY <1>8, <1>2, <1>3, <1>4, <1>5, <1>6, NextSteps
-----------------------------------------------------------------------------
(* One command at a time works on the platform.                             *)

\* Only one run can hold the lock, and no reset goes on beside a run.
LEMMA OneWorker ==
  ASSUME Turns, NEW c \in Run \cup Reset, NEW d \in Run \cup Reset, Working(c), Working(d)
  PROVE  c = d
<1>1. Live(c) /\ Live(d)
  BY DEF Working, Live, Ended
<1>2. CASE c \in Run /\ d \in Run
  BY <1>2 DEF Turns
<1>3. CASE c \in Reset
  BY <1>1, <1>3 DEF Turns
<1>4. CASE d \in Reset
  BY <1>1, <1>4 DEF Turns
<1> QED
  BY <1>2, <1>3, <1>4

\* A step of a command that has its turn, and leaves the lock alone.
LEMMA TurnsKept ==
  ASSUME Turns, NEW c \in Command, UNCHANGED lock,
         \A d \in Command : d # c => pc'[d] = pc[d],
         Live(c), Working(c)' => Working(c)
  PROVE  Turns'
<1>1. \A d \in Run \cup Reset : Live(d)' => Live(d)
  BY DEF Live, Command
<1>2. \A d \in Run \cup Reset : Working(d)' => Working(d)
  BY DEF Working, Command
<1> QED
  BY <1>1, <1>2 DEF Turns

LEMMA GotoIs ==
  ASSUME Places, NEW c \in Command, NEW l, Goto(c, l)
  PROVE  pc'[c] = l /\ \A d \in Command : d # c => pc'[d] = pc[d]
  BY DEF Goto, Places

\* A step from a place of work.
LEMMA TurnsAtWork ==
  ASSUME Types, Turns, NEW c \in Command, UNCHANGED lock,
         (\E l : Goto(c, l)) \/ UNCHANGED pc,
         pc[c] \notin {"idle", "acquire"} \cup Ended
  PROVE  Turns'
<1>1. \A d \in Command : d # c => pc'[d] = pc[d]
  BY GotoIs DEF Types
<1>2. Live(c) /\ (Working(c)' => Working(c))
  BY DEF Live, Working, Ended
<1> QED
  BY <1>1, <1>2, TurnsKept

LEMMA TurnsStay == Turns /\ UNCHANGED <<lock, pc>> => Turns'
  BY DEF Turns, Live, Working

LEMMA TurnsOther ==
  ASSUME Inv, ResetBesideRun = FALSE, NEW c \in Command, OtherStep(c)
  PROVE  Turns'
<1>0. Types /\ Turns /\ Places
  BY DEF Inv, Types
<1>1. CASE Start(c)
  <2>1. PICK l : Goto(c, l) /\ l \in {"acquire", "reset", "verify"} /\ (c \in Run => l = "acquire")
    BY <1>1, KindsDiffer DEF Start
  <2>2. pc'[c] = l /\ \A d \in Command : d # c => pc'[d] = pc[d]
    BY <1>0, <2>1, GotoIs
  <2>3. \A d \in Run : Working(d)' => Working(d)
    BY <2>1, <2>2, KindsDiffer DEF Working
  <2>4. \A d \in Run \cup Reset : d # c => (Live(d)' <=> Live(d))
    BY <2>2 DEF Live, Command
  <2>5. c \in Run \cup Reset => \A d \in (Run \cup Reset) \ {c} : Live(d) => d \in Run /\ c \in Run
    BY <1>1, KindsDiffer DEF Start
  <2>6. ASSUME NEW a \in Reset, NEW d \in (Run \cup Reset) \ {a}, Live(a)' PROVE ~Live(d)'
    <3>1. CASE c = a
      BY <3>1, <2>4, <2>5, KindsDiffer
    <3>2. CASE c = d
      BY <3>2, <2>4, <2>5, <2>6, KindsDiffer
    <3>3. CASE c # a /\ c # d
      BY <1>0, <3>3, <2>4, <2>6 DEF Turns
    <3> QED
      BY <3>1, <3>2, <3>3
  <2>7. UNCHANGED lock
    BY <1>1 DEF Start
  <2> QED
    BY <1>0, <2>3, <2>6, <2>7 DEF Turns
<1>2. CASE LoadInterrupted(c)
  BY <1>0, <1>2, TurnsAtWork DEF LoadInterrupted, Ended
<1>3. CASE Recover(c)
  BY <1>0, <1>3, TurnsAtWork DEF Recover, Ended
<1>4. CASE CloseBreakers(c)
  BY <1>0, <1>4, TurnsAtWork DEF CloseBreakers, Ended
<1>5. CASE Truncate(c)
  BY <1>0, <1>5, TurnsAtWork DEF Truncate, WriteOf, Ended
<1>6. CASE WriteRecovered(c)
  BY <1>0, <1>6, TurnsAtWork DEF WriteRecovered, Ended
<1>7. CASE WriteOwn(c)
  BY <1>0, <1>7, TurnsAtWork DEF WriteOwn, Ended
<1>8. CASE Exit(c)
  <2>1. pc'[c] = "end" /\ \A d \in Command : d # c => pc'[d] = pc[d]
    BY <1>0, <1>8, GotoIs DEF Exit
  <2>2. \A d \in Run \cup Reset : (Live(d)' => Live(d)) /\ (Working(d)' => Working(d) /\ d # c)
    BY <2>1 DEF Live, Working, Command, Ended
  <2>3. \A d \in Run : Working(d)' => lock' = d
    BY <1>0, <1>8, <2>2 DEF Exit, Turns
  <2> QED
    BY <1>0, <2>2, <2>3 DEF Turns
<1>9. CASE Crash(c)
  <2>1. pc'[c] = "dead" /\ \A d \in Command : d # c => pc'[d] = pc[d]
    BY <1>0, <1>9, GotoIs DEF Crash
  <2>2. Live(c) /\ UNCHANGED lock /\ ~Working(c)'
    BY <1>9, <2>1 DEF Crash, Working, Ended
  <2> QED
    BY <1>0, <2>1, <2>2, TurnsKept
<1>10. CASE c \in Reset /\ ForceRelease(c)
  <2>1. pc'[c] = "load" /\ \A d \in Command : d # c => pc'[d] = pc[d]
    BY <1>0, <1>10, GotoIs DEF ForceRelease
  <2>2. Live(c) /\ Working(c)
    BY <1>10 DEF ForceRelease, Live, Working, Ended
  <2>3. \A d \in Run : ~Working(d)'
    <3>1. \A d \in Run : ~Live(d)
      BY <1>0, <1>10, <2>2, KindsDiffer DEF Turns
    <3> QED
      BY <3>1, <2>1, <1>10, KindsDiffer DEF Working, Live, Ended
  <2>4. \A d \in Run \cup Reset : Live(d)' => Live(d)
    BY <2>1, <2>2 DEF Live, Command
  <2> QED
    BY <1>0, <2>3, <2>4 DEF Turns
<1>11. CASE c \in Verify /\ LoadForVerify(c)
  BY <1>0, <1>11, TurnsAtWork DEF LoadForVerify, Ended
<1>12. CASE c \in Run /\ BodyFails(c)
  BY <1>0, <1>12, TurnsAtWork DEF BodyFails, Body, Ended
<1> QED
  BY <1>1, <1>2, <1>3, <1>4, <1>5, <1>6, <1>7, <1>8, <1>9, <1>10, <1>11, <1>12 DEF OtherStep

LEMMA TurnsStep ==
  ASSUME Inv, ResetBesideRun = FALSE, [Next]_vars
  PROVE  Turns'
<1>0. Types /\ Turns /\ Places
  BY DEF Inv, Types
<1>1. ASSUME NEW c \in Command, OtherStep(c) PROVE Turns'
  BY <1>1, TurnsOther
<1>2. ASSUME NEW c \in Command, RestoreStep(c) PROVE Turns'
  BY <1>0, <1>2, TurnsAtWork
     DEF RestoreStep, ClearFaults, RestoreReplicas, WaitAvailable, RestoreRaises, RestoreDone, Restoring, Ended
<1>3. ASSUME NEW c \in Run, RunStep(c) PROVE Turns'
  <2>0. c \in Command
    BY KindsDiffer
  <2>1. CASE Acquire(c)
    <3>1. \A d \in Command : d # c => pc'[d] = pc[d]
      BY <1>0, <2>0, <2>1, GotoIs DEF Acquire
    <3>2. Live(c) /\ pc[c] = "acquire" /\ ~Working(c)
      BY <2>1 DEF Acquire, Live, Working
    <3>3. CASE UNCHANGED lock /\ Goto(c, "exit")
      <4>1. ~Working(c)'
        BY <1>0, <2>0, <3>3, GotoIs DEF Working, Ended
      <4> QED
        BY <1>0, <2>0, <3>1, <3>2, <3>3, <4>1, TurnsKept
    <3>4. CASE lock = None /\ lock' = c
      <4>1. \A d \in Run : Working(d)' => d = c
        BY <1>0, <3>1, <3>4, KindsDiffer DEF Turns, Working
      <4>2. \A d \in Run \cup Reset : Live(d)' => Live(d)
        BY <3>1, <3>2 DEF Live, Command
      <4> QED
        BY <1>0, <3>4, <4>1, <4>2 DEF Turns
    <3> QED
      BY <2>1, <3>3, <3>4 DEF Acquire
  <2>2. CASE \E i \in DOMAIN task[c] : ActionStep(c, i)
    BY <1>0, <2>0, <2>2, TurnsAtWork
       DEF ActionStep, ReadWorkload, JournalAction, ChangeWorkload, RestoreAfter, ActionFails, Ended
  <2>3. CASE Preflight(c) \/ Finally(c) \/ Checks(c) \/ Drained(c)
    BY <1>0, <2>0, <2>3, TurnsAtWork DEF Preflight, Finally, Checks, Drained, Ended
  <2>4. CASE NextFault(c) \/ JournalFault(c) \/ PutFault(c) \/ StartTraffic(c) \/ EndTraffic(c)
    BY <1>0, <2>0, <2>4, TurnsAtWork DEF NextFault, JournalFault, PutFault, StartTraffic, EndTraffic, Ended
  <2> QED
    BY <1>3, <2>1, <2>2, <2>3, <2>4 DEF RunStep
<1>4. CASE \E w \in Workload : Settle(w)
  BY <1>0, <1>4, TurnsStay DEF Settle
<1>5. CASE \E r \in rules : RuleGone(r)
  BY <1>0, <1>5, TurnsStay DEF RuleGone
<1>6. CASE LeaseExpires
  <2>1. \A d \in Run : ~Working(d)
    BY <1>0, <1>6 DEF LeaseExpires, Turns, Working, Ended
  <2> QED
    BY <1>0, <1>6, <2>1 DEF LeaseExpires, Turns, Working, Live
<1>7. CASE UNCHANGED vars
  BY <1>0, <1>7, TurnsStay DEF vars
<1>8. CASE \E c \in Command : OtherStep(c) \/ RestoreStep(c)
  BY <1>8, <1>1, <1>2
<1> QED
  BY <1>3, <1>4, <1>5, <1>6, <1>7, <1>8, NextSteps
-----------------------------------------------------------------------------
(* What a step leaves alone.                                                *)

\* The variables of a command, its task excepted.
SameMemory(d) ==
    /\ pc'[d] = pc[d] /\ record'[d] = record[d] /\ queue'[d] = queue[d]
    /\ subject'[d] = subject[d] /\ plan'[d] = plan[d] /\ targets'[d] = targets[d]

Whole(d) == disk[d].file \in {"whole", "tornByVerify"}

\* No change is made to the platform, and no promise to undo one is lost.
Quiet ==
    /\ UNCHANGED <<replicas, journal>> /\ rules' \subseteq rules
    /\ \A e \in Run : (SaidUndone(e)' => SaidUndone(e)) /\ (Whole(e) => Whole(e)')

LEMMA QuietStanding ==
  ASSUME Quiet
  PROVE  \A e \in Run : Standing(e) => Standing(e)'
  BY DEF Quiet, Standing, Whole

LEMMA QuietUndone ==
  ASSUME Quiet, NEW D, D \subseteq Run, UndoneBy(D)
  PROVE  UndoneBy(D)'
<1>1. \A e \in Run : Standing(e) => Standing(e)'
  BY QuietStanding
<1>2. \A e \in Run : Scaled(e)' = Scaled(e) /\ Faulted(e)' = Faulted(e)
  BY DEF Quiet, Scaled, Faulted
<1> QED
  BY <1>1, <1>2 DEF Quiet, UndoneBy

LEMMA QuietLeft ==
  ASSUME Quiet, NEW c, NEW D, D \subseteq Run, LeftBy(c, D), plan'[c] = plan[c], subject'[c] = subject[c],
         subject[c] \in Run
  PROVE  LeftBy(c, D)'
<1>1. \A e \in Run : Standing(e) => Standing(e)'
  BY QuietStanding
<1>2. \A e \in Run : Scaled(e)' = Scaled(e) /\ Faulted(e)' = Faulted(e)
  BY DEF Quiet, Scaled, Faulted
<1> QED
  BY <1>1, <1>2 DEF Quiet, LeftBy

LEMMA QuietAsFound == Quiet /\ AsFound => AsFound'
  BY DEF Quiet, AsFound

\* A quiet step of another command.
LEMMA QuietHeld ==
  ASSUME Inv, Quiet, NEW d \in Run \cup Reset, SameMemory(d), UNCHANGED breakersOpen,
         d \in Run /\ disk[d].file = "absent" => disk'[d].file = "absent"
  PROVE  Held(d)'
<1>0. Held(d) /\ queue[d] \subseteq Run
  BY DEF Inv, Types, MemoryTypes, Command
<1>1. RecoveryAt(d)'
  <2>1. CASE pc[d] = "recover"
    <3>1. UndoneBy(queue[d])'
      BY <1>0, <2>1, QuietUndone DEF Held, RecoveryAt, SameMemory
    <3> QED
      BY <2>1, <3>1 DEF RecoveryAt, SameMemory
  <2>2. CASE pc[d] = "recoverRestore"
    <3>1. subject[d] \in queue[d] /\ LeftBy(d, queue[d])
      BY <1>0, <2>2 DEF Held, RecoveryAt
    <3>2. LeftBy(d, queue[d])'
      BY <1>0, <3>1, QuietLeft DEF SameMemory
    <3> QED
      BY <2>2, <3>1, <3>2 DEF RecoveryAt, SameMemory, LeftBy
  <2>3. CASE pc[d] \in {"recoveredSave", "recoveredWrite"}
    <3>1. subject[d] \in queue[d] /\ UndoneBy(queue[d] \ {subject[d]})
      BY <1>0, <2>3 DEF Held, RecoveryAt
    <3>2. UndoneBy(queue[d] \ {subject[d]})'
      BY <1>0, <3>1, QuietUndone DEF SameMemory
    <3> QED
      BY <2>3, <3>1, <3>2 DEF RecoveryAt, SameMemory
  <2> QED
    BY <2>1, <2>2, <2>3 DEF RecoveryAt, SameMemory
<1>2. ASSUME d \in Run PROVE RecordAt(d)' /\ PlatformAt(d)' /\ FaultsAt(d)'
  <2>0. RecordAt(d) /\ PlatformAt(d) /\ FaultsAt(d)
    BY <1>0, <1>2 DEF Held
  <2>1. RecordAt(d)'
    BY <1>2, <2>0, QuietStanding DEF RecordAt, SameMemory, Quiet
  <2>2. PlatformAt(d)'
    <3>1. UndoneBy({d}) => UndoneBy({d})'
      BY <1>2, QuietUndone
    <3>2. pc[d] \in {"bodyRestore", "finallyRestore"} => LeftBy(d, {d})'
      <4>1. pc[d] \in {"bodyRestore", "finallyRestore"} => subject[d] = d /\ LeftBy(d, {d})
        BY <2>0 DEF RecordAt, PlatformAt, Changing
      <4> QED
        BY <1>2, <4>1, QuietLeft DEF SameMemory
    <3> QED
      BY <2>0, <3>1, <3>2, QuietAsFound DEF PlatformAt, SameMemory
  <2>3. FaultsAt(d)'
    <3>1. Running' = Running
      BY DEF Quiet, Running, RunningPods
    <3> QED
      BY <2>0, <3>1 DEF FaultsAt, SameMemory, Quiet
  <2> QED
    BY <2>1, <2>2, <2>3
<1>3. ASSUME d \in Reset PROVE ResetAt(d)'
  BY <1>0, <1>3, QuietAsFound DEF Held, ResetAt, SameMemory
<1> QED
  BY <1>1, <1>2, <1>3 DEF Held

\* While a command works on the platform, the others have nothing to lose.
LEMMA IdleHeld ==
  ASSUME Inv, NEW d \in Run \cup Reset, ~Working(d), SameMemory(d),
         d \in Run /\ disk[d].file = "absent" => disk'[d].file = "absent"
  PROVE  Held(d)'
<1>0. Held(d)
  BY DEF Inv
<1>1. pc[d] \in {"idle", "acquire"} \cup Ended
  BY DEF Working
<1>2. RecoveryAt(d)' /\ PlatformAt(d)' /\ ResetAt(d)'
  BY <1>1 DEF SameMemory, RecoveryAt, PlatformAt, ResetAt, Ended
<1>3. d \in Run => RecordAt(d)'
  BY <1>0, <1>1 DEF Held, RecordAt, SameMemory, Ended, Starting, Changing, Closing
<1>4. d \in Run => FaultsAt(d)'
  BY <1>0, <1>1 DEF Held, FaultsAt, SameMemory, Ended, Starting
<1> QED
  BY <1>2, <1>3, <1>4 DEF Held

\* The records of commands that verify decide what is said to be undone.
LEMMA SaidSame ==
  ASSUME UNCHANGED disk,
         \A v \in Verify : pc'[v] = pc[v] /\ subject'[v] = subject[v] /\ record'[v] = record[v]
  PROVE  \A e \in Run : (SaidUndone(e)' <=> SaidUndone(e)) /\ (Standing(e)' <=> Standing(e)) /\ (Whole(e)' <=> Whole(e))
  BY DEF SaidUndone, Standing, Whole
-----------------------------------------------------------------------------
(* The invariant, step by step.                                             *)

\* What a step must keep besides Types and Turns.
Kept == Seen /\ UndoneBy(Run) /\ FirstCounts /\ (\A c \in Run : TasksOf(c)) /\ (\A c \in Run \cup Reset : Held(c))

LEMMA TasksKept ==
  ASSUME Inv, UNCHANGED <<journal, scenario>>,
         \A c \in Run : task'[c] = task[c] \/ (\A i \in DOMAIN task'[c] : task'[c][i].state \in {"waiting", "done"})
  PROVE  FirstCounts' /\ \A c \in Run : TasksOf(c)'
<1>1. \A d \in Run : Scaled(d)' = Scaled(d)
  BY DEF Scaled
<1>2. FirstCounts'
  BY <1>1 DEF Inv, FirstCounts, Scaled
<1>3. \A c \in Run : TasksOf(c)
  BY DEF Inv
<1>4. ASSUME NEW c \in Run PROVE TasksOf(c)'
  <2>1. CASE task'[c] = task[c]
    BY <1>1, <1>3, <2>1 DEF TasksOf, Actions
  <2>2. CASE \A i \in DOMAIN task'[c] : task'[c][i].state \in {"waiting", "done"}
    BY <2>2 DEF TasksOf
  <2> QED
    BY <2>1, <2>2
<1> QED
  BY <1>2, <1>4

LEMMA TasksForgotten ==
  ASSUME MemoryTypes, NEW c \in Command, Forget(c)
  PROVE  \A d \in Run : task'[d] = task[d] \/ (\A i \in DOMAIN task'[d] : task'[d][i].state \in {"waiting", "done"})
<1>1. task' = [task EXCEPT ![c] = [i \in DOMAIN task[c] |-> NewTask]]
  BY DEF Forget
<1> QED
  BY <1>1, KindsDiffer DEF MemoryTypes, NewTask

LEMMA SeenKept ==
  ASSUME Inv, \A d \in Run : disk[d].file # "absent" => disk'[d].file # "absent",
         \A d \in Run : disk'[d].file = "absent" => disk'[d].restored = disk[d].restored,
         \A c \in Command : queue'[c] \subseteq queue[c],
         \A v \in Verify : pc'[v] \in {"verifySave", "verifyWrite"} =>
             pc[v] \in {"verifySave", "verifyWrite"} /\ subject'[v] = subject[v]
  PROVE  Seen'
<1>1. Seen /\ \A c \in Command : queue[c] \subseteq Run
  BY DEF Inv, Types, MemoryTypes
<1> QED
  BY <1>1 DEF Seen

\* A quiet step of c, if c itself is where it should be.
LEMMA QuietKept ==
  ASSUME Inv, Quiet, UNCHANGED <<breakersOpen, scenario>>, NEW c \in Command,
         \A d \in Command : d # c => SameMemory(d),
         \A d \in Run : d # c /\ disk[d].file = "absent" => disk'[d].file = "absent",
         \A d \in Run : task'[d] = task[d] \/ (\A i \in DOMAIN task'[d] : task'[d][i].state \in {"waiting", "done"}),
         Seen', c \in Run \cup Reset => Held(c)'
  PROVE  Kept'
<1>1. UndoneBy(Run)'
  BY QuietUndone DEF Inv
<1>2. FirstCounts' /\ \A d \in Run : TasksOf(d)'
  BY TasksKept DEF Quiet
<1>3. \A d \in Run \cup Reset : d # c => Held(d)'
  BY QuietHeld DEF Command
<1> QED
  BY <1>1, <1>2, <1>3 DEF Kept

\* A step of the command that works on the platform.
LEMMA WorkKept ==
  ASSUME Inv, NEW c \in Run \cup Reset, Working(c), UNCHANGED scenario,
         \A d \in Command : d # c => SameMemory(d),
         \A d \in Run : d # c /\ disk[d].file = "absent" => disk'[d].file = "absent",
         FirstCounts', \A d \in Run : TasksOf(d)', UndoneBy(Run)',
         Seen', Held(c)'
  PROVE  Kept'
<1>1. \A d \in Run \cup Reset : d # c => ~Working(d)
  BY OneWorker DEF Inv
<1>2. \A d \in Run \cup Reset : d # c => Held(d)'
  BY <1>1, IdleHeld DEF Command
<1> QED
  BY <1>2 DEF Kept

\* The platform as it was found leaves nothing to undo, and the other way round.
LEMMA NothingToUndo ==
  ASSUME PlatformTypes, NEW D
  PROVE  /\ AsFound => UndoneBy(D)
         /\ UndoneBy({}) => AsFound
<1>1. AsFound => UndoneBy(D)
  BY DEF AsFound, UndoneBy
<1>2. UndoneBy({}) => AsFound
  <2>1. UndoneBy({}) => \A w \in Workload : replicas[w] = Baseline[w]
    BY DEF UndoneBy
  <2>2. replicas \in [Workload -> Nat] /\ Baseline \in [Workload -> Nat \ {0}]
    BY KindsAssumption DEF PlatformTypes
  <2>3. UndoneBy({}) => rules = {}
    BY DEF UndoneBy
  <2> QED
    BY <2>1, <2>2, <2>3 DEF AsFound
<1> QED
  BY <1>1, <1>2

LEMMA MoreUndo ==
  ASSUME NEW D, NEW E, D \subseteq E, UndoneBy(D)
  PROVE  UndoneBy(E)
  BY DEF UndoneBy
\* A step of one command leaves the memory of the others alone.
LEMMA Elsewhere ==
  ASSUME Types, NEW c \in Command, OtherStep(c) \/ RestoreStep(c) \/ RunStep(c)
  PROVE  \A d \in Command : d # c => SameMemory(d)
<1> USE DEF Types, MemoryTypes
<1>g. ASSUME \E l : Goto(c, l) PROVE \A d \in Command : d # c => pc'[d] = pc[d]
  BY <1>g, GotoIs
<1>f. ASSUME Forget(c), \E l : Goto(c, l) PROVE \A d \in Command : d # c => SameMemory(d)
  BY <1>f, <1>g DEF Forget, SameMemory
<1>1. CASE Start(c) \/ Truncate(c) \/ WriteOwn(c) \/ ForceRelease(c) \/ CloseBreakers(c)
  BY <1>1, <1>g DEF Start, Truncate, WriteOwn, ForceRelease, CloseBreakers, work, SameMemory
<1>2. CASE Recover(c)
  BY <1>2, <1>g DEF Recover, SameMemory
<1>3. CASE LoadInterrupted(c)
  <2>1. queue' = queue \/ queue' = [queue EXCEPT ![c] = {d \in Run : Unrestored(d)}]
    BY <1>3 DEF LoadInterrupted
  <2>2. \A d \in Command : d # c => pc'[d] = pc[d]
    BY <1>3, <1>g DEF LoadInterrupted
  <2> QED
    BY <1>3, <2>1, <2>2 DEF LoadInterrupted, SameMemory
<1>4. CASE WriteRecovered(c)
  BY <1>4, <1>g DEF WriteRecovered, SameMemory
<1>5. CASE Exit(c) \/ Crash(c)
  BY <1>5, <1>f DEF Exit, Crash
<1>6. CASE LoadForVerify(c)
  BY <1>6, <1>g DEF LoadForVerify, SameMemory
<1>7. CASE BodyFails(c)
  BY <1>7, <1>g DEF BodyFails, SameMemory
<1>8. CASE ClearFaults(c) \/ RestoreReplicas(c) \/ WaitAvailable(c)
  BY <1>8 DEF ClearFaults, RestoreReplicas, WaitAvailable, SameMemory
<1>9. CASE RestoreRaises(c)
  BY <1>9, <1>g DEF RestoreRaises, SameMemory
<1>10. CASE RestoreDone(c)
  <2>1. record' = record \/ record' = [record EXCEPT ![c].restored = TRUE]
    BY <1>10 DEF RestoreDone
  <2>2. \A d \in Command : d # c => pc'[d] = pc[d]
    BY <1>10, <1>g DEF RestoreDone
  <2> QED
    BY <1>10, <2>1, <2>2 DEF RestoreDone, SameMemory
<1>11. CASE Acquire(c) \/ JournalFault(c) \/ StartTraffic(c) \/ Drained(c)
  BY <1>11, <1>g DEF Acquire, JournalFault, StartTraffic, Drained, work, SameMemory
<1>12. CASE Preflight(c)
  BY <1>12, <1>g DEF Preflight, SameMemory
<1>13. CASE NextFault(c)
  BY <1>13 DEF NextFault, SameMemory
<1>14. CASE PutFault(c)
  BY <1>14, <1>g DEF PutFault, SameMemory
<1>15. CASE EndTraffic(c) \/ Finally(c)
  BY <1>15, <1>g DEF EndTraffic, Finally, SameMemory
<1>16. CASE Checks(c)
  BY <1>16, <1>g DEF Checks, SameMemory
<1>17. CASE \E i \in DOMAIN task[c] : ActionStep(c, i)
  BY <1>17 DEF ActionStep, ReadWorkload, JournalAction, ChangeWorkload, RestoreAfter, ActionFails, SameMemory
<1> QED
  BY <1>1, <1>2, <1>3, <1>4, <1>5, <1>6, <1>7, <1>8, <1>9, <1>10, <1>11, <1>12, <1>13, <1>14, <1>15, <1>16, <1>17
     DEF OtherStep, RestoreStep, RunStep

\* Steps that end a command, and steps before it does any work.
LEMMA KeptOutside ==
  ASSUME Inv, NEW c \in Command,
         Start(c) \/ Exit(c) \/ Crash(c) \/ (c \in Reset /\ ForceRelease(c))
  PROVE  Kept'
<1>0. Types /\ Places /\ MemoryTypes
  BY DEF Inv, Types
<1>1. \A d \in Command : d # c => SameMemory(d)
  BY <1>0, Elsewhere DEF OtherStep
<1>2. PICK l \in {"acquire", "reset", "verify", "load"} \cup Ended : Goto(c, l)
  BY DEF Start, Exit, Crash, ForceRelease, Ended
<1>3. pc'[c] = l /\ UNCHANGED <<platform, files, scenario>>
  BY <1>0, <1>2, GotoIs DEF Start, Exit, Crash, ForceRelease, Forget, work
<1>4. /\ \A v \in Verify : pc'[v] \in {"verifySave", "verifyWrite"} =>
           /\ pc[v] \in {"verifySave", "verifyWrite"} /\ subject'[v] = subject[v] /\ record'[v] = record[v]
  BY <1>1, <1>3, KindsDiffer DEF SameMemory, Ended
<1>5. Quiet
  BY <1>3, <1>4 DEF Quiet, SaidUndone, Whole, platform, files
<1>6. CASE Start(c) \/ ForceRelease(c)
  <2>1. record'[c] = record[c] /\ queue'[c] = queue[c] /\ task' = task /\ targets' = targets
    BY <1>6 DEF Start, ForceRelease, work
  <2>2. c \in Run => pc[c] = "idle" /\ l = "acquire"
    <3>1. c \in Run => Start(c) /\ pc[c] = "idle" /\ Goto(c, "acquire")
      BY <1>0, <1>6, KindsDiffer DEF Start, ForceRelease, Places, RunPlace, Starting, Changing, Closing, Ended
    <3> QED
      BY <1>0, <1>3, <3>1, GotoIs
  <2>3. c \in Run => RecordAt(c)' /\ FaultsAt(c)'
    <3>1. c \in Run => RecordAt(c) /\ FaultsAt(c)
      BY DEF Inv, Held
    <3> QED
      BY <2>1, <2>2, <3>1, <1>3 DEF RecordAt, FaultsAt, Starting, Changing, Closing, files
  <2>4. c \in Run \cup Reset => Held(c)'
    BY <1>3, <2>3, <2>2 DEF Held, RecoveryAt, PlatformAt, ResetAt, Ended
  <2>5. Seen'
    <3>1. \A d \in Command : queue'[d] \subseteq queue[d]
      BY <1>1, <2>1 DEF SameMemory
    <3> QED
      BY <1>3, <1>4, <3>1, SeenKept DEF files
  <2> QED
    BY <1>1, <1>3, <1>5, <2>1, <2>4, <2>5, QuietKept DEF platform, files
<1>7. CASE Exit(c) \/ Crash(c)
  <2>1. Forget(c) /\ l \in Ended
    BY <1>0, <1>3, <1>7, GotoIs DEF Exit, Crash, Ended
  <2>2. c \in Run \cup Reset => Held(c)'
    BY <1>3, <2>1 DEF Held, RecoveryAt, RecordAt, PlatformAt, FaultsAt, ResetAt, Starting, Changing, Closing, Ended
  <2>3. Seen'
    <3>1. \A d \in Command : queue'[d] \subseteq queue[d]
      BY <1>0, <1>1, <2>1 DEF SameMemory, Forget, MemoryTypes
    <3> QED
      BY <1>3, <1>4, <3>1, SeenKept DEF files
  <2> QED
    BY <1>0, <1>1, <1>3, <1>5, <2>1, <2>2, <2>3, TasksForgotten, QuietKept DEF platform, files
<1> QED
  BY <1>6, <1>7
\* Recovery: what an interrupted run left is in the queue until it is undone.
LEMMA KeptLoad ==
  ASSUME Inv, NEW c \in Command, LoadInterrupted(c)
  PROVE  Kept'
<1>0. Types /\ Places /\ MemoryTypes
  BY DEF Inv, Types
<1>a. c \in Run \cup Reset /\ pc[c] = "load"
  BY <1>0, KindsDiffer DEF LoadInterrupted, Places, VerifyPlace, Ended, Command
<1>1. \A d \in Command : d # c => SameMemory(d)
  BY <1>0, Elsewhere DEF OtherStep
<1>2. \A v \in Verify : v # c
  BY <1>a, KindsDiffer
<1>3. UNCHANGED <<platform, files, scenario, record, subject, plan, targets, task>>
  BY DEF LoadInterrupted
<1>4. Quiet
  BY <1>1, <1>2, <1>3, SaidSame, KindsDiffer DEF Quiet, SameMemory, platform, files
<1>b. Held(c)
  BY <1>a DEF Inv
<1>c. c \in Run => RecordAt(c) /\ FaultsAt(c)
  BY <1>b DEF Held
<1>5. CASE \E d \in Run : Torn(d)
  <2>1. pc'[c] = "exit" /\ UNCHANGED queue
    BY <1>0, <1>5, GotoIs DEF LoadInterrupted
  <2>2. Held(c)'
    BY <2>1 DEF Held, RecoveryAt, RecordAt, PlatformAt, FaultsAt, ResetAt, Starting, Changing, Closing
  <2>3. Seen'
    BY <1>1, <1>2, <1>3, <2>1, KindsDiffer, SeenKept DEF SameMemory, files
  <2> QED
    BY <1>1, <1>3, <1>4, <2>2, <2>3, QuietKept DEF platform, files
<1>6. CASE ~\E d \in Run : Torn(d)
  <2>1. pc'[c] = "recover" /\ queue'[c] = {d \in Run : Unrestored(d)}
    BY <1>0, <1>6, GotoIs DEF LoadInterrupted, MemoryTypes
  <2>2. \A d \in Run : Standing(d) => d \in queue'[c]
    BY <1>6, <2>1 DEF Standing, SaidUndone, Torn, Unrestored
  <2>3. UndoneBy(Run)'
    BY <1>4, QuietUndone DEF Inv
  <2>4. UndoneBy(queue[c])'
    <3>1. \A d \in Run : Standing(d)' => d \in queue'[c]
      BY <1>1, <1>2, <1>3, <2>2, SaidSame, KindsDiffer DEF SameMemory, files
    <3> QED
      BY <2>3, <3>1 DEF UndoneBy
  <2>5. c \in Run => RecordAt(c)' /\ FaultsAt(c)'
    BY <1>a, <1>c, <1>3, <2>1 DEF RecordAt, FaultsAt, Starting, Changing, Closing, files
  <2>6. Held(c)'
    BY <2>1, <2>4, <2>5 DEF Held, RecoveryAt, PlatformAt, ResetAt
  <2>7. Seen'
    <3>1. \A d \in queue'[c] : disk'[d].file # "absent"
      BY <1>3, <2>1 DEF Unrestored, files
    <3>2. Seen
      BY DEF Inv
    <3> QED
      BY <1>1, <1>2, <1>3, <3>1, <3>2, KindsDiffer DEF Seen, SameMemory, files
  <2> QED
    BY <1>1, <1>3, <1>4, <2>6, <2>7, QuietKept DEF platform, files
<1> QED
  BY <1>5, <1>6

LEMMA KeptRecover ==
  ASSUME Inv, NEW c \in Command, Recover(c)
  PROVE  Kept'
<1>0. Types /\ Places /\ MemoryTypes /\ PlatformTypes
  BY DEF Inv, Types
<1>a. c \in Run \cup Reset /\ pc[c] = "recover"
  BY <1>0, KindsDiffer DEF Recover, Places, VerifyPlace, Ended, Command
<1>1. \A d \in Command : d # c => SameMemory(d)
  BY <1>0, Elsewhere DEF OtherStep
<1>2. \A v \in Verify : v # c
  BY <1>a, KindsDiffer
<1>3. UNCHANGED <<platform, files, scenario, record, queue, targets, task>>
  BY DEF Recover
<1>4. Quiet /\ UndoneBy(queue[c]) /\ queue[c] \subseteq Run
  <2>1. Held(c)
    BY <1>a DEF Inv
  <2>2. UndoneBy(queue[c])
    BY <1>a, <2>1 DEF Held, RecoveryAt
  <2> QED
    BY <1>0, <1>1, <1>2, <1>3, <2>2, SaidSame, KindsDiffer DEF Quiet, SameMemory, platform, files, MemoryTypes
<1>b. c \in Run => RecordAt(c) /\ FaultsAt(c)
  BY <1>a DEF Inv, Held
<1>5. Seen'
  BY <1>1, <1>2, <1>3, KindsDiffer, SeenKept DEF SameMemory, files
<1>6. Held(c)'
  <2>1. CASE \E d \in queue[c] : /\ subject' = [subject EXCEPT ![c] = d]
                                 /\ plan' = [plan EXCEPT ![c] = RestorePlan(journal[d])]
                                 /\ Goto(c, "recoverRestore")
    <3>1. PICK d \in queue[c] : /\ subject' = [subject EXCEPT ![c] = d]
                                /\ plan' = [plan EXCEPT ![c] = RestorePlan(journal[d])]
                                /\ Goto(c, "recoverRestore")
      BY <2>1
    <3>2. pc'[c] = "recoverRestore" /\ subject'[c] = d /\ plan'[c] = RestorePlan(journal[d]) /\ d \in Run
      BY <1>0, <1>4, <3>1, GotoIs DEF MemoryTypes
    <3>3. plan'[c].scale = Scaled(d) /\ plan'[c].clear = Faulted(d)
      BY <3>2 DEF RestorePlan, Scaled, Faulted
    <3>4. UndoneBy(queue[c])'
      BY <1>3, <1>4, QuietUndone
    <3>5. Scaled(d)' = Scaled(d) /\ Faulted(d)' = Faulted(d)
      BY <1>3 DEF Scaled, Faulted, files
    <3>6. LeftBy(c, queue[c])'
      BY <3>2, <3>3, <3>4, <3>5 DEF UndoneBy, LeftBy
    <3>7. c \in Run => RecordAt(c)' /\ FaultsAt(c)'
      BY <1>a, <1>b, <1>3, <3>2 DEF RecordAt, FaultsAt, Starting, Changing, Closing, files
    <3> QED
      BY <1>3, <3>2, <3>6, <3>7 DEF Held, RecoveryAt, PlatformAt, ResetAt
  <2>2. CASE /\ queue[c] = {}
             /\ subject' = [subject EXCEPT ![c] = c]
             /\ plan' = [plan EXCEPT ![c] = IF c \in Reset THEN [NoPlan EXCEPT !.clear = Workload] ELSE NoPlan]
             /\ Goto(c, IF c \in Reset THEN "resetClear" ELSE "firstSave")
    <3>1. AsFound'
      BY <1>0, <1>3, <1>4, <2>2, NothingToUndo DEF AsFound, platform
    <3>2. /\ pc'[c] = IF c \in Reset THEN "resetClear" ELSE "firstSave"
          /\ subject'[c] = c /\ plan'[c].scale = {}
      BY <1>0, <2>2, GotoIs DEF MemoryTypes, NoPlan
    <3>3. c \in Run => RecordAt(c)' /\ FaultsAt(c)'
      BY <1>a, <1>b, <1>3, <3>2, KindsDiffer DEF RecordAt, FaultsAt, Starting, Changing, Closing, files
    <3> QED
      BY <3>1, <3>2, <3>3, KindsDiffer DEF Held, RecoveryAt, PlatformAt, ResetAt
  <2> QED
    BY <2>1, <2>2 DEF Recover
<1> QED
  BY <1>1, <1>3, <1>4, <1>5, <1>6, QuietKept DEF platform, files
\* Closing the breakers starts the faults of a run, or ends a reset.
LEMMA KeptBreakers ==
  ASSUME Inv, NEW c \in Command, CloseBreakers(c)
  PROVE  Kept'
<1>0. Types /\ Places /\ MemoryTypes /\ PlatformTypes
  BY DEF Inv, Types
<1>a. c \in Run \cup Reset /\ (c \in Run => pc[c] = "breakers") /\ (c \in Reset => pc[c] = "resetBreakers")
  BY <1>0, KindsDiffer DEF CloseBreakers, Places, RunPlace, ResetPlace, VerifyPlace, Starting, Changing, Closing, Ended, Command
<1>1. \A d \in Command : d # c => SameMemory(d)
  BY <1>0, Elsewhere DEF OtherStep
<1>2. UNCHANGED <<replicas, rules, settled, files, scenario, record, queue, subject, plan, targets, task>> /\ ~breakersOpen'
  BY DEF CloseBreakers, work
<1>3. pc'[c] = IF c \in Run THEN "faults" ELSE "resetDone"
  BY <1>0, GotoIs DEF CloseBreakers
<1>4. Quiet
  BY <1>1, <1>2, <1>a, SaidSame, KindsDiffer DEF Quiet, SameMemory, files
<1>5. AsFound /\ (c \in Run => RecordAt(c) /\ FaultsAt(c))
  BY <1>a DEF Inv, Held, PlatformAt, ResetAt
<1>6. AsFound' /\ UndoneBy({c})' /\ UndoneBy(Run)'
  BY <1>0, <1>2, <1>5, <1>4, NothingToUndo, QuietUndone DEF AsFound, Inv, UndoneBy
<1>7. Held(c)'
  <2>1. CASE c \in Run
    <3>1. \A d \in Run : Standing(d) => Standing(d)'
      BY <1>4, QuietStanding
    <3>2. RecordAt(c)' /\ FaultsAt(c)'
      BY <2>1, <1>a, <1>2, <1>3, <1>5, <3>1 DEF RecordAt, FaultsAt, Starting, Changing, Closing, files
    <3> QED
      BY <2>1, <1>3, <1>6, <3>2, KindsDiffer DEF Held, RecoveryAt, PlatformAt
  <2>2. CASE c \in Reset
    BY <2>2, <1>2, <1>3, <1>6, KindsDiffer DEF Held, RecoveryAt, ResetAt
  <2> QED
    BY <1>a, <2>1, <2>2
<1>8. Seen'
  BY <1>a, <1>1, <1>2, KindsDiffer, SeenKept DEF SameMemory, files
<1>9. Working(c) /\ FirstCounts' /\ \A d \in Run : TasksOf(d)'
  BY <1>a, <1>2, TasksKept, KindsDiffer DEF Working, files, Ended
<1> QED
  BY <1>a, <1>1, <1>2, <1>6, <1>7, <1>8, <1>9, WorkKept DEF files

\* A run tears its own record when nothing is left to undo, and a recovery the
\* record of a run that is undone.
LEMMA KeptTruncate ==
  ASSUME Inv, NEW c \in Command, c \notin Verify, Truncate(c)
  PROVE  Kept'
<1>0. Types /\ Places /\ MemoryTypes /\ PlatformTypes /\ FileTypes /\ c \in Run \cup Reset
  BY DEF Inv, Types, Command
<1>1. \A d \in Command : d # c => SameMemory(d)
  BY <1>0, Elsewhere DEF OtherStep
<1>2. UNCHANGED <<platform, journal, scenario, record, queue, subject, plan, targets, task>>
  BY DEF Truncate, work
<1>3. pc[c] \in {"firstSave", "recoveredSave", "finalSave"} /\ pc'[c] = WriteOf[pc[c]]
  <2>1. pc[c] \in {"firstSave", "recoveredSave", "finalSave"}
    BY <1>0, KindsDiffer DEF Truncate, WriteOf, Places, RunPlace, ResetPlace, Starting, Changing, Closing, Ended
  <2> QED
    BY <1>0, <2>1, GotoIs DEF Truncate
<1>4. Working(c) /\ Held(c)
  BY <1>0, <1>3 DEF Working, Inv, Ended
<1>s. \A d \in Run : (SaidUndone(d)' <=> SaidUndone(d)) /\ (d # subject[c] => (Whole(d)' <=> Whole(d)))
  <2>1. \A d \in Run : disk'[d].restored = disk[d].restored /\ (d # subject[c] => disk'[d] = disk[d])
    BY <1>0 DEF Truncate, FileTypes, File
  <2>2. \A v \in Verify : pc'[v] = pc[v] /\ subject'[v] = subject[v] /\ record'[v] = record[v]
    BY <1>1, <1>2, KindsDiffer DEF SameMemory
  <2> QED
    BY <2>1, <2>2 DEF SaidUndone, Whole
<1>5. \A d \in Run : disk'[d].file = "absent" => disk[d].file = "absent" /\ d # subject[c] /\ disk'[d].restored = disk[d].restored
  BY <1>0 DEF Truncate, FileTypes, File
<1>6. FirstCounts' /\ \A d \in Run : TasksOf(d)'
  BY <1>2, TasksKept
<1>7. Seen'
  BY <1>0, <1>1, <1>2, <1>5, KindsDiffer, SeenKept DEF SameMemory
<1>8. CASE pc[c] = "recoveredSave"
  <2> DEFINE D == queue[c] \ {subject[c]}
  <2>1. subject[c] \in queue[c] /\ UndoneBy(D) /\ D \subseteq Run
    BY <1>0, <1>4, <1>8 DEF Held, RecoveryAt, MemoryTypes
  <2>2. \A d \in D : Standing(d)' <=> Standing(d)
    BY <2>1, <1>s DEF Standing, Whole
  <2>3. UndoneBy(queue[c] \ {subject[c]})'
    BY <2>1, <2>2, <1>2 DEF UndoneBy, platform, Scaled, Faulted
  <2>4. UndoneBy(Run)'
    BY <2>1, <2>3, <1>2, MoreUndo DEF UndoneBy, platform
  <2>5. \A d \in Run : disk[d].file = "absent" => disk'[d].file = "absent"
    BY <1>0, <2>1 DEF Inv, Seen, Truncate, FileTypes
  <2>6. Held(c)'
    <3>1. c \in Run => RecordAt(c)' /\ FaultsAt(c)'
      <4>1. c \in Run => RecordAt(c) /\ FaultsAt(c)
        BY <1>4 DEF Held
      <4> QED
        BY <4>1, <1>2, <1>3, <1>8, <2>5 DEF RecordAt, FaultsAt, WriteOf, Starting, Changing, Closing
    <3> QED
      BY <3>1, <1>2, <1>3, <1>8, <2>1, <2>3 DEF Held, RecoveryAt, PlatformAt, ResetAt, WriteOf
  <2> QED
    BY <1>0, <1>1, <1>2, <1>4, <1>6, <1>7, <2>4, <2>5, <2>6, WorkKept
<1>9. CASE pc[c] \in {"firstSave", "finalSave"}
  <2>1. c \in Run /\ subject[c] = c /\ AsFound
    <3>1. c \in Run
      BY <1>0, <1>9, KindsDiffer DEF Places, ResetPlace, Ended
    <3> QED
      BY <3>1, <1>4, <1>9 DEF Held, RecordAt, PlatformAt, Closing
  <2>2. AsFound' /\ UndoneBy(Run)'
    BY <1>2, <2>1 DEF AsFound, UndoneBy, platform
  <2>3. \A d \in Run : d # c /\ disk[d].file = "absent" => disk'[d].file = "absent"
    BY <1>0, <2>1 DEF Truncate, FileTypes
  <2>4. RecordAt(c)'
    <3>1. RecordAt(c) /\ Seen
      BY <2>1, <1>4 DEF Held, Inv
    <3>2. pc[c] = "firstSave" => ~SaidUndone(c)
      BY <2>1, <3>1 DEF RecordAt, Seen, SaidUndone, Starting
    <3> QED
      BY <1>2, <1>3, <1>9, <1>s, <2>1, <3>1, <3>2 DEF RecordAt, WriteOf, Starting, Changing, Closing
  <2>5. FaultsAt(c)'
    BY <1>2, <1>3, <1>4, <1>9, <2>1 DEF Held, FaultsAt, WriteOf, Starting
  <2>6. Held(c)'
    BY <1>3, <1>9, <2>1, <2>2, <2>4, <2>5, KindsDiffer DEF Held, RecoveryAt, PlatformAt, WriteOf
  <2> QED
    BY <1>0, <1>1, <1>2, <1>4, <1>6, <1>7, <2>2, <2>3, <2>6, WorkKept
<1> QED
  BY <1>3, <1>8, <1>9
LEMMA KeptWriteRecovered ==
  ASSUME Inv, NEW c \in Command, WriteRecovered(c)
  PROVE  Kept'
<1>0. Types /\ Places /\ MemoryTypes /\ PlatformTypes /\ FileTypes
  BY DEF Inv, Types
<1>a. c \in Run \cup Reset /\ pc[c] = "recoveredWrite"
  BY <1>0, KindsDiffer DEF WriteRecovered, Places, VerifyPlace, Ended, Command
<1>1. \A d \in Command : d # c => SameMemory(d)
  BY <1>0, Elsewhere DEF OtherStep
<1>2. UNCHANGED <<platform, journal, scenario, record, subject, plan, targets, task>>
  BY DEF WriteRecovered
<1>3. pc'[c] = "recover" /\ queue'[c] = queue[c] \ {subject[c]}
  BY <1>0, GotoIs DEF WriteRecovered, MemoryTypes
<1>4. Working(c) /\ Held(c)
  BY <1>a DEF Working, Inv, Ended
<1>5. subject[c] \in queue[c] /\ UndoneBy(queue[c] \ {subject[c]}) /\ queue[c] \subseteq Run
  BY <1>a, <1>0, <1>4 DEF Held, RecoveryAt, MemoryTypes
<1>6. \A d \in Run : d # subject[c] => disk'[d] = disk[d]
  BY <1>0 DEF WriteRecovered, FileTypes
<1>7. disk'[subject[c]].file = "whole"
  BY <1>0, <1>5 DEF WriteRecovered, FileTypes
<1>8. \A d \in queue[c] \ {subject[c]} : Standing(d)' <=> Standing(d)
  <2>1. \A v \in Verify : pc'[v] = pc[v] /\ subject'[v] = subject[v] /\ record'[v] = record[v]
    BY <1>1, <1>a, KindsDiffer DEF SameMemory
  <2> QED
    BY <1>5, <1>6, <2>1 DEF Standing, SaidUndone
<1>9. UndoneBy(queue[c])'
  BY <1>2, <1>3, <1>5, <1>8 DEF UndoneBy, platform, Scaled, Faulted
<1>10. UndoneBy(Run)'
  BY <1>9, <1>3, <1>5 DEF UndoneBy
<1>11. \A d \in Run : disk[d].file = "absent" => disk'[d].file = "absent"
  BY <1>5, <1>6 DEF Inv, Seen
<1>12. Held(c)'
  <2>1. c \in Run => RecordAt(c) /\ FaultsAt(c)
    BY <1>4 DEF Held
  <2>2. c \in Run => RecordAt(c)' /\ FaultsAt(c)'
    BY <2>1, <1>a, <1>2, <1>3, <1>11 DEF RecordAt, FaultsAt, Starting, Changing, Closing
  <2> QED
    BY <2>2, <1>3, <1>9 DEF Held, RecoveryAt, PlatformAt, ResetAt
<1>13. Seen'
  <2>1. \A d \in Run : (disk[d].file # "absent" => disk'[d].file # "absent")
                       /\ (disk'[d].file = "absent" => disk'[d].restored = disk[d].restored)
    BY <1>6, <1>7
  <2>2. \A d \in Command : queue'[d] \subseteq queue[d]
    BY <1>1, <1>3 DEF SameMemory
  <2> QED
    BY <2>1, <2>2, <1>1, <1>a, KindsDiffer, SeenKept DEF SameMemory
<1>14. FirstCounts' /\ \A d \in Run : TasksOf(d)'
  BY <1>2, TasksKept
<1> QED
  BY <1>a, <1>1, <1>2, <1>4, <1>10, <1>11, <1>12, <1>13, <1>14, WorkKept

LEMMA KeptWriteOwn ==
  ASSUME Inv, NEW c \in Command, c \notin Verify, WriteOwn(c)
  PROVE  Kept'
<1>0. Types /\ Places /\ MemoryTypes /\ PlatformTypes /\ FileTypes
  BY DEF Inv, Types
<1>a. c \in Run /\ pc[c] \in {"firstWrite", "finalWrite"}
  BY <1>0, KindsDiffer
     DEF WriteOwn, Places, RunPlace, ResetPlace, Starting, Changing, Closing, Ended, Command
<1>1. \A d \in Command : d # c => SameMemory(d)
  BY <1>0, Elsewhere DEF OtherStep
<1>2. UNCHANGED <<platform, journal, scenario, record, queue, subject, plan, targets, task>>
  BY DEF WriteOwn, work
<1>3. pc'[c] = IF pc[c] = "firstWrite" THEN "preflight" ELSE "exit"
  BY <1>0, <1>a, GotoIs DEF WriteOwn
<1>4. Working(c) /\ RecordAt(c) /\ PlatformAt(c) /\ FaultsAt(c)
  BY <1>a DEF Working, Inv, Held, Ended
<1>5. AsFound /\ subject[c] = c
  BY <1>a, <1>4 DEF RecordAt, PlatformAt, Closing
<1>6. AsFound' /\ UndoneBy(Run)'
  BY <1>2, <1>5 DEF AsFound, UndoneBy, platform
<1>7. \A d \in Run : d # c => disk'[d] = disk[d]
  BY <1>0, <1>5 DEF WriteOwn, FileTypes
<1>8. disk'[c].file = "whole" /\ disk'[c].restored = record[c].restored
  BY <1>0, <1>a, <1>5 DEF WriteOwn, FileTypes
<1>9. Held(c)'
  <2>1. CASE pc[c] = "firstWrite"
    <3>1. ~record[c].restored /\ ~SaidUndone(c)
      BY <2>1, <1>4 DEF RecordAt
    <3>2. \A v \in Verify : pc'[v] = pc[v] /\ subject'[v] = subject[v] /\ record'[v] = record[v]
      BY <1>1, <1>a, KindsDiffer DEF SameMemory
    <3>3. Standing(c)'
      BY <1>8, <3>1, <3>2 DEF Standing, SaidUndone
    <3>4. RecordAt(c)' /\ FaultsAt(c)'
      BY <2>1, <1>2, <1>3, <1>4, <1>5, <3>1, <3>3 DEF RecordAt, FaultsAt, Starting, Changing, Closing
    <3> QED
      BY <2>1, <1>a, <1>3, <1>6, <3>4, KindsDiffer DEF Held, RecoveryAt, PlatformAt
  <2>2. CASE pc[c] = "finalWrite"
    BY <2>2, <1>a, <1>3, KindsDiffer
       DEF Held, RecoveryAt, RecordAt, PlatformAt, FaultsAt, Starting, Changing, Closing
  <2> QED
    BY <1>a, <2>1, <2>2
<1>10. Seen'
  <2>1. \A d \in Run : (disk[d].file # "absent" => disk'[d].file # "absent")
                       /\ (disk'[d].file = "absent" => disk'[d].restored = disk[d].restored)
    BY <1>7, <1>8
  <2> QED
    BY <2>1, <1>1, <1>2, <1>a, KindsDiffer, SeenKept DEF SameMemory
<1>11. FirstCounts' /\ \A d \in Run : TasksOf(d)'
  BY <1>2, TasksKept
<1> QED
  BY <1>a, <1>1, <1>2, <1>4, <1>6, <1>7, <1>9, <1>10, <1>11, WorkKept

\* Whatever a verifier does, no promise is lost: it says of a run that it is
\* undone only after the record said so.
LEMMA KeptVerify ==
  ASSUME Inv, NEW c \in Verify, Truncate(c) \/ WriteOwn(c) \/ LoadForVerify(c)
  PROVE  Kept'
<1>0. Types /\ Places /\ MemoryTypes /\ PlatformTypes /\ FileTypes /\ Seen /\ c \in Command
  BY KindsDiffer DEF Inv, Types
<1>k. c \notin Run \cup Reset
  BY KindsDiffer
<1>1. \A d \in Command : d # c => SameMemory(d)
  BY <1>0, Elsewhere DEF OtherStep
<1>2. UNCHANGED <<platform, journal, scenario, queue, task>>
  BY DEF Truncate, WriteOwn, LoadForVerify, work, files
<1>3. CASE LoadForVerify(c)
  <2>1. UNCHANGED disk
    BY <1>3 DEF LoadForVerify, files
  <2>2. CASE \E d \in Run : /\ disk[d].file = "whole" /\ subject'[c] = d
                            /\ record'[c].restored = disk[d].restored /\ pc'[c] = "verifySave"
    <3>1. PICK d \in Run : /\ disk[d].file = "whole" /\ subject'[c] = d
                           /\ record'[c].restored = disk[d].restored /\ pc'[c] = "verifySave"
      BY <2>2
    <3>2. \A e \in Run : (SaidUndone(e)' => SaidUndone(e)) /\ (Whole(e) => Whole(e)')
      BY <1>1, <2>1, <3>1, KindsDiffer DEF SaidUndone, Whole, SameMemory
    <3>3. Seen'
      BY <1>0, <1>1, <1>2, <2>1, <3>1, KindsDiffer DEF Seen, SameMemory
    <3> QED
      BY <1>0, <1>k, <1>1, <1>2, <2>1, <3>2, <3>3, QuietKept DEF Quiet, platform
  <2>3. CASE pc'[c] = "exit"
    <3>1. \A e \in Run : (SaidUndone(e)' => SaidUndone(e)) /\ (Whole(e) => Whole(e)')
      BY <1>1, <2>1, <2>3, KindsDiffer DEF SaidUndone, Whole, SameMemory
    <3>2. Seen'
      BY <1>0, <1>1, <1>2, <2>1, <2>3, KindsDiffer DEF Seen, SameMemory
    <3> QED
      BY <1>0, <1>k, <1>1, <1>2, <2>1, <3>1, <3>2, QuietKept DEF Quiet, platform
  <2> QED
    <3>1. ASSUME NEW d \in Run, disk[d].file = "whole", subject' = [subject EXCEPT ![c] = d],
                 record' = [record EXCEPT ![c] = [restored |-> disk[d].restored, status |-> "ended"]],
                 Goto(c, "verifySave")
          PROVE  Kept'
      <4>1. pc'[c] = "verifySave" /\ subject'[c] = d /\ record'[c].restored = disk[d].restored
        BY <1>0, <3>1, GotoIs DEF MemoryTypes
      <4> QED
        BY <2>2, <3>1, <4>1
    <3>2. Goto(c, "exit") => Kept'
      BY <1>0, <2>3, GotoIs
    <3> QED
      BY <1>3, <3>1, <3>2 DEF LoadForVerify
<1>4. CASE Truncate(c) \/ WriteOwn(c)
  <2>1. pc[c] \in {"verifySave", "verifyWrite"} /\ pc'[c] = IF pc[c] = "verifySave" THEN "verifyWrite" ELSE "exit"
    <3>1. pc[c] \in VerifyPlace
      BY <1>0 DEF Places
    <3>2. CASE Truncate(c)
      BY <1>0, <3>1, <3>2, GotoIs DEF Truncate, WriteOf, VerifyPlace, Ended
    <3>3. CASE WriteOwn(c)
      BY <1>0, <3>1, <3>3, GotoIs DEF WriteOwn, VerifyPlace, Ended
    <3> QED
      BY <1>4, <3>2, <3>3
  <2>2. subject[c] \in Run /\ disk[subject[c]].file # "absent" /\ UNCHANGED <<subject, record>>
    BY <1>0, <1>4, <2>1 DEF Seen, Truncate, WriteOwn, work
  <2>3. \A d \in Run : d # subject[c] => disk'[d] = disk[d]
    BY <1>0, <1>4 DEF Truncate, WriteOwn, FileTypes
  <2>4. /\ disk'[subject[c]].file \in {"whole", "tornByVerify"}
        /\ disk'[subject[c]].restored => disk[subject[c]].restored \/ record[c].restored
    <3>1. disk[subject[c]] \in File
      BY <1>0, <2>2 DEF FileTypes
    <3>2. CASE Truncate(c)
      BY <1>0, <2>2, <3>1, <3>2 DEF Truncate, FileTypes, File
    <3>3. CASE WriteOwn(c)
      BY <1>0, <2>2, <3>3 DEF WriteOwn, FileTypes
    <3> QED
      BY <1>4, <3>2, <3>3
  <2>5. \A e \in Run : (SaidUndone(e)' => SaidUndone(e)) /\ (Whole(e) => Whole(e)')
    <3>1. \A e \in Run : e = subject[c] => (SaidUndone(e)' => SaidUndone(e))
      <4>1. \A v \in Verify : v # c => pc'[v] = pc[v] /\ subject'[v] = subject[v] /\ record'[v] = record[v]
        BY <1>1, KindsDiffer DEF SameMemory
      <4> QED
        BY <2>1, <2>2, <2>4, <4>1 DEF SaidUndone
    <3>2. \A e \in Run : e # subject[c] => (SaidUndone(e)' => SaidUndone(e))
      BY <1>1, <2>1, <2>2, <2>3, KindsDiffer DEF SaidUndone, SameMemory
    <3> QED
      BY <2>3, <2>4, <3>1, <3>2 DEF Whole
  <2>6. \A d \in Run : disk[d].file = "absent" => disk'[d].file = "absent"
    BY <2>2, <2>3
  <2>7. Seen'
    <3>1. \A d \in Run : /\ disk[d].file # "absent" => disk'[d].file # "absent"
                         /\ disk'[d].file = "absent" => disk'[d].restored = disk[d].restored
      BY <2>3, <2>4
    <3>2. \A v \in Verify : pc'[v] \in {"verifySave", "verifyWrite"} =>
            pc[v] \in {"verifySave", "verifyWrite"} /\ subject'[v] = subject[v]
      BY <1>1, <2>1, <2>2, KindsDiffer DEF SameMemory
    <3> QED
      BY <1>2, <3>1, <3>2, SeenKept
  <2> QED
    BY <1>0, <1>k, <1>1, <1>2, <2>5, <2>6, <2>7, QuietKept DEF Quiet, platform
<1> QED
  BY <1>3, <1>4
LEMMA KeptBodyFails ==
  ASSUME Inv, NEW c \in Run, BodyFails(c)
  PROVE  Kept'
<1>0. Types /\ Places /\ MemoryTypes /\ PlatformTypes /\ FileTypes /\ c \in Command
  BY KindsDiffer DEF Inv, Types
<1>1. \A d \in Command : d # c => SameMemory(d)
  BY <1>0, Elsewhere DEF OtherStep
<1>2. UNCHANGED <<platform, files, scenario, queue, subject, plan, targets, task>>
  BY DEF BodyFails
<1>3. /\ pc[c] \in {"preflight", "breakers", "faults", "faultPut", "traffic", "checks"}
      /\ pc'[c] = (IF pc[c] = "traffic" THEN "draining" ELSE "finally")
      /\ record'[c].restored = record[c].restored
  BY <1>0, GotoIs DEF BodyFails, Body, MemoryTypes, Record
<1>4. Quiet
  BY <1>1, <1>2, SaidSame, KindsDiffer DEF Quiet, SameMemory, platform, files
<1>5. RecordAt(c) /\ PlatformAt(c) /\ FaultsAt(c)
  BY DEF Inv, Held
<1>6. AsFound \/ UndoneBy({c})
  BY <1>3, <1>5 DEF PlatformAt
<1>7. UndoneBy({c})' /\ (AsFound => AsFound')
  BY <1>0, <1>4, <1>6, NothingToUndo, QuietUndone, QuietAsFound
<1>8. pc[c] = "checks" => AsFound
  BY <1>5 DEF PlatformAt
<1>9. RecordAt(c)'
  BY <1>2, <1>3, <1>4, <1>5, QuietStanding DEF RecordAt, Starting, Changing, Closing
<1>10. Held(c)'
  <2>1. record[c].restored => pc[c] = "checks"
    BY <1>3, <1>5 DEF RecordAt, Changing
  <2> QED
    BY <2>1, <1>3, <1>7, <1>8, <1>9, KindsDiffer DEF Held, RecoveryAt, PlatformAt, FaultsAt, Starting
<1>11. Seen'
  BY <1>1, <1>2, KindsDiffer, SeenKept DEF SameMemory, files
<1> QED
  BY <1>0, <1>1, <1>2, <1>4, <1>10, <1>11, QuietKept DEF platform, files

LEMMA KeptOther ==
  ASSUME Inv, NEW c \in Command, OtherStep(c)
  PROVE  Kept'
<1>1. CASE Start(c) \/ Exit(c) \/ Crash(c) \/ (c \in Reset /\ ForceRelease(c))
  BY <1>1, KeptOutside
<1>2. CASE LoadInterrupted(c)
  BY <1>2, KeptLoad
<1>3. CASE Recover(c)
  BY <1>3, KeptRecover
<1>4. CASE CloseBreakers(c)
  BY <1>4, KeptBreakers
<1>5. CASE Truncate(c)
  BY <1>5, KeptTruncate, KeptVerify
<1>6. CASE WriteRecovered(c)
  BY <1>6, KeptWriteRecovered
<1>7. CASE WriteOwn(c)
  BY <1>7, KeptWriteOwn, KeptVerify
<1>8. CASE c \in Verify /\ LoadForVerify(c)
  BY <1>8, KeptVerify
<1>9. CASE c \in Run /\ BodyFails(c)
  BY <1>9, KeptBodyFails
<1> QED
  BY <1>1, <1>2, <1>3, <1>4, <1>5, <1>6, <1>7, <1>8, <1>9 DEF OtherStep

-----------------------------------------------------------------------------
(* Restoring.                                                               *)

\* The records that undo what a restore plan does not: those still queued.
Others(c) == IF pc[c] = "recoverRestore" THEN queue[c] ELSE {c}

\* Where a command restores, whatever stands is in its plan or in another record.
LEMMA RestoringAt ==
  ASSUME Inv, NEW c \in Command, pc[c] \in Restoring
  PROVE  /\ c \in Run \cup Reset /\ Working(c) /\ Held(c)
         /\ pc[c] # "resetClear" => LeftBy(c, Others(c)) /\ Others(c) \subseteq Run /\ subject[c] \in Others(c)
         /\ pc[c] = "resetClear" => c \in Reset /\ AsFound
         /\ pc[c] \in {"bodyRestore", "finallyRestore"} => c \in Run
<1>0. Places /\ MemoryTypes
  BY DEF Inv, Types
<1>1. c \in Run \cup Reset
  BY <1>0 DEF Places, VerifyPlace, Restoring, Ended, Command
<1>2. Working(c) /\ Held(c)
  BY <1>1 DEF Working, Restoring, Ended, Inv
<1>3. pc[c] \in {"bodyRestore", "finallyRestore"} => c \in Run
  BY <1>0, <1>1 DEF Places, ResetPlace, Ended
<1>4. pc[c] = "resetClear" => c \in Reset
  BY <1>0, <1>1 DEF Places, RunPlace, Starting, Changing, Closing, Ended
<1>5. pc[c] # "resetClear" => LeftBy(c, Others(c)) /\ Others(c) \subseteq Run /\ subject[c] \in Others(c)
  <2>1. CASE pc[c] = "recoverRestore"
    BY <1>0, <1>1, <1>2, <2>1 DEF Held, RecoveryAt, Others, MemoryTypes
  <2>2. CASE pc[c] \in {"bodyRestore", "finallyRestore"}
    BY <1>2, <1>3, <2>2 DEF Held, RecordAt, PlatformAt, Others, Changing
  <2> QED
    BY <2>1, <2>2 DEF Restoring
<1>6. pc[c] = "resetClear" => AsFound
  BY <1>2, <1>4 DEF Held, ResetAt
<1> QED
  BY <1>1, <1>2, <1>3, <1>4, <1>5, <1>6

\* A step of a plan that only undoes.
LEMMA PlanStepKept ==
  ASSUME Inv, NEW c \in Command, pc[c] \in Restoring, RestoreStep(c),
         UNCHANGED <<breakersOpen, files, pc, scenario, record, queue, subject, targets, task>>,
         rules' \subseteq rules, replicas' \in [Workload -> Nat],
         \A w \in Workload : replicas'[w] = replicas[w] \/ replicas'[w] = Baseline[w],
         plan'[c].scale \subseteq plan[c].scale, plan'[c].clear \subseteq plan[c].clear,
         \A w \in plan[c].scale \ plan'[c].scale : replicas'[w] = Baseline[w],
         \A r \in rules' : r.pod[1] \in plan[c].clear => r.pod[1] \in plan'[c].clear
  PROVE  Kept'
<1>0. Types /\ MemoryTypes /\ PlatformTypes /\ FileTypes
  BY DEF Inv, Types
<1>1. /\ c \in Run \cup Reset /\ Working(c) /\ Held(c)
      /\ pc[c] # "resetClear" => LeftBy(c, Others(c)) /\ Others(c) \subseteq Run /\ subject[c] \in Others(c)
      /\ pc[c] = "resetClear" => c \in Reset /\ AsFound
      /\ pc[c] \in {"bodyRestore", "finallyRestore"} => c \in Run
  BY RestoringAt
<1>2. \A d \in Command : d # c => SameMemory(d)
  BY <1>0, Elsewhere
<1>3. \A d \in Run : (SaidUndone(d)' <=> SaidUndone(d)) /\ (Standing(d)' <=> Standing(d))
  BY SaidSame DEF files
<1>4. \A d \in Run : Scaled(d)' = Scaled(d) /\ Faulted(d)' = Faulted(d)
  BY DEF Scaled, Faulted, files
<1>5. UndoneBy(Run)'
  BY <1>3, <1>4 DEF Inv, UndoneBy
<1>6. AsFound => AsFound'
  <2>1. AsFound => \A w \in Workload : replicas'[w] = Baseline[w]
    BY DEF AsFound
  <2>2. AsFound => replicas' = Baseline
    BY <2>1, KindsAssumption
  <2> QED
    BY <2>2 DEF AsFound
<1>7. pc[c] # "resetClear" => LeftBy(c, Others(c))'
  <2> SUFFICES ASSUME pc[c] # "resetClear" PROVE LeftBy(c, Others(c))'
    OBVIOUS
  <2>1. Others(c)' = Others(c) /\ subject'[c] = subject[c] /\ subject[c] \in Run
    BY <1>1 DEF Others
  <2>2. plan'[c].scale \subseteq Scaled(subject[c])' /\ plan'[c].clear \subseteq Faulted(subject[c])'
    BY <1>1, <1>4, <2>1 DEF LeftBy
  <2>3. ASSUME NEW w \in Workload, replicas'[w] # Baseline[w]
        PROVE  w \in plan'[c].scale \/ \E d \in Others(c) \ {subject[c]} : Standing(d)' /\ w \in Scaled(d)'
    BY <1>1, <1>3, <1>4, <2>3 DEF LeftBy
  <2>4. ASSUME NEW r \in rules'
        PROVE  r.pod[1] \in plan'[c].clear \/ \E d \in Others(c) \ {subject[c]} : Standing(d)' /\ r.pod[1] \in Faulted(d)'
    BY <1>1, <1>3, <1>4 DEF LeftBy
  <2> QED
    BY <2>1, <2>2, <2>3, <2>4 DEF LeftBy
<1>8. Held(c)'
  <2>1. c \in Run => RecordAt(c)' /\ FaultsAt(c)'
    BY <1>1, <1>3 DEF Held, RecordAt, FaultsAt, Restoring, Starting, Changing, Closing, files
  <2>2. RecoveryAt(c)'
    BY <1>1, <1>7 DEF Held, RecoveryAt, Restoring, Others
  <2>3. c \in Run => PlatformAt(c)'
    BY <1>1, <1>7 DEF PlatformAt, Restoring, Others
  <2>4. c \in Reset => ResetAt(c)'
    BY <1>1, <1>6 DEF Held, ResetAt, Restoring
  <2> QED
    BY <2>1, <2>2, <2>3, <2>4 DEF Held
<1>9. Seen'
  BY SeenKept DEF files
<1>10. FirstCounts' /\ \A d \in Run : TasksOf(d)'
  BY TasksKept DEF files
<1> QED
  BY <1>1, <1>2, <1>5, <1>8, <1>9, <1>10, WorkKept DEF files
LEMMA KeptRestore ==
  ASSUME Inv, NEW c \in Command, RestoreStep(c)
  PROVE  Kept'
<1>0. Types /\ Places /\ MemoryTypes /\ PlatformTypes /\ FileTypes
  BY DEF Inv, Types
<1>r. pc[c] \in Restoring /\ plan[c] \in Plan
  BY <1>0 DEF RestoreStep, ClearFaults, RestoreReplicas, WaitAvailable, RestoreRaises, RestoreDone, MemoryTypes
<1>a. /\ c \in Run \cup Reset /\ Working(c) /\ Held(c)
      /\ pc[c] # "resetClear" => LeftBy(c, Others(c)) /\ Others(c) \subseteq Run /\ subject[c] \in Others(c)
      /\ pc[c] = "resetClear" => c \in Reset /\ AsFound
      /\ pc[c] \in {"bodyRestore", "finallyRestore"} => c \in Run
  BY <1>r, RestoringAt
<1>b. \A d \in Command : d # c => SameMemory(d)
  BY <1>0, Elsewhere
<1>c. \A v \in Verify : v # c
  BY <1>a, KindsDiffer
<1>1. CASE ClearFaults(c)
  <2>1. PICK w : w \in plan[c].clear /\ rules' = rules \ ListFaults(w) /\ plan' = [plan EXCEPT ![c].clear = @ \ {w}]
    BY <1>1 DEF ClearFaults
  <2>2. /\ plan'[c].clear = plan[c].clear \ {w} /\ plan'[c].scale = plan[c].scale
    BY <1>0, <1>r, <2>1 DEF MemoryTypes, Plan
  <2>3. ASSUME NEW r \in rules' PROVE r.pod[1] # w
    <3>1. PICK x \in Workload : r.pod \in RunningPods(x)
      BY <1>0, <2>1, <2>3 DEF PlatformTypes, Running
    <3>2. r.pod[1] = x
      BY <3>1 DEF RunningPods
    <3> QED
      BY <2>1, <2>3, <3>1, <3>2 DEF ListFaults
  <2>4. UNCHANGED <<replicas, breakersOpen, files, pc, scenario, record, queue, subject, targets, task>>
    BY <1>1 DEF ClearFaults
  <2>5. replicas' \in [Workload -> Nat] /\ rules' \subseteq rules
    BY <1>0, <2>1, <2>4 DEF PlatformTypes
  <2> QED
    BY <1>r, <2>1, <2>2, <2>3, <2>4, <2>5, PlanStepKept
<1>2. CASE RestoreReplicas(c)
  <2>1. PICK w \in plan[c].scale : /\ w \in Workload /\ SetReplicas(w, Baseline[w]) /\ Baseline[w] \in Nat
                                   /\ plan' = [plan EXCEPT ![c].scale = @ \ {w}]
    BY <1>2, RestoredCount
  <2>2. /\ plan'[c].clear = plan[c].clear /\ plan'[c].scale = plan[c].scale \ {w}
    BY <1>0, <1>r, <2>1 DEF MemoryTypes, Plan
  <2>3. /\ rules' \subseteq rules /\ replicas' = [replicas EXCEPT ![w] = Baseline[w]] /\ PlatformTypes'
    BY <1>0, <2>1, SetReplicasTypes
  <2>4. UNCHANGED <<breakersOpen, files, pc, scenario, record, queue, subject, targets, task>>
    BY <1>2, <2>1 DEF RestoreReplicas, SetReplicas
  <2>5. /\ replicas' \in [Workload -> Nat] /\ replicas'[w] = Baseline[w]
        /\ \A x \in Workload : x # w => replicas'[x] = replicas[x]
    BY <1>0, <2>1, <2>3 DEF PlatformTypes
  <2> QED
    BY <1>r, <2>2, <2>3, <2>4, <2>5, PlanStepKept
<1>3. CASE WaitAvailable(c)
  <2>1. PICK w : plan' = [plan EXCEPT ![c].wait = @ \ {w}]
    BY <1>3 DEF WaitAvailable
  <2>2. /\ plan'[c].clear = plan[c].clear /\ plan'[c].scale = plan[c].scale
    BY <1>0, <1>r, <2>1 DEF MemoryTypes, Plan
  <2>3. UNCHANGED <<platform, files, pc, scenario, record, queue, subject, targets, task>>
    BY <1>3 DEF WaitAvailable
  <2>4. replicas' \in [Workload -> Nat]
    BY <1>0, <2>3 DEF PlatformTypes, platform
  <2> QED
    BY <1>r, <2>2, <2>3, <2>4, PlanStepKept DEF platform
<1>4. CASE RestoreRaises(c)
  <2>1. UNCHANGED <<platform, files, scenario, queue, subject, plan, targets, task>>
    BY <1>4 DEF RestoreRaises
  <2>2. Quiet
    BY <1>b, <1>c, <2>1, SaidSame, KindsDiffer DEF Quiet, SameMemory, platform, files
  <2>3. Seen'
    BY <1>b, <1>c, <2>1, SeenKept, KindsDiffer DEF SameMemory, files
  <2>4. Held(c)'
    <3>1. CASE pc[c] = "bodyRestore"
      <4>1. c \in Run /\ subject[c] = c /\ RecordAt(c)
        BY <1>a, <3>1 DEF Held, RecordAt, Changing
      <4>2. pc'[c] = "finally" /\ record'[c].restored = record[c].restored
        BY <1>0, <1>4, <3>1, GotoIs DEF RestoreRaises, MemoryTypes, Record
      <4>3. UndoneBy({c})
        \* What is left of the plan is still in the journal.
        <5>1. LeftBy(c, {c}) /\ Standing(c)
          BY <1>a, <3>1, <4>1 DEF Others, RecordAt, Changing
        <5>2. \A w \in Workload : replicas[w] # Baseline[w] => w \in Scaled(c)
          BY <4>1, <5>1 DEF LeftBy
        <5>3. \A r \in rules : r.pod[1] \in Faulted(c)
          BY <4>1, <5>1 DEF LeftBy
        <5> QED
          BY <5>1, <5>2, <5>3 DEF UndoneBy
      <4>4. UndoneBy({c})'
        BY <2>2, <4>1, <4>3, QuietUndone
      <4>5. RecordAt(c)'
        BY <2>1, <2>2, <3>1, <4>1, <4>2, QuietStanding DEF RecordAt, Starting, Changing, Closing
      <4> QED
        BY <3>1, <4>1, <4>2, <4>4, <4>5, KindsDiffer DEF Held, RecordAt, RecoveryAt, PlatformAt, FaultsAt, Starting, Changing
    <3>2. CASE pc[c] # "bodyRestore"
      <4>1. pc'[c] = "exit"
        BY <1>0, <1>4, <3>2, GotoIs DEF RestoreRaises
      <4> QED
        BY <4>1 DEF Held, RecoveryAt, RecordAt, PlatformAt, FaultsAt, ResetAt, Starting, Changing, Closing
    <3> QED
      BY <3>1, <3>2
  <2> QED
    BY <1>b, <2>1, <2>2, <2>3, <2>4, QuietKept DEF platform, files
<1>5. CASE RestoreDone(c)
  <2>1. UNCHANGED <<platform, files, scenario, queue, subject, plan, targets, task>> /\ plan[c] = NoPlan
    BY <1>5 DEF RestoreDone
  <2>2. Quiet
    BY <1>b, <1>c, <2>1, SaidSame, KindsDiffer DEF Quiet, SameMemory, platform, files
  <2>3. Seen'
    BY <1>b, <1>c, <2>1, SeenKept, KindsDiffer DEF SameMemory, files
  <2>4. pc[c] # "resetClear" => UndoneBy(Others(c) \ {subject[c]})
    <3>1. plan[c].scale = {} /\ plan[c].clear = {}
      BY <2>1 DEF NoPlan
    <3> QED
      BY <1>a, <3>1 DEF LeftBy, UndoneBy
  <2>5. Held(c)'
    <3>1. CASE pc[c] = "recoverRestore"
      <4>1. pc'[c] = "recoveredSave" /\ record' = record
        BY <1>0, <1>5, <3>1, GotoIs DEF RestoreDone
      <4>2. UndoneBy(queue[c] \ {subject[c]})'
        BY <1>a, <2>1, <2>2, <2>4, <3>1, QuietUndone DEF Others
      <4>3. c \in Run => RecordAt(c)' /\ FaultsAt(c)'
        BY <1>a, <2>1, <3>1, <4>1 DEF Held, RecordAt, FaultsAt, Starting, Changing, Closing, files
      <4> QED
        BY <1>a, <2>1, <3>1, <4>1, <4>2, <4>3 DEF Held, RecoveryAt, PlatformAt, ResetAt, Others
    <3>2. CASE pc[c] \in {"bodyRestore", "finallyRestore"}
      <4>1. pc'[c] \in {"checks", "finalSave"} /\ record'[c].restored
        <5>1. record' = [record EXCEPT ![c].restored = TRUE]
          BY <1>5, <3>2 DEF RestoreDone
        <5>2. Goto(c, "checks") \/ Goto(c, "finalSave")
          BY <1>5, <3>2 DEF RestoreDone
        <5> QED
          BY <1>0, <5>1, <5>2, GotoIs DEF MemoryTypes, Record
      <4>2. c \in Run /\ RecordAt(c)
        BY <1>a, <3>2 DEF Held
      <4>3. AsFound
        <5>1. Others(c) \ {subject[c]} = {}
          BY <3>2, <4>2 DEF RecordAt, Others, Changing
        <5>2. UndoneBy({})
          BY <2>4, <3>2, <5>1
        <5> QED
          BY <1>0, <5>2, NothingToUndo
      <4>4. AsFound'
        BY <2>1, <4>3 DEF AsFound, platform
      <4> QED
        BY <2>1, <3>2, <4>1, <4>2, <4>4, KindsDiffer
           DEF Held, RecordAt, RecoveryAt, PlatformAt, FaultsAt, Starting, Changing, Closing
    <3>3. CASE pc[c] = "resetClear"
      <4>1. pc'[c] = "resetBreakers"
        <5>1. Goto(c, "resetBreakers")
          BY <1>5, <3>3 DEF RestoreDone
        <5> QED
          BY <1>0, <5>1, GotoIs
      <4>2. c \in Reset /\ AsFound'
        BY <1>a, <2>1, <3>3 DEF AsFound, platform
      <4> QED
        BY <4>1, <4>2, KindsDiffer DEF Held, RecoveryAt, ResetAt
    <3> QED
      BY <1>r, <3>1, <3>2, <3>3 DEF Restoring
  <2> QED
    BY <1>b, <2>1, <2>2, <2>3, <2>5, QuietKept DEF platform, files
<1> QED
  BY <1>1, <1>2, <1>3, <1>4, <1>5 DEF RestoreStep
-----------------------------------------------------------------------------
(* A run.                                                                   *)

\* A journal that grows names what it named, and the new entry's workload.
LEMMA AppendNamed ==
  ASSUME NEW j \in Seq(Entry), NEW e \in Entry, NEW K
  PROVE  Named(Append(j, e), K) = Named(j, K) \cup (IF e.kind \in K THEN {e.workload} ELSE {})
<1> DEFINE k == Append(j, e)
<1>1. /\ Len(k) = Len(j) + 1 /\ Len(j) \in Nat /\ k[Len(k)] = e
      /\ \A i \in 1..Len(j) : k[i] = j[i]
  OBVIOUS
<1> HIDE DEF k
<1>2. \A i : i \in 1..Len(k) <=> (i \in 1..Len(j) \/ i = Len(k))
  BY <1>1
<1>3. ASSUME NEW w \in Named(k, K) PROVE w \in Named(j, K) \cup (IF e.kind \in K THEN {e.workload} ELSE {})
  <2>1. PICK i \in 1..Len(k) : k[i].kind \in K /\ w = k[i].workload
    BY <1>3 DEF Named
  <2> QED
    BY <2>1, <1>1, <1>2 DEF Named
<1>4. ASSUME NEW w \in Named(j, K) PROVE w \in Named(k, K)
  <2>1. PICK i \in 1..Len(j) : j[i].kind \in K /\ w = j[i].workload
    BY <1>4 DEF Named
  <2> QED
    BY <2>1, <1>1, <1>2 DEF Named
<1>5. e.kind \in K => e.workload \in Named(k, K)
  BY <1>1, <1>2 DEF Named
<1> QED
  BY <1>3, <1>4, <1>5 DEF k

\* A set of numbers that is not empty has a least one: the intervals up to its
\* members are finite, and one of them contains no other.
LEMMA Least ==
  ASSUME NEW R \in SUBSET Nat, R # {}
  PROVE  \E i \in R : \A l \in R : i <= l
<1> DEFINE T == {1..i : i \in R}
<1>1. T \subseteq FiniteSubsetsOf(Nat) /\ T # {}
  <2>1. ASSUME NEW i \in R PROVE 1..i \subseteq Nat /\ IsFiniteSet(1..i)
    <3>1. 1 \in Int /\ i \in Int
      OBVIOUS
    <3> QED
      BY <3>1, FS_Interval
  <2> QED
    BY <2>1 DEF FiniteSubsetsOf
<1>2. PICK X \in T : \A Y \in T : ~(<<Y, X>> \in StrictSubsetOrdering(Nat))
  BY <1>1, FS_StrictSubsetOrderingWellFounded, WFMin
<1>3. PICK i \in R : X = 1..i
  BY <1>2
<1>4. ASSUME NEW l \in R, l < i PROVE FALSE
  <2>1. 1..l \in T /\ 1..l \subseteq 1..i /\ i \in 1..i /\ i \notin 1..l
    BY <1>4
  <2>2. <<1..l, 1..i>> \in StrictSubsetOrdering(Nat)
    BY <2>1 DEF StrictSubsetOrdering
  <2> QED
    BY <1>2, <1>3, <2>1, <2>2
<1> QED
  BY <1>4

\* The count to restore is the first one recorded, whatever comes after it.
LEMMA AppendFirst ==
  ASSUME NEW j \in Seq(Entry), NEW e \in Entry, NEW w
  PROVE  /\ w \in Named(j, {"scale"}) => OriginalReplicas(Append(j, e), w) = OriginalReplicas(j, w)
         /\ w \notin Named(j, {"scale"}) /\ e.kind = "scale" /\ e.workload = w => OriginalReplicas(Append(j, e), w) = e.detail
<1> DEFINE k == Append(j, e)
           S == {i \in 1..Len(j) : j[i].kind = "scale" /\ j[i].workload = w}
           T == {i \in 1..Len(k) : k[i].kind = "scale" /\ k[i].workload = w}
<1>1. /\ Len(k) = Len(j) + 1 /\ Len(j) \in Nat /\ k[Len(k)] = e
      /\ \A i \in 1..Len(j) : k[i] = j[i]
  OBVIOUS
<1>2. /\ OriginalReplicas(j, w) = j[CHOOSE i \in S : \A l \in S : i <= l].detail
      /\ OriginalReplicas(k, w) = k[CHOOSE i \in T : \A l \in T : i <= l].detail
  BY DEF OriginalReplicas
<1> HIDE DEF k
<1>3. \A i : i \in 1..Len(k) <=> (i \in 1..Len(j) \/ i = Len(k))
  BY <1>1
<1>4. S \subseteq 1..Len(j) /\ T \subseteq 1..Len(k)
  OBVIOUS
<1>5. \A i : i \in T <=> (i \in S \/ (i = Len(k) /\ e.kind = "scale" /\ e.workload = w))
  BY <1>1, <1>3
<1>6. w \in Named(j, {"scale"}) <=> S # {}
  BY DEF Named
<1> HIDE DEF S, T
<1>7. ASSUME S # {} PROVE OriginalReplicas(k, w) = OriginalReplicas(j, w)
  <2>0. \A i \in S : i \in Nat /\ i < Len(k)
    BY <1>1, <1>4
  <2>1. \A i : (i \in T /\ \A l \in T : i <= l) <=> (i \in S /\ \A l \in S : i <= l)
    <3>1. ASSUME NEW i \in S, \A l \in S : i <= l PROVE i \in T /\ \A l \in T : i <= l
      BY <2>0, <1>1, <1>5, <3>1
    <3>2. ASSUME NEW i \in T, \A l \in T : i <= l PROVE i \in S /\ \A l \in S : i <= l
      <4>1. PICK m \in S : m \in T
        BY <1>5, <1>7
      <4>2. i # Len(k)
        BY <2>0, <1>1, <3>2, <4>1
      <4> QED
        BY <1>5, <3>2, <4>2
    <3> QED
      BY <3>1, <3>2
  <2>2. (CHOOSE i \in T : \A l \in T : i <= l) = (CHOOSE i \in S : \A l \in S : i <= l)
    BY <2>1
  <2>3. \E i \in S : \A l \in S : i <= l
    BY <2>0, <1>7, Least
  <2>4. (CHOOSE i \in S : \A l \in S : i <= l) \in S
    BY <2>3
  <2> QED
    BY <2>2, <2>4, <1>1, <1>2, <1>4
<1>9. ASSUME S = {}, e.kind = "scale", e.workload = w PROVE OriginalReplicas(k, w) = e.detail
  <2>1. T = {Len(k)}
    BY <1>5, <1>9
  <2>2. (CHOOSE i \in T : \A l \in T : i <= l) = Len(k)
    BY <2>1, <1>1
  <2> QED
    BY <2>2, <1>1, <1>2
<1> QED
  BY <1>6, <1>7, <1>9 DEF k
\* What a journal line adds, and what it leaves as it was.
LEMMA JournalGrows ==
  ASSUME Inv, NEW c \in Run, NEW e \in Entry, journal' = [journal EXCEPT ![c] = Append(@, e)],
         UNCHANGED <<replicas, rules, disk>>,
         \A v \in Verify : pc'[v] = pc[v] /\ subject'[v] = subject[v] /\ record'[v] = record[v],
         e.kind = "scale" => e.workload \in Scaled(c) \/ e.detail = Baseline[e.workload]
  PROVE  /\ \A d \in Run : Scaled(d) \subseteq Scaled(d)' /\ Faulted(d) \subseteq Faulted(d)'
         /\ e.kind = "scale" => e.workload \in Scaled(c)'
         /\ FirstCounts' /\ UndoneBy(Run)' /\ (UndoneBy({c}) => UndoneBy({c})')
         /\ \A d \in Run : Standing(d) => Standing(d)'
         /\ Len(journal'[c]) > 0 /\ journal'[c][Len(journal'[c])] = e
<1>1. journal \in [Run -> Seq(Entry)] /\ journal[c] \in Seq(Entry)
  BY DEF Inv, Types, FileTypes
<1>2. journal'[c] = Append(journal[c], e) /\ \A d \in Run : d # c => journal'[d] = journal[d]
  BY <1>1
<1>3. /\ Scaled(c)' = Scaled(c) \cup (IF e.kind \in {"scale"} THEN {e.workload} ELSE {})
      /\ Faulted(c) \subseteq Faulted(c)'
  BY <1>1, <1>2, AppendNamed DEF Scaled, Faulted
<1>4. \A d \in Run : d # c => Scaled(d)' = Scaled(d) /\ Faulted(d)' = Faulted(d)
  BY <1>2 DEF Scaled, Faulted
<1>5. FirstCounts'
  <2>1. ASSUME NEW w \in Scaled(c)' PROVE OriginalReplicas(journal'[c], w) = Baseline[w]
    <3>1. CASE w \in Scaled(c)
      <4>1. OriginalReplicas(journal'[c], w) = OriginalReplicas(journal[c], w)
        BY <1>1, <1>2, <3>1, AppendFirst DEF Scaled
      <4> QED
        BY <3>1, <4>1 DEF Inv, FirstCounts
    <3>2. CASE w \notin Scaled(c)
      <4>1. e.kind = "scale" /\ e.workload = w
        BY <1>3, <2>1, <3>2
      <4>2. OriginalReplicas(journal'[c], w) = e.detail
        BY <1>1, <1>2, <3>2, <4>1, AppendFirst DEF Scaled
      <4> QED
        BY <3>2, <4>1, <4>2
    <3> QED
      BY <3>1, <3>2
  <2>2. ASSUME NEW d \in Run, d # c, NEW w \in Scaled(d)' PROVE OriginalReplicas(journal'[d], w) = Baseline[w]
    BY <1>2, <1>4, <2>2 DEF Inv, FirstCounts
  <2> QED
    BY <2>1, <2>2 DEF FirstCounts
<1>6. \A d \in Run : Standing(d) <=> Standing(d)'
  BY SaidSame
<1>7. \A d \in Run : Scaled(d) \subseteq Scaled(d)' /\ Faulted(d) \subseteq Faulted(d)'
  BY <1>3, <1>4
<1>8. UndoneBy(Run)' /\ (UndoneBy({c}) => UndoneBy({c})')
  BY <1>6, <1>7 DEF Inv, UndoneBy
<1>9. Len(journal'[c]) > 0 /\ journal'[c][Len(journal'[c])] = e
  BY <1>1, <1>2
<1> QED
  BY <1>3, <1>5, <1>6, <1>7, <1>8, <1>9

\* One task of a run changes, and its new state is backed by the journal.
LEMMA TaskKept ==
  ASSUME Inv, NEW c \in Run, NEW i \in DOMAIN task[c], NEW t \in Task, UNCHANGED scenario,
         task' = [task EXCEPT ![c] = [@ EXCEPT ![i] = t]],
         \A d \in Run : Scaled(d) \subseteq Scaled(d)',
         t.state = "read" /\ Actions(c)[i].action = "scale" =>
            Actions(c)[i].workload \in Scaled(c)' \/ t.original = Baseline[Actions(c)[i].workload],
         t.state = "journaled" /\ Actions(c)[i].action = "scale" => Actions(c)[i].workload \in Scaled(c)',
         t.state = "applied" => Actions(c)[i].workload \in Scaled(c)'
  PROVE  \A d \in Run : TasksOf(d)'
<1>0. MemoryTypes /\ \A d \in Run : TasksOf(d)
  BY DEF Inv, Types
<1>1. \A d \in Run : Actions(d)' = Actions(d) /\ DOMAIN task'[d] = DOMAIN task[d]
  BY <1>0, KindsDiffer DEF Actions, MemoryTypes
<1>2. ASSUME NEW d \in Run, NEW l \in DOMAIN task[d]
      PROVE  task'[d][l] = IF d = c /\ l = i THEN t ELSE task[d][l]
  BY <1>0, KindsDiffer DEF MemoryTypes
<1>3. ASSUME NEW d \in Run, NEW l \in DOMAIN task'[d]
      PROVE  LET w == Actions(d)'[l].workload
                 scales == Actions(d)'[l].action = "scale"
             IN  /\ task'[d][l].state = "read" /\ scales => w \in Scaled(d)' \/ task'[d][l].original = Baseline[w]
                 /\ task'[d][l].state = "journaled" /\ scales => w \in Scaled(d)'
                 /\ task'[d][l].state = "applied" => w \in Scaled(d)'
  <2>0. l \in DOMAIN task[d]
    BY <1>1, <1>3
  <2>1. CASE d = c /\ l = i
    BY <1>1, <1>2, <2>0, <2>1
  <2>2. CASE ~(d = c /\ l = i)
    BY <1>0, <1>1, <1>2, <2>0, <2>2 DEF TasksOf
  <2> QED
    BY <2>1, <2>2
<1> QED
  BY <1>3 DEF TasksOf

\* A run scales a workload its journal names.
LEMMA ScaleKept ==
  ASSUME Inv, NEW c \in Run, NEW w \in Scaled(c), NEW n, SetReplicas(w, n),
         pc[c] \in {"traffic", "draining"}, UNCHANGED <<journal, disk, pc, subject, record>>
  PROVE  UndoneBy({c})' /\ UndoneBy(Run)'
<1>1. UndoneBy({c}) /\ Standing(c)
  BY DEF Inv, Held, PlatformAt, RecordAt, Changing
<1>2. Standing(c)' /\ Scaled(c)' = Scaled(c) /\ Faulted(c)' = Faulted(c)
  BY <1>1, SaidSame DEF Scaled, Faulted
<1>3. /\ replicas' = [replicas EXCEPT ![w] = n] /\ rules' \subseteq rules
      /\ replicas \in [Workload -> Nat]
  BY DEF SetReplicas, Inv, Types, PlatformTypes
<1>4. UndoneBy({c})'
  <2>1. ASSUME NEW x \in Workload, replicas'[x] # Baseline[x] PROVE x \in Scaled(c)
    BY <1>1, <1>3, <2>1 DEF UndoneBy
  <2> QED
    BY <2>1, <1>1, <1>2, <1>3 DEF UndoneBy
<1> QED
  BY <1>4, MoreUndo DEF UndoneBy
\* Steps of a run that leave the platform alone.
LEMMA KeptRunQuiet ==
  ASSUME Inv, NEW c \in Run,
         \/ Acquire(c) \/ Preflight(c) \/ NextFault(c) \/ StartTraffic(c) \/ Checks(c) \/ Drained(c) \/ Finally(c)
  PROVE  Kept'
<1>0. Types /\ Places /\ MemoryTypes /\ PlatformTypes /\ FileTypes /\ c \in Command
  BY KindsDiffer DEF Inv, Types
<1>1. \A d \in Command : d # c => SameMemory(d)
  BY <1>0, Elsewhere DEF RunStep
<1>2. UNCHANGED <<platform, files, scenario, queue, subject, task>>
  BY DEF Acquire, Preflight, NextFault, StartTraffic, Checks, Drained, Finally, work
<1>3. Quiet
  BY <1>1, <1>2, SaidSame, KindsDiffer DEF Quiet, SameMemory, platform, files
<1>4. Seen'
  BY <1>1, <1>2, SeenKept, KindsDiffer DEF SameMemory, files
<1>5. RecordAt(c) /\ PlatformAt(c) /\ FaultsAt(c)
  BY DEF Inv, Held
<1>6. /\ \A d \in Run : Standing(d) => Standing(d)'
      /\ AsFound => AsFound' /\ UndoneBy({c})'
      /\ UndoneBy({c}) => UndoneBy({c})'
  <2>1. \A d \in Run : Standing(d) => Standing(d)'
    BY <1>3, QuietStanding
  <2>2. UndoneBy({c}) => UndoneBy({c})'
    BY <1>3, QuietUndone
  <2>3. AsFound => UndoneBy({c})
    BY <1>0, NothingToUndo
  <2>4. AsFound => AsFound'
    BY <1>3, QuietAsFound
  <2> QED
    BY <2>1, <2>2, <2>3, <2>4
<1>7. c \notin Reset
  BY KindsDiffer
<1>8. Held(c)'
  <2>1. CASE Acquire(c)
    <3>1. pc[c] = "acquire" /\ pc'[c] \in {"load", "exit"} /\ record' = record /\ targets' = targets
      BY <1>0, <2>1, GotoIs DEF Acquire, work
    <3> QED
      BY <1>2, <1>5, <1>7, <3>1
         DEF Held, RecoveryAt, RecordAt, PlatformAt, FaultsAt, Starting, Changing, Closing, files
  <2>2. CASE Preflight(c)
    <3>1. pc[c] = "preflight" /\ targets' = targets
      BY <2>2 DEF Preflight
    <3>2. (pc'[c] = "breakers" /\ record' = record) \/ (pc'[c] = "finally" /\ record'[c].restored)
      BY <1>0, <2>2, GotoIs DEF Preflight, MemoryTypes
    <3> QED
      BY <1>2, <1>5, <1>6, <1>7, <3>1, <3>2
         DEF Held, RecoveryAt, RecordAt, PlatformAt, FaultsAt, Starting, Changing, Closing, files
  <2>3. CASE NextFault(c)
    <3> DEFINE w == Faults(c)[fault[c] + 1].service
    <3>1. w \in Workload
      <4>1. fault[c] + 1 \in 1..Len(Faults(c))
        BY <1>0, <2>3 DEF NextFault, MemoryTypes, Types, ScenarioTypes, Faults
      <4> QED
        BY <1>0, <4>1, FaultFacts DEF Types
    <3>2. ReadyPods(w) \subseteq Running
      BY <1>0, <3>1, RunningPodsAre
    <3>3. targets'[c] \subseteq ReadyPods(w)
      <4>1. ReadyPods(w) # {}
        BY <2>3 DEF NextFault
      <4>2. (CHOOSE p \in ReadyPods(w) : TRUE) \in ReadyPods(w)
        BY <4>1
      <4> QED
        BY <1>0, <2>3, <4>2 DEF NextFault, MemoryTypes
    <3>4. Running' = Running /\ breakersOpen' = breakersOpen
      BY <1>2 DEF Running, RunningPods, platform
    <3>5. pc[c] = "faults" /\ pc' = pc /\ record' = record
      BY <2>3 DEF NextFault
    <3>6. FaultsAt(c)'
      BY <1>5, <3>2, <3>3, <3>4, <3>5 DEF FaultsAt, Starting
    <3> QED
      BY <1>2, <1>5, <1>6, <1>7, <3>5, <3>6
         DEF Held, RecoveryAt, RecordAt, PlatformAt, Starting, Changing, Closing, files
  <2>4. CASE StartTraffic(c)
    <3>1. pc[c] = "faults" /\ pc'[c] = "traffic" /\ record' = record
      BY <1>0, <2>4, GotoIs DEF StartTraffic, work
    <3> QED
      BY <1>2, <1>5, <1>6, <1>7, <3>1
         DEF Held, RecoveryAt, RecordAt, PlatformAt, FaultsAt, Starting, Changing, Closing, files
  <2>5. CASE Checks(c)
    <3>1. pc[c] = "checks" /\ pc'[c] = "finally" /\ record'[c].restored = record[c].restored
      BY <1>0, <2>5, GotoIs DEF Checks, MemoryTypes, Record
    <3> QED
      BY <1>2, <1>5, <1>6, <1>7, <3>1
         DEF Held, RecoveryAt, RecordAt, PlatformAt, FaultsAt, Starting, Changing, Closing, files
  <2>6. CASE Drained(c)
    <3>1. pc[c] = "draining" /\ pc'[c] = "finally" /\ record' = record
      BY <1>0, <2>6, GotoIs DEF Drained, work
    <3> QED
      BY <1>2, <1>5, <1>6, <1>7, <3>1
         DEF Held, RecoveryAt, RecordAt, PlatformAt, FaultsAt, Starting, Changing, Closing, files
  <2>7. CASE Finally(c)
    <3>1. /\ pc[c] = "finally" /\ record' = record
          /\ pc'[c] = IF record[c].restored THEN "finalSave" ELSE "finallyRestore"
          /\ plan'[c] = RestorePlan(journal[c])
      BY <1>0, <2>7, GotoIs DEF Finally, MemoryTypes
    <3>2. subject[c] = c
      BY <1>5, <3>1 DEF RecordAt, Closing
    <3>3. ~record[c].restored => LeftBy(c, {c})'
      <4>1. ~record[c].restored => UndoneBy({c})'
        BY <1>5, <1>6, <3>1 DEF PlatformAt
      <4>2. plan'[c].scale = Scaled(c)' /\ plan'[c].clear = Faulted(c)'
        BY <1>2, <3>1 DEF RestorePlan, Scaled, Faulted, files
      <4> QED
        BY <1>2, <3>2, <4>1, <4>2 DEF UndoneBy, LeftBy
    <3> QED
      BY <1>2, <1>5, <1>6, <1>7, <3>1, <3>2, <3>3
         DEF Held, RecoveryAt, RecordAt, PlatformAt, FaultsAt, Starting, Changing, Closing, files
  <2> QED
    BY <2>1, <2>2, <2>3, <2>4, <2>5, <2>6, <2>7
<1> QED
  BY <1>0, <1>1, <1>2, <1>3, <1>4, <1>8, QuietKept DEF platform, files

\* The faults of a run: written down, then put on a pod.
LEMMA KeptFaults ==
  ASSUME Inv, NEW c \in Run, JournalFault(c) \/ PutFault(c)
  PROVE  Kept'
<1>0. Types /\ Places /\ MemoryTypes /\ PlatformTypes /\ FileTypes /\ c \in Command
  BY KindsDiffer DEF Inv, Types
<1>1. \A d \in Command : d # c => SameMemory(d)
  BY <1>0, Elsewhere DEF RunStep
<1>2. UNCHANGED <<replicas, breakersOpen, disk, scenario, record, queue, subject, plan, task>>
  BY DEF JournalFault, PutFault, work, platform, files
<1>3. \A v \in Verify : pc'[v] = pc[v] /\ subject'[v] = subject[v] /\ record'[v] = record[v]
  BY <1>1, KindsDiffer DEF SameMemory
<1>4. Seen'
  BY <1>2, <1>3, SeenKept
<1>5. RecordAt(c) /\ PlatformAt(c) /\ FaultsAt(c) /\ Working(c) /\ c \notin Reset
  BY KindsDiffer DEF Inv, Held, Working, JournalFault, PutFault, Ended
<1>6. \A d \in Run : Standing(d) <=> Standing(d)'
  BY <1>2, <1>3, SaidSame
<1>7. CASE JournalFault(c)
  <2>1. PICK p \in targets[c] : Journal(c, "fault", p[1], p[2])
    BY <1>7 DEF JournalFault
  <2> DEFINE e == [kind |-> "fault", workload |-> p[1], detail |-> p[2]]
  <2>2. p \in Workload \X Nat /\ e \in Entry
    BY <1>0 DEF MemoryTypes, Entry
  <2>3. journal' = [journal EXCEPT ![c] = Append(@, e)]
    BY <2>1 DEF Journal
  <2>4. e.kind = "fault" /\ <<e.workload, e.detail>> = p
    BY <2>2
  <2> HIDE DEF e
  <2>5. UNCHANGED <<replicas, rules, disk>>
    BY <1>7 DEF JournalFault, platform
  <2>6. /\ \A d \in Run : Scaled(d) \subseteq Scaled(d)'
        /\ FirstCounts' /\ UndoneBy(Run)' /\ (UndoneBy({c}) => UndoneBy({c})')
        /\ Len(journal'[c]) > 0 /\ journal'[c][Len(journal'[c])] = e
    BY <1>3, <2>2, <2>3, <2>4, <2>5, JournalGrows
  <2>7. \A d \in Run : TasksOf(d)'
    BY <1>2, <2>6 DEF Inv, TasksOf, Actions
  <2>8. pc[c] = "faults" /\ pc'[c] = "faultPut" /\ targets' = targets
    BY <1>0, <1>7, GotoIs DEF JournalFault, work
  <2>9. FaultsAt(c)'
    <3>1. Running' = Running
      BY <1>2 DEF Running, RunningPods
    <3> QED
      BY <1>2, <1>5, <2>4, <2>6, <2>8, <3>1 DEF FaultsAt, Starting
  <2>10. Held(c)'
    BY <1>2, <1>5, <1>6, <2>6, <2>8, <2>9
       DEF Held, RecoveryAt, RecordAt, PlatformAt, Starting, Changing, Closing
  <2> QED
    BY <1>1, <1>2, <1>4, <1>5, <2>6, <2>7, <2>10, WorkKept
<1>8. CASE PutFault(c)
  <2> DEFINE last == journal[c][Len(journal[c])]
             pod == <<last.workload, last.detail>>
             rule == ToRule(Faults(c)[fault[c]], c, pod)
  <2>1. pc[c] = "faultPut" /\ pc'[c] = "faults" /\ UNCHANGED journal
    BY <1>0, <1>8, GotoIs DEF PutFault, files
  <2>2. last.workload \in Faulted(c)
    BY <2>1, FaultedPod
  <2>3. rules' = rules \cup {rule} /\ targets'[c] \subseteq targets[c]
    BY <1>0, <1>8 DEF PutFault, MemoryTypes
  <2>4. rule.pod[1] = last.workload
    BY DEF ToRule
  <2> HIDE DEF last, pod, rule
  <2>5. Scaled(c)' = Scaled(c) /\ Faulted(c)' = Faulted(c) /\ Standing(c)'
    BY <1>5, <1>6, <2>1 DEF Scaled, Faulted, RecordAt, Changing
  <2>6. UndoneBy({c})'
    <3>1. UndoneBy({c})
      BY <1>5, <2>1 DEF PlatformAt
    <3> QED
      BY <1>2, <2>2, <2>3, <2>4, <2>5, <3>1 DEF UndoneBy
  <2>7. UndoneBy(Run)'
    BY <2>6 DEF UndoneBy
  <2>8. FaultsAt(c)'
    <3>1. Running' = Running
      BY <1>2 DEF Running, RunningPods
    <3> QED
      BY <1>2, <1>5, <2>1, <2>3, <3>1 DEF FaultsAt, Starting
  <2>9. Held(c)'
    BY <1>2, <1>5, <1>6, <2>1, <2>6, <2>8
       DEF Held, RecoveryAt, RecordAt, PlatformAt, Starting, Changing, Closing
  <2>10. FirstCounts' /\ \A d \in Run : TasksOf(d)'
    BY <1>2, <2>1, TasksKept
  <2> QED
    BY <1>1, <1>2, <1>4, <1>5, <2>7, <2>9, <2>10, WorkKept
<1> QED
  BY <1>7, <1>8

\* The traffic ends: what the journal names is to be undone.
LEMMA KeptEndTraffic ==
  ASSUME Inv, NEW c \in Run, EndTraffic(c)
  PROVE  Kept'
<1>0. Types /\ Places /\ MemoryTypes /\ PlatformTypes /\ FileTypes /\ c \in Command
  BY KindsDiffer DEF Inv, Types
<1>1. \A d \in Command : d # c => SameMemory(d)
  BY <1>0, Elsewhere DEF RunStep
<1>2. UNCHANGED <<replicas, rules, journal, disk, scenario, record, queue, subject, targets, task>>
  BY DEF EndTraffic, files
<1>3. \A v \in Verify : pc'[v] = pc[v] /\ subject'[v] = subject[v] /\ record'[v] = record[v]
  BY <1>1, KindsDiffer DEF SameMemory
<1>4. Seen'
  BY <1>2, <1>3, SeenKept
<1>5. RecordAt(c) /\ PlatformAt(c) /\ FaultsAt(c) /\ Working(c) /\ c \notin Reset
  BY KindsDiffer DEF Inv, Held, Working, EndTraffic, Ended
<1>6. Quiet
  BY <1>2, <1>3, SaidSame DEF Quiet
<1>7. /\ pc[c] = "traffic" /\ pc'[c] = "bodyRestore"
      /\ plan'[c] = RestorePlan(journal[c])
  BY <1>0, GotoIs DEF EndTraffic, MemoryTypes
<1>8. subject[c] = c
  BY <1>5, <1>7 DEF RecordAt, Changing
<1>9. UndoneBy({c})' /\ UndoneBy(Run)' /\ (\A d \in Run : Standing(d) => Standing(d)')
  <2>1. UndoneBy({c}) /\ UndoneBy(Run)
    BY <1>5, <1>7 DEF PlatformAt, Inv
  <2>2. UndoneBy({c})'
    BY <1>6, <2>1, QuietUndone
  <2>3. UndoneBy(Run)'
    BY <1>6, <2>1, QuietUndone
  <2> QED
    BY <2>2, <2>3, <1>6, QuietStanding
<1>10. LeftBy(c, {c})'
  <2>1. plan'[c].scale = Scaled(c)' /\ plan'[c].clear = Faulted(c)'
    BY <1>2, <1>7 DEF RestorePlan, Scaled, Faulted
  <2> QED
    BY <1>2, <1>8, <1>9, <2>1 DEF UndoneBy, LeftBy
<1>11. Held(c)'
  BY <1>2, <1>5, <1>7, <1>8, <1>9, <1>10
     DEF Held, RecoveryAt, RecordAt, PlatformAt, FaultsAt, Starting, Changing, Closing
<1>12. FirstCounts' /\ \A d \in Run : TasksOf(d)'
  BY <1>2, TasksKept
<1> QED
  BY <1>1, <1>2, <1>4, <1>5, <1>9, <1>11, <1>12, WorkKept

\* A step of an action: it stays in the traffic, or while that drains.
LEMMA KeptByTask ==
  ASSUME Inv, NEW c \in Run, NEW i \in DOMAIN task[c], ActionStep(c, i),
         UNCHANGED breakersOpen,
         FirstCounts', \A d \in Run : TasksOf(d)', UndoneBy({c})'
  PROVE  Kept'
<1>0. Types /\ Places /\ MemoryTypes /\ PlatformTypes /\ FileTypes /\ c \in Command
  BY KindsDiffer DEF Inv, Types
<1>1. \A d \in Command : d # c => SameMemory(d)
  BY <1>0, Elsewhere DEF RunStep
<1>2. /\ UNCHANGED <<disk, pc, scenario, record, queue, subject, plan, targets>>
      /\ pc[c] \in {"traffic", "draining"}
  BY DEF ActionStep, ReadWorkload, JournalAction, ChangeWorkload, RestoreAfter, ActionFails, files
<1>3. \A v \in Verify : pc'[v] = pc[v] /\ subject'[v] = subject[v] /\ record'[v] = record[v]
  BY <1>1, KindsDiffer DEF SameMemory
<1>4. Seen'
  BY <1>2, <1>3, SeenKept
<1>5. RecordAt(c) /\ PlatformAt(c) /\ FaultsAt(c) /\ Working(c) /\ c \notin Reset
  BY <1>2, KindsDiffer DEF Inv, Held, Working, Ended
<1>6. Standing(c) => Standing(c)'
  BY <1>2, <1>3, SaidSame
<1>7. UndoneBy(Run)'
  BY DEF UndoneBy
<1>8. Held(c)'
  BY <1>2, <1>5, <1>6
     DEF Held, RecoveryAt, RecordAt, PlatformAt, FaultsAt, Starting, Changing, Closing
<1> QED
  BY <1>1, <1>2, <1>4, <1>5, <1>7, <1>8, WorkKept

LEMMA KeptTask ==
  ASSUME Inv, NEW c \in Run, NEW i \in DOMAIN task[c], ActionStep(c, i)
  PROVE  Kept'
<1> DEFINE w == Actions(c)[i].workload
           scales == Actions(c)[i].action = "scale"
<1>0. Types /\ MemoryTypes /\ PlatformTypes /\ ScenarioTypes /\ c \in Command
  BY KindsDiffer DEF Inv, Types
<1>1. \A d \in Command : d # c => SameMemory(d)
  BY <1>0, Elsewhere DEF RunStep
<1>2. /\ UNCHANGED <<disk, pc, scenario, record, subject>>
      /\ pc[c] \in {"traffic", "draining"}
  BY DEF ActionStep, ReadWorkload, JournalAction, ChangeWorkload, RestoreAfter, ActionFails, files
<1>3. \A v \in Verify : pc'[v] = pc[v] /\ subject'[v] = subject[v] /\ record'[v] = record[v]
  BY <1>2
<1>4. UndoneBy({c}) /\ Standing(c) /\ TasksOf(c) /\ FirstCounts
  BY <1>2 DEF Inv, Held, PlatformAt, RecordAt, Changing
<1>a. i \in 1..Len(scenario[c].actions) /\ task[c][i] \in Task
  BY <1>0, TaskFacts
<1>b. /\ Actions(c)[i].action \in {"scale", "rollout-restart", "delete-pod"}
      /\ w \in Workload
      /\ scales => Actions(c)[i].replicas \in Nat
      /\ Actions(c)[i].restoreAfter => scales
  BY <1>0, <1>a, ActionFacts
<1>c. /\ task[c][i].state = "read" /\ scales => w \in Scaled(c) \/ task[c][i].original = Baseline[w]
      /\ task[c][i].state = "journaled" /\ scales => w \in Scaled(c)
      /\ task[c][i].state = "applied" => w \in Scaled(c)
  BY <1>4 DEF TasksOf
<1>s. ASSUME UNCHANGED <<replicas, rules>>, UNCHANGED journal PROVE UndoneBy({c})'
  <2>1. Standing(c)'
    BY <1>2, <1>3, <1>4, SaidSame
  <2> QED
    BY <1>4, <1>s, <2>1 DEF UndoneBy, Scaled, Faulted
<1>f. ASSUME UNCHANGED journal PROVE FirstCounts' /\ \A d \in Run : Scaled(d)' = Scaled(d)
  BY <1>4, <1>f DEF FirstCounts, Scaled
<1>5. CASE ReadWorkload(c, i)
  <2> DEFINE t == [state |-> "read", original |-> replicas[w]]
  <2>1. task' = [task EXCEPT ![c] = [@ EXCEPT ![i] = t]]
    BY <1>0, <1>5 DEF ReadWorkload, MemoryTypes
  <2>2. t \in Task
    <3>1. replicas[w] \in Nat
      BY <1>0, <1>b DEF PlatformTypes
    <3> QED
      BY <3>1 DEF Task
  <2>3. UNCHANGED <<replicas, rules, breakersOpen, journal>>
    BY <1>5 DEF ReadWorkload, platform, files
  <2>4. w \in Scaled(c) \/ t.original = Baseline[w]
    BY <1>b, <1>4 DEF UndoneBy
  <2>5. t.state = "read"
    OBVIOUS
  <2>6. FirstCounts' /\ \A d \in Run : Scaled(d)' = Scaled(d)
    BY <2>3, <1>f
  <2> HIDE DEF t
  <2>7. \A d \in Run : TasksOf(d)'
    BY <1>2, <2>1, <2>2, <2>4, <2>5, <2>6, TaskKept
  <2>8. UndoneBy({c})'
    BY <1>s, <2>3
  <2> QED
    BY <2>3, <2>6, <2>7, <2>8, KeptByTask
<1>6. CASE JournalAction(c, i)
  <2> DEFINE e == [kind |-> Actions(c)[i].action, workload |-> w, detail |-> task[c][i].original]
  <2>1. e \in Entry
    <3>1. task[c][i].original \in Nat
      BY <1>a DEF Task
    <3> QED
      BY <1>b, <3>1 DEF Entry
  <2>2. journal' = [journal EXCEPT ![c] = Append(@, e)]
    BY <1>6 DEF JournalAction, Journal
  <2>3. e.kind = Actions(c)[i].action /\ e.workload = w /\ e.detail = task[c][i].original
    OBVIOUS
  <2>4. UNCHANGED <<replicas, rules, breakersOpen>> /\ task[c][i].state = "read"
    BY <1>6 DEF JournalAction, platform, TaskIn
  <2> HIDE DEF e
  <2>5. e.kind = "scale" => e.workload \in Scaled(c) \/ e.detail = Baseline[e.workload]
    BY <1>c, <2>3, <2>4
  <2>6. /\ \A d \in Run : Scaled(d) \subseteq Scaled(d)'
        /\ e.kind = "scale" => e.workload \in Scaled(c)'
        /\ FirstCounts' /\ (UndoneBy({c}) => UndoneBy({c})')
    BY <1>2, <1>3, <2>1, <2>2, <2>4, <2>5, JournalGrows
  <2>7. PICK t \in Task : t.state = "journaled" /\ task' = [task EXCEPT ![c] = [@ EXCEPT ![i] = t]]
    BY <1>0, <1>6, SetTaskIs DEF JournalAction
  <2>8. \A d \in Run : TasksOf(d)'
    BY <1>2, <2>3, <2>6, <2>7, TaskKept
  <2> QED
    BY <1>4, <2>4, <2>6, <2>8, KeptByTask
<1>7. CASE ChangeWorkload(c, i)
  <2>1. UNCHANGED <<journal, breakersOpen>> /\ task[c][i].state = "journaled"
    BY <1>7 DEF ChangeWorkload, SetReplicas, files, TaskIn
  <2>2. FirstCounts' /\ \A d \in Run : Scaled(d)' = Scaled(d)
    BY <2>1, <1>f
  <2>3. PICK t \in Task : /\ t.state = IF Actions(c)[i].restoreAfter THEN "applied" ELSE "done"
                          /\ task' = [task EXCEPT ![c] = [@ EXCEPT ![i] = t]]
    BY <1>0, <1>7, SetTaskIs DEF ChangeWorkload
  <2>4. t.state = "applied" => w \in Scaled(c)
    BY <1>b, <1>c, <2>1, <2>3
  <2>5. \A d \in Run : TasksOf(d)'
    BY <1>2, <2>2, <2>3, <2>4, TaskKept
  <2>6. UndoneBy({c})'
    <3>1. CASE scales /\ SetReplicas(w, Actions(c)[i].replicas)
      BY <1>2, <1>c, <2>1, <3>1, ScaleKept
    <3>2. CASE UNCHANGED <<replicas, rules>>
      BY <1>s, <2>1, <3>2
    <3> QED
      BY <1>7, <3>1, <3>2 DEF ChangeWorkload
  <2> QED
    BY <2>1, <2>2, <2>5, <2>6, KeptByTask
<1>8. CASE RestoreAfter(c, i)
  <2>1. /\ UNCHANGED <<journal, breakersOpen>> /\ task[c][i].state = "applied"
        /\ SetReplicas(w, task[c][i].original)
    BY <1>8 DEF RestoreAfter, SetReplicas, files, TaskIn
  <2>2. FirstCounts' /\ \A d \in Run : Scaled(d)' = Scaled(d)
    BY <2>1, <1>f
  <2>3. PICK t \in Task : t.state = "done" /\ task' = [task EXCEPT ![c] = [@ EXCEPT ![i] = t]]
    BY <1>0, <1>8, SetTaskIs DEF RestoreAfter
  <2>4. \A d \in Run : TasksOf(d)'
    BY <1>2, <2>2, <2>3, TaskKept
  <2>5. UndoneBy({c})'
    BY <1>2, <1>c, <2>1, ScaleKept
  <2> QED
    BY <2>1, <2>2, <2>4, <2>5, KeptByTask
<1>9. CASE ActionFails(c, i)
  <2>1. UNCHANGED <<replicas, rules, journal, breakersOpen>>
    BY <1>9 DEF ActionFails, platform, files
  <2>2. FirstCounts' /\ \A d \in Run : Scaled(d)' = Scaled(d)
    BY <2>1, <1>f
  <2>3. PICK t \in Task : t.state = "done" /\ task' = [task EXCEPT ![c] = [@ EXCEPT ![i] = t]]
    BY <1>0, <1>9, SetTaskIs DEF ActionFails
  <2>4. \A d \in Run : TasksOf(d)'
    BY <1>2, <2>2, <2>3, TaskKept
  <2>5. UndoneBy({c})'
    BY <1>s, <2>1
  <2> QED
    BY <2>1, <2>2, <2>4, <2>5, KeptByTask
<1> QED
  BY <1>5, <1>6, <1>7, <1>8, <1>9 DEF ActionStep

LEMMA KeptRun ==
  ASSUME Inv, NEW c \in Run, RunStep(c)
  PROVE  Kept'
<1>1. CASE \/ Acquire(c) \/ Preflight(c) \/ NextFault(c) \/ StartTraffic(c) \/ Checks(c) \/ Drained(c) \/ Finally(c)
  BY <1>1, KeptRunQuiet
<1>2. CASE JournalFault(c) \/ PutFault(c)
  BY <1>2, KeptFaults
<1>3. CASE EndTraffic(c)
  BY <1>3, KeptEndTraffic
<1>4. ASSUME NEW i \in DOMAIN task[c], ActionStep(c, i) PROVE Kept'
  BY <1>4, KeptTask
<1> QED
  BY <1>1, <1>2, <1>3, <1>4 DEF RunStep

\* What happens to the platform and the lock by itself.
LEMMA KeptByItself ==
  ASSUME Inv, (\E w \in Workload : Settle(w)) \/ (\E r \in rules : RuleGone(r)) \/ LeaseExpires \/ UNCHANGED vars
  PROVE  Kept'
<1>0. Types /\ MemoryTypes
  BY DEF Inv, Types
<1>1. UNCHANGED <<replicas, breakersOpen, journal, disk, pc, work>> /\ rules' \subseteq rules
  BY DEF Settle, RuleGone, LeaseExpires, vars, platform, files
<1>2. \A d \in Command : SameMemory(d)
  BY <1>1 DEF SameMemory, work
<1>3. Quiet
  BY <1>1, SaidSame DEF Quiet, work
<1>4. Seen'
  BY <1>1, SeenKept DEF work
<1>5. FirstCounts' /\ \A d \in Run : TasksOf(d)'
  BY <1>1, TasksKept DEF work
<1>6. UndoneBy(Run)'
  BY <1>3, QuietUndone DEF Inv
<1>7. \A d \in Run \cup Reset : Held(d)'
  <2>1. ASSUME NEW d \in Run \cup Reset PROVE Held(d)'
    BY <1>1, <1>2, <1>3, QuietHeld DEF Command
  <2> QED
    BY <2>1
<1> QED
  BY <1>4, <1>5, <1>6, <1>7 DEF Kept

LEMMA KeptStep == Inv /\ [Next]_vars => Kept'
<1> SUFFICES ASSUME Inv, [Next]_vars PROVE Kept'
  OBVIOUS
<1>1. ASSUME NEW c \in Command, OtherStep(c) PROVE Kept'
  BY <1>1, KeptOther
<1>2. ASSUME NEW c \in Command, RestoreStep(c) PROVE Kept'
  BY <1>2, KeptRestore
<1>3. ASSUME NEW c \in Run, RunStep(c) PROVE Kept'
  BY <1>3, KeptRun
<1>4. CASE (\E w \in Workload : Settle(w)) \/ (\E r \in rules : RuleGone(r)) \/ LeaseExpires \/ UNCHANGED vars
  BY <1>4, KeptByItself
<1> QED
  BY <1>1, <1>2, <1>3, <1>4, NextSteps

LEMMA InvInit == Init => Inv
<1> SUFFICES ASSUME Init PROVE Inv
  OBVIOUS
<1>1. PlatformTypes
  <2>1. replicas \in [Workload -> Nat] /\ settled \in [Workload -> BOOLEAN]
    BY KindsAssumption DEF Init
  <2> QED
    BY <2>1 DEF PlatformTypes, Init
<1>2. FileTypes
  BY DEF FileTypes, File, Statuses, Init
<1>3. \A c \in Command : pc[c] \in {"idle", "end"}
  BY DEF Init
<1>4. Places
  <2>1. pc \in [Command -> {"idle", "end"}]
    BY <1>3 DEF Init
  <2> QED
    BY <2>1, <1>3, KindsDiffer DEF Places, Place, RunPlace, ResetPlace, VerifyPlace, Starting, Changing, Closing, Ended
<1>5. ScenarioTypes
  <2>1. DOMAIN scenario = Run /\ scenario = [c \in Run |-> scenario[c]]
    BY DEF Init
  <2>2. \A c \in Run : scenario[c] \in [faults : Seq(FaultFields), actions : Seq(ActionFields)] /\ ValidScenario(scenario[c])
    BY FilesAssumption DEF Init
  <2> QED
    BY <2>1, <2>2 DEF ScenarioTypes
<1>6. /\ \A c \in Command : task[c] = [i \in 1..(IF c \in Run THEN Len(scenario[c].actions) ELSE 0) |-> NewTask]
      /\ DOMAIN task = Command
  BY DEF Init
<1>7. MemoryTypes
  <2>1. record \in [Command -> Record] /\ plan \in [Command -> Plan]
    BY FreshTypes DEF Init
  <2>2. \A c \in Command : task[c] \in [DOMAIN task[c] -> Task]
    BY <1>6, FreshTypes
  <2>3. \A c \in Run : DOMAIN task[c] = 1..Len(scenario[c].actions)
    BY <1>6, KindsDiffer
  <2>4. /\ queue \in [Command -> SUBSET Run] /\ subject \in [Command -> Command]
        /\ fault \in [Command -> Nat] /\ targets \in [Command -> SUBSET (Workload \X Nat)]
    BY DEF Init
  <2> QED
    BY <1>6, <2>1, <2>2, <2>3, <2>4 DEF MemoryTypes
<1>8. Turns
  BY <1>3, KindsDiffer DEF Turns, Working, Live, Ended
<1>9. Seen
  BY <1>3, KindsDiffer DEF Seen, Init
<1>10. UndoneBy(Run)
  BY <1>1, NothingToUndo DEF AsFound, Init
<1>11. FirstCounts
  <2>1. \A d \in Run : Scaled(d) = {}
    BY DEF Scaled, Named, Init
  <2> QED
    BY <2>1 DEF FirstCounts
<1>12. \A c \in Run : TasksOf(c)
  <2>1. \A c \in Run : \A i \in DOMAIN task[c] : task[c][i].state = "waiting"
    BY <1>6, KindsDiffer DEF NewTask
  <2> QED
    BY <2>1 DEF TasksOf
<1>13. \A c \in Run \cup Reset : Held(c)
  <2>1. ASSUME NEW c \in Run \cup Reset PROVE Held(c)
    <3>1. pc[c] \in {"idle", "end"}
      BY <1>3, KindsDiffer
    <3>2. c \in Run => disk[c].file = "absent" /\ ~record[c].restored /\ targets[c] = {}
      BY KindsDiffer DEF Init, NewRecord
    <3> QED
      BY <3>1, <3>2 DEF Held, RecoveryAt, RecordAt, PlatformAt, FaultsAt, ResetAt, Starting, Changing, Closing
  <2> QED
    BY <2>1
<1> QED
  BY <1>1, <1>2, <1>4, <1>5, <1>7, <1>8, <1>9, <1>10, <1>11, <1>12, <1>13 DEF Inv, Types

LEMMA InvStep == Inv /\ ResetBesideRun = FALSE /\ [Next]_vars => Inv'
<1> SUFFICES ASSUME Inv, ResetBesideRun = FALSE, [Next]_vars PROVE Inv'
  OBVIOUS
<1>1. Types' /\ Turns' /\ Kept'
  BY TypesStep, TurnsStep, KeptStep
<1> QED
  BY <1>1 DEF Inv, Kept

LEMMA Invariance == ASSUME ResetBesideRun = FALSE PROVE Spec => []Inv
<1>1. Inv /\ [Next]_vars => Inv'
  BY InvStep
<1> QED
  BY <1>1, InvInit, PTL DEF Spec

-----------------------------------------------------------------------------
(* The theorems.                                                            *)

\* Counts, rules, records and plans hold what the commands may put there, and
\* a rule is always on a pod that runs.
THEOREM Typing ==
  ASSUME ResetBesideRun = FALSE
  PROVE  Spec => []TypeOK
<1>1. Inv => TypeOK
  <2> SUFFICES ASSUME Inv PROVE TypeOK
    OBVIOUS
  <2>1. PlatformTypes /\ FileTypes /\ MemoryTypes
    BY DEF Inv, Types
  <2>2. \A w \in Workload : replicas[w] \in Nat
    BY <2>1 DEF PlatformTypes
  <2>3. ASSUME NEW r \in rules PROVE r.pod \in RunningPods(r.pod[1])
    <3>1. PICK w \in Workload : r.pod \in RunningPods(w)
      BY <2>1 DEF PlatformTypes, Running
    <3> QED
      BY <3>1 DEF RunningPods
  <2>4. \A c \in Run : disk[c].status \in Statuses /\ disk[c].file \in {"absent", "torn", "tornByVerify", "whole"}
    BY <2>1 DEF FileTypes, File
  <2>5. \A c \in Command : /\ subject[c] \in Command
                           /\ plan[c].clear \cup plan[c].scale \cup plan[c].wait \subseteq Workload
    <3>1. ASSUME NEW c \in Command PROVE plan[c].clear \cup plan[c].scale \cup plan[c].wait \subseteq Workload
      <4>1. plan[c] \in Plan
        BY <2>1 DEF MemoryTypes
      <4> QED
        BY <4>1 DEF Plan
    <3> QED
      BY <2>1, <3>1 DEF MemoryTypes
  <2>6. lock \in Run \cup {None}
    BY <2>1 DEF FileTypes
  <2> QED
    BY <2>2, <2>3, <2>4, <2>5, <2>6 DEF TypeOK
<1> QED
  BY <1>1, Invariance, PTL

\* Whatever a run has changed and however it ended, the journal of a record
\* that is whole and unrestored names the change, and restores the deployed
\* count (control.py journals before it changes; engine.py marks a run
\* restored, and saves that, after the whole plan).
THEOREM AlwaysRecoverable ==
  ASSUME ResetBesideRun = FALSE
  PROVE  Spec => []ChangesRecoverable
<1>1. Inv => ChangesRecoverable
  <2> SUFFICES ASSUME Inv PROVE ChangesRecoverable
    OBVIOUS
  <2>1. UndoneBy(Run) /\ FirstCounts
    BY DEF Inv
  <2>2. \A d \in Run : Standing(d) => Promises(d)
    BY DEF Standing, SaidUndone, Promises
  <2>3. \A d \in Run : RestorePlan(journal[d]).scale = Scaled(d) /\ RestorePlan(journal[d]).clear = Faulted(d)
    BY DEF RestorePlan, Scaled, Faulted
  <2>4. ASSUME NEW w \in Workload, replicas[w] # Baseline[w]
        PROVE  \E c \in Run : Promises(c) /\ w \in RestorePlan(journal[c]).scale /\ OriginalReplicas(journal[c], w) = Baseline[w]
    <3>1. PICK d \in Run : Standing(d) /\ w \in Scaled(d)
      BY <2>1, <2>4 DEF UndoneBy
    <3>2. OriginalReplicas(journal[d], w) = Baseline[w]
      BY <2>1, <3>1 DEF FirstCounts
    <3> QED
      BY <2>2, <2>3, <3>1, <3>2
  <2>5. ASSUME NEW r \in rules
        PROVE  \E c \in Run : Promises(c) /\ r.pod[1] \in RestorePlan(journal[c]).clear
    <3>1. PICK d \in Run : Standing(d) /\ r.pod[1] \in Faulted(d)
      BY <2>1 DEF UndoneBy
    <3> QED
      BY <2>2, <2>3, <3>1
  <2> QED
    BY <2>4, <2>5 DEF ChangesRecoverable
<1> QED
  BY <1>1, Invariance, PTL

\* A run that passes its pre-flight, and a reset that is done, find or leave
\* the platform as deployed, with the breakers closed before the first fault
\* (engine.py run restores every interrupted run first; cli.py reset).
THEOREM StartsClean ==
  ASSUME ResetBesideRun = FALSE
  PROVE  Spec => []CleanStart
<1>1. Inv => CleanStart
  BY DEF Inv, Held, PlatformAt, FaultsAt, ResetAt, CleanStart, NextRunRestores
<1> QED
  BY <1>1, Invariance, PTL
=============================================================================
