-------------------------- MODULE ScenarioEngine --------------------------
(***************************************************************************)
(* `scenarioctl run`, `reset` and `verify` beside each other on one        *)
(* platform: the write-ahead journal, the run records on disk, and how     *)
(* they bring the platform back after an error, Ctrl+C or a crash.         *)
(*                                                                         *)
(* A command is a process.  Its calls to the cluster, its journal lines    *)
(* and the two halves of a record's write (truncate, then write) are steps *)
(* of their own; between any two of them it may raise, be interrupted or   *)
(* die.  The lock is the one RunLock models, taken and released in one     *)
(* step here; a dead holder's lease expires.                               *)
(*                                                                         *)
(* The platform is the replica count of each workload, the fault rules     *)
(* held by its running pods, whether its last change has been rolled out,  *)
(* and whether OrderService's circuit breakers are open.                   *)
(***************************************************************************)
EXTENDS Integers, Sequences, FiniteSets

CONSTANTS
    Run, Reset, Verify, \* the commands, by kind
    Workload,           \* workloads scenarios change
    Baseline,           \* their replica counts as deployed
    Scenarios,          \* for each run, the files it may be started with: [faults, actions]
    Issued,             \* the sets of commands operators issue together
    ResetBesideRun,     \* whether an operator resets while a run is going on
    None                \* nobody holds the lock

Command == Run \cup Reset \cup Verify

-----------------------------------------------------------------------------
(* Scenario files.  A field that may be left out is -1, or not in `given`.  *)

FaultOperations ==
    [inventory |-> {"inventory.reserve", "inventory.release", "readiness"}, fraud |-> {"fraud.evaluate", "readiness"},
     payment |-> {"payment.authorize", "payment.void", "readiness"}, shipping |-> {"shipping.create", "readiness"}]
Downstream == DOMAIN FaultOperations

ValidFault(f) ==
    /\ f.operation \in FaultOperations[f.service]
    /\ (f.mode = "readiness-loss") <=> (f.operation = "readiness")
    /\ f.mode = "readiness-loss" => ~f.scoped
    /\ f.mode = "latency" => "delayMs" \in f.given
    /\ f.mode \in {"http-error", "intermittent"} => "statusCode" \in f.given
    /\ f.mode = "intermittent" => Cardinality(f.given \cap {"failAttempts", "everyNth"}) = 1
    /\ f.phase = "after-effect" => f.mode = "latency"

ValidAction(a) ==
    /\ a.workload \in Workload
    /\ a.action = "scale" <=> a.replicas # -1
    /\ a.restoreAfter => a.action = "scale"

ValidScenario(s) ==
    /\ \A i \in DOMAIN s.faults : ValidFault(s.faults[i])
    /\ \A i \in DOMAIN s.actions : ValidAction(s.actions[i])

\* A scoped rule only meets the requests of its run; ttlSeconds is RuleGone.
ToRule(f, run, p) ==
    [pod |-> p, operation |-> f.operation, mode |-> f.mode, phase |-> f.phase, given |-> f.given,
     run |-> IF f.scoped THEN run ELSE None]

ASSUME KindsAssumption ==
    /\ Run \cap Reset = {} /\ Run \cap Verify = {} /\ Reset \cap Verify = {}
    /\ None \notin Command
    /\ Baseline \in [Workload -> Nat \ {0}]
    /\ Issued \subseteq SUBSET Command /\ ResetBesideRun \in BOOLEAN

\* What the schema requires of each field by itself (the faults a scenario
\* may hold are those of the workloads it may change).
FaultFields == [service : Workload \cap Downstream, operation : STRING, mode : STRING, phase : STRING,
                replicas : {"one", "all"}, scoped : BOOLEAN, given : SUBSET STRING]
ActionFields == [action : {"scale", "rollout-restart", "delete-pod"}, workload : Workload,
                 replicas : Nat \cup {-1}, restoreAfter : BOOLEAN]

ASSUME FilesAssumption ==
    \A c \in Run : Scenarios[c] \subseteq [faults : Seq(FaultFields), actions : Seq(ActionFields)]

VARIABLES
    replicas, rules, settled, breakersOpen, \* the platform
    journal,  \* each run's journal file: a sequence of [kind, workload, detail]
    disk,     \* each run's record.json: [file, restored, status]
    lock,     \* the run that holds the experiment lock, or None
    pc,       \* where each command is
    scenario, \* what each run was started with
    record,   \* each run's record in memory: [restored, status]
    queue,    \* interrupted runs a command has loaded and not yet restored
    subject,  \* the run whose record a command works on
    plan,     \* steps of the restore plan still to do: [clear, scale, wait]
    fault,    \* index of the fault being applied
    targets,  \* pods that still get it
    task      \* the Kubernetes actions of a run: [state, original]

platform == <<replicas, rules, settled, breakersOpen>>
files == <<journal, disk>>
work == <<scenario, record, queue, subject, plan, fault, targets, task>>
vars == <<platform, files, lock, pc, work>>

\* passed, failed, interrupted and error are one value here: "ended".
Statuses == {"running", "ended"}
NewRecord == [restored |-> FALSE, status |-> "running"]
NewTask == [state |-> "waiting", original |-> 0]
NoPlan == [clear |-> {}, scale |-> {}, wait |-> {}]
Goto(c, label) == pc' = [pc EXCEPT ![c] = label]

-----------------------------------------------------------------------------
(* The platform.  A pod is a workload and a number up to its replica count. *)

\* Pods whose containers run and that are not being deleted.
RunningPods(w) == {<<w, i>> : i \in 1..replicas[w]}

\* A readiness fault makes its own pod unready.
ReadyPods(w) == {p \in RunningPods(w) : ~\E r \in rules : r.pod = p /\ r.mode = "readiness-loss"}

Available(w) == settled[w] /\ ReadyPods(w) = RunningPods(w)

\* As SetReplicas, but the rules of the pods that go stay.
MutSetReplicas(w, n) ==
    /\ replicas' = [replicas EXCEPT ![w] = n]
    /\ settled' = [settled EXCEPT ![w] = (@ /\ replicas[w] = n)]
    /\ UNCHANGED <<rules, breakersOpen>>
\* Pods beyond the new count go, and their rules with them.
SetReplicas(w, n) ==
    /\ replicas' = [replicas EXCEPT ![w] = n]
    /\ rules' = {r \in rules : r.pod[1] = w => r.pod[2] <= n}
    /\ settled' = [settled EXCEPT ![w] = (@ /\ replicas[w] = n)]
    /\ UNCHANGED breakersOpen

ListFaults(w) == {r \in rules : r.pod \in RunningPods(w)}
LeftoverFaults == UNION {ListFaults(w) : w \in Workload \cap Downstream}

AsFound == replicas = Baseline /\ rules = {}

-----------------------------------------------------------------------------
(* The journal and the plan that undoes it.                                 *)

\* As OriginalReplicas, but the last recorded count wins.
MutOriginalReplicas(j, w) ==
    LET scales == {i \in 1..Len(j) : j[i].kind = "scale" /\ j[i].workload = w}
    IN  j[CHOOSE i \in scales : \A k \in scales : k <= i].detail
\* The first recorded count is the original.
OriginalReplicas(j, w) ==
    LET scales == {i \in 1..Len(j) : j[i].kind = "scale" /\ j[i].workload = w}
    IN  j[CHOOSE i \in scales : \A k \in scales : i <= k].detail

Named(j, kinds) == {j[i].workload : i \in {k \in 1..Len(j) : j[k].kind \in kinds}}

\* Remove faults first, then restore counts, then wait for what was touched.
RestorePlan(j) ==
    [clear |-> Named(j, {"fault"}), scale |-> Named(j, {"scale"}),
     wait |-> Named(j, {"fault", "scale", "rollout-restart", "delete-pod"})]

Journal(c, kind, w, detail) ==
    journal' = [journal EXCEPT ![c] = Append(@, [kind |-> kind, workload |-> w, detail |-> detail])]

-----------------------------------------------------------------------------
(* Commands start, take the lock, and release it.                           *)

Live(c) == pc[c] \notin {"idle", "end", "dead"}

\* An operator does not reset while a run is going on, unless ResetBesideRun.
Start(c) ==
    /\ pc[c] = "idle"
    /\ ResetBesideRun \/ c \in Verify \/ \A d \in (Run \cup Reset) \ {c} : Live(d) => (d \in Run /\ c \in Run)
    /\ Goto(c, CASE c \in Run -> "acquire" [] c \in Reset -> "reset" [] OTHER -> "verify")
    /\ UNCHANGED <<platform, files, lock, work>>

\* A held lock refuses the run, which leaves no record.
Acquire(c) ==
    /\ pc[c] = "acquire"
    /\ \/ lock = None /\ lock' = c /\ Goto(c, "load")
       \/ lock # None /\ Goto(c, "exit") /\ UNCHANGED lock
    /\ UNCHANGED <<platform, files, work>>

\* reset, with or without --force, which operators use on the lock of a
\* process that is gone; it takes no lock itself.
ForceRelease(c) ==
    /\ pc[c] = "reset"
    /\ lock' \in IF lock # None /\ Live(lock) THEN {lock} ELSE {lock, None}
    /\ Goto(c, "load")
    /\ UNCHANGED <<platform, files, work>>

\* A process that ends has no memory.
Forget(c) ==
    /\ record' = [record EXCEPT ![c] = NewRecord]
    /\ queue' = [queue EXCEPT ![c] = {}]
    /\ subject' = [subject EXCEPT ![c] = c]
    /\ plan' = [plan EXCEPT ![c] = NoPlan]
    /\ fault' = [fault EXCEPT ![c] = 0]
    /\ targets' = [targets EXCEPT ![c] = {}]
    /\ task' = [task EXCEPT ![c] = [i \in DOMAIN @ |-> NewTask]]
    /\ UNCHANGED scenario

\* As Exit, but only a restored run releases the lock.
MutExit(c) ==
    /\ pc[c] \in {"exit", "resetDone"}
    /\ lock' = IF lock = c /\ record[c].restored THEN None ELSE lock
    /\ Goto(c, "end")
    /\ Forget(c)
    /\ UNCHANGED <<platform, files>>
\* Leaving runlock.held releases the lock, if it is still the run's.
Exit(c) ==
    /\ pc[c] \in {"exit", "resetDone"}
    /\ lock' = IF lock = c THEN None ELSE lock
    /\ Goto(c, "end")
    /\ Forget(c)
    /\ UNCHANGED <<platform, files>>

LeaseExpires ==
    /\ lock # None /\ pc[lock] = "dead"
    /\ lock' = None
    /\ UNCHANGED <<platform, files, pc, work>>

-----------------------------------------------------------------------------
(* Interrupted runs are restored first.                                     *)

Torn(d) == disk[d].file \in {"torn", "tornByVerify"}
Unrestored(d) == disk[d].file = "whole" /\ ~disk[d].restored

\* As LoadInterrupted, but only records of status running count.
MutLoadInterrupted(c) ==
    /\ pc[c] = "load"
    /\ IF \E d \in Run : Torn(d)
       THEN Goto(c, "exit") /\ UNCHANGED queue
       ELSE /\ queue' = [queue EXCEPT ![c] = {d \in Run : Unrestored(d) /\ disk[d].status = "running"}]
            /\ Goto(c, "recover")
    /\ UNCHANGED <<platform, files, lock, scenario, record, subject, plan, fault, targets, task>>
\* unrestored_runs loads every record; one that does not parse raises.
LoadInterrupted(c) ==
    /\ pc[c] = "load"
    /\ IF \E d \in Run : Torn(d)
       THEN Goto(c, "exit") /\ UNCHANGED queue
       ELSE /\ queue' = [queue EXCEPT ![c] = {d \in Run : Unrestored(d)}]
            /\ Goto(c, "recover")
    /\ UNCHANGED <<platform, files, lock, scenario, record, subject, plan, fault, targets, task>>

\* The next interrupted run, or on to the command's own work.
Recover(c) ==
    /\ pc[c] = "recover"
    /\ \/ \E d \in queue[c] :
            /\ subject' = [subject EXCEPT ![c] = d]
            /\ plan' = [plan EXCEPT ![c] = RestorePlan(journal[d])]
            /\ Goto(c, "recoverRestore")
       \/ /\ queue[c] = {}
          /\ subject' = [subject EXCEPT ![c] = c]
          /\ plan' = [plan EXCEPT ![c] = IF c \in Reset THEN [NoPlan EXCEPT !.clear = Workload] ELSE NoPlan]
          /\ Goto(c, IF c \in Reset THEN "resetClear" ELSE "firstSave")
    /\ UNCHANGED <<platform, files, lock, scenario, record, queue, fault, targets, task>>

Restoring == {"recoverRestore", "bodyRestore", "finallyRestore", "resetClear"}

\* Every rule of every running pod of a service, ready or not.
ClearFaults(c) ==
    /\ pc[c] \in Restoring
    /\ \E w \in plan[c].clear :
         /\ rules' = rules \ ListFaults(w)
         /\ plan' = [plan EXCEPT ![c].clear = @ \ {w}]
    /\ UNCHANGED <<replicas, settled, breakersOpen, files, lock, pc, scenario, record, queue, subject, fault, targets, task>>

RestoreReplicas(c) ==
    /\ pc[c] \in Restoring
    /\ plan[c].clear = {}
    /\ \E w \in plan[c].scale :
         /\ SetReplicas(w, OriginalReplicas(journal[subject[c]], w))
         /\ plan' = [plan EXCEPT ![c].scale = @ \ {w}]
    /\ UNCHANGED <<files, lock, pc, scenario, record, queue, subject, fault, targets, task>>

WaitAvailable(c) ==
    /\ pc[c] \in Restoring
    /\ plan[c].clear = {} /\ plan[c].scale = {}
    /\ \E w \in plan[c].wait :
         /\ Available(w)
         /\ plan' = [plan EXCEPT ![c].wait = @ \ {w}]
    /\ UNCHANGED <<platform, files, lock, pc, scenario, record, queue, subject, fault, targets, task>>

\* A call of the plan raises, or a wait runs out of time.
RestoreRaises(c) ==
    /\ pc[c] \in Restoring
    /\ plan[c] # NoPlan
    /\ IF pc[c] = "bodyRestore"
       THEN /\ record' = [record EXCEPT ![c].status = "ended"]
            /\ Goto(c, "finally")
       ELSE Goto(c, "exit") /\ UNCHANGED record
    /\ UNCHANGED <<platform, files, lock, scenario, queue, subject, plan, fault, targets, task>>

\* The run is marked restored only now.
RestoreDone(c) ==
    /\ pc[c] \in Restoring
    /\ plan[c] = NoPlan
    /\ record' = IF pc[c] \in {"bodyRestore", "finallyRestore"} THEN [record EXCEPT ![c].restored = TRUE] ELSE record
    /\ Goto(c, CASE pc[c] = "recoverRestore" -> "recoveredSave" [] pc[c] = "bodyRestore" -> "checks"
                 [] pc[c] = "finallyRestore" -> "finalSave" [] pc[c] = "resetClear" -> "resetBreakers")
    /\ UNCHANGED <<platform, files, lock, scenario, queue, subject, plan, fault, targets, task>>

-----------------------------------------------------------------------------
(* record.json is truncated, then written.                                  *)

WriteOf == [firstSave |-> "firstWrite", recoveredSave |-> "recoveredWrite", finalSave |-> "finalWrite", verifySave |-> "verifyWrite"]

Truncate(c) ==
    /\ pc[c] \in DOMAIN WriteOf
    /\ disk' = [disk EXCEPT ![subject[c]].file = IF c \in Verify THEN "tornByVerify" ELSE "torn"]
    /\ Goto(c, WriteOf[pc[c]])
    /\ UNCHANGED <<platform, journal, lock, work>>

WriteRecovered(c) ==
    /\ pc[c] = "recoveredWrite"
    /\ disk' = [disk EXCEPT ![subject[c]] = [file |-> "whole", restored |-> TRUE, status |-> "ended"]]
    /\ queue' = [queue EXCEPT ![c] = @ \ {subject[c]}]
    /\ Goto(c, "recover")
    /\ UNCHANGED <<platform, journal, lock, scenario, record, subject, plan, fault, targets, task>>

WriteOwn(c) ==
    /\ pc[c] \in {"firstWrite", "finalWrite", "verifyWrite"}
    /\ disk' = [disk EXCEPT ![subject[c]] = [file |-> "whole", restored |-> record[c].restored, status |-> record[c].status]]
    /\ Goto(c, CASE pc[c] = "firstWrite" -> "preflight" [] pc[c] = "finalWrite" -> "exit" [] OTHER -> "exit")
    /\ UNCHANGED <<platform, journal, lock, work>>

-----------------------------------------------------------------------------
(* The body of a run.                                                       *)

Body == {"preflight", "breakers", "faults", "faultPut", "traffic", "bodyRestore", "checks"}

\* A platform that is not ready, or still has rules, ends the run as an error.
Preflight(c) ==
    /\ pc[c] = "preflight"
    /\ \/ /\ \A w \in Workload : Available(w)
          /\ LeftoverFaults = {}
          /\ Goto(c, "breakers")
          /\ UNCHANGED record
       \/ /\ record' = [record EXCEPT ![c] = [restored |-> TRUE, status |-> "ended"]]
          /\ Goto(c, "finally")
    /\ UNCHANGED <<platform, files, lock, scenario, queue, subject, plan, fault, targets, task>>

\* reset_circuit_breakers, for a run and at the end of a reset.
CloseBreakers(c) ==
    /\ pc[c] \in {"breakers", "resetBreakers"}
    /\ breakersOpen' = FALSE
    /\ Goto(c, IF c \in Run THEN "faults" ELSE "resetDone")
    /\ UNCHANGED <<replicas, rules, settled, files, lock, work>>

Faults(c) == scenario[c].faults

\* apply_fault lists the ready pods once; without one it raises (Fails).
NextFault(c) ==
    /\ pc[c] = "faults" /\ targets[c] = {}
    /\ fault[c] < Len(Faults(c))
    /\ LET spec == Faults(c)[fault[c] + 1]
       IN  /\ ReadyPods(spec.service) # {}
           /\ targets' = [targets EXCEPT ![c] = IF spec.replicas = "all" THEN ReadyPods(spec.service) ELSE {CHOOSE p \in ReadyPods(spec.service) : TRUE}]
    /\ fault' = [fault EXCEPT ![c] = @ + 1]
    /\ UNCHANGED <<platform, files, lock, pc, scenario, record, queue, subject, plan, task>>

JournalFault(c) ==
    /\ pc[c] = "faults"
    /\ \E p \in targets[c] : Journal(c, "fault", p[1], p[2])
    /\ Goto(c, "faultPut")
    /\ UNCHANGED <<platform, disk, lock, work>>

PutFault(c) ==
    /\ pc[c] = "faultPut"
    /\ LET last == journal[c][Len(journal[c])]
           pod == <<last.workload, last.detail>>
       IN  /\ rules' = rules \cup {ToRule(Faults(c)[fault[c]], c, pod)}
           /\ targets' = [targets EXCEPT ![c] = @ \ {pod}]
    /\ Goto(c, "faults")
    /\ UNCHANGED <<replicas, settled, breakersOpen, files, lock, scenario, record, queue, subject, plan, fault, task>>

StartTraffic(c) ==
    /\ pc[c] = "faults" /\ targets[c] = {} /\ fault[c] = Len(Faults(c))
    /\ Goto(c, "traffic")
    /\ UNCHANGED <<platform, files, lock, work>>

Actions(c) == scenario[c].actions
TaskIn(c, i, state) == i \in DOMAIN task[c] /\ task[c][i].state = state
SetTask(c, i, state) == task' = [task EXCEPT ![c][i].state = state]

\* What an action reads first: a ready pod to delete, or the current count.
ReadWorkload(c, i) ==
    /\ pc[c] = "traffic" /\ TaskIn(c, i, "waiting")
    /\ Actions(c)[i].action = "delete-pod" => ReadyPods(Actions(c)[i].workload) # {}
    /\ task' = [task EXCEPT ![c][i] = [state |-> "read", original |-> replicas[Actions(c)[i].workload]]]
    /\ UNCHANGED <<platform, files, lock, pc, scenario, record, queue, subject, plan, fault, targets>>

JournalAction(c, i) ==
    /\ pc[c] \in {"traffic", "draining"} /\ TaskIn(c, i, "read")
    /\ Journal(c, Actions(c)[i].action, Actions(c)[i].workload, task[c][i].original)
    /\ SetTask(c, i, "journaled")
    /\ UNCHANGED <<platform, disk, lock, pc, scenario, record, queue, subject, plan, fault, targets>>

\* delete-pod and rollout-restart replace pods; scale sets the count.
ChangeWorkload(c, i) ==
    LET a == Actions(c)[i]
    IN  /\ pc[c] \in {"traffic", "draining"} /\ TaskIn(c, i, "journaled")
        /\ \/ a.action = "scale" /\ SetReplicas(a.workload, a.replicas)
           \/ /\ a.action # "scale"
              /\ settled' = [settled EXCEPT ![a.workload] = FALSE]
              /\ UNCHANGED <<replicas, rules, breakersOpen>>
        /\ SetTask(c, i, IF a.restoreAfter THEN "applied" ELSE "done")
        /\ UNCHANGED <<files, lock, pc, scenario, record, queue, subject, plan, fault, targets>>

\* restoreAfterSeconds: the count this action read.
RestoreAfter(c, i) ==
    /\ pc[c] = "traffic" /\ TaskIn(c, i, "applied")
    /\ SetReplicas(Actions(c)[i].workload, task[c][i].original)
    /\ SetTask(c, i, "done")
    /\ UNCHANGED <<files, lock, pc, scenario, record, queue, subject, plan, fault, targets>>

\* All requests are answered and all actions are done; traffic may open breakers.
EndTraffic(c) ==
    /\ pc[c] = "traffic"
    /\ \A i \in DOMAIN task[c] : task[c][i].state = "done"
    /\ breakersOpen' \in {breakersOpen, TRUE}
    /\ plan' = [plan EXCEPT ![c] = RestorePlan(journal[c])]
    /\ Goto(c, "bodyRestore")
    /\ UNCHANGED <<replicas, rules, settled, files, lock, scenario, record, queue, subject, fault, targets, task>>

Checks(c) ==
    /\ pc[c] = "checks"
    /\ record' = [record EXCEPT ![c].status = "ended"]
    /\ Goto(c, "finally")
    /\ UNCHANGED <<platform, files, lock, scenario, queue, subject, plan, fault, targets, task>>

\* A step of the body raises, or the operator presses Ctrl+C.  Leaving the
\* traffic cancels the actions that wait, and waits for their threads.
BodyFails(c) ==
    /\ pc[c] \in Body \ {"bodyRestore"}
    /\ record' = [record EXCEPT ![c].status = "ended"]
    /\ Goto(c, IF pc[c] = "traffic" THEN "draining" ELSE "finally")
    /\ UNCHANGED <<platform, files, lock, scenario, queue, subject, plan, fault, targets, task>>

\* A call made by an action's thread fails.
ActionFails(c, i) ==
    /\ pc[c] = "draining"
    /\ TaskIn(c, i, "read") \/ TaskIn(c, i, "journaled")
    /\ SetTask(c, i, "done")
    /\ UNCHANGED <<platform, files, lock, pc, scenario, record, queue, subject, plan, fault, targets>>

Drained(c) ==
    /\ pc[c] = "draining"
    /\ ~\E i \in DOMAIN task[c] : task[c][i].state \in {"read", "journaled"}
    /\ Goto(c, "finally")
    /\ UNCHANGED <<platform, files, lock, work>>

\* The finally block: restore unless that has happened, then save.
Finally(c) ==
    /\ pc[c] = "finally"
    /\ plan' = [plan EXCEPT ![c] = RestorePlan(journal[c])]
    /\ Goto(c, IF record[c].restored THEN "finalSave" ELSE "finallyRestore")
    /\ UNCHANGED <<platform, files, lock, scenario, record, queue, subject, fault, targets, task>>

-----------------------------------------------------------------------------
(* verify works on a recorded run, whatever its state, without the lock.    *)

LoadForVerify(c) ==
    /\ pc[c] = "verify"
    /\ \/ \E d \in Run :
            /\ disk[d].file = "whole"
            /\ subject' = [subject EXCEPT ![c] = d]
            /\ record' = [record EXCEPT ![c] = [restored |-> disk[d].restored, status |-> "ended"]]
            /\ Goto(c, "verifySave")
       \/ /\ \E d \in Run : disk[d].file # "whole"
          /\ Goto(c, "exit")
          /\ UNCHANGED <<subject, record>>
    /\ UNCHANGED <<platform, files, lock, scenario, queue, plan, fault, targets, task>>

-----------------------------------------------------------------------------
(* What happens to a command and to the platform from outside.              *)

\* The process is killed: no cleanup code runs.
Crash(c) ==
    /\ Live(c)
    /\ Goto(c, "dead")
    /\ Forget(c)
    /\ UNCHANGED <<platform, files, lock>>

\* Kubernetes completes the rollout of a changed workload.
Settle(w) ==
    /\ ~settled[w]
    /\ settled' = [settled EXCEPT ![w] = TRUE]
    /\ UNCHANGED <<replicas, rules, breakersOpen, files, lock, pc, work>>

\* A rule expires, or its pod is replaced.
RuleGone(r) ==
    /\ rules' = rules \ {r}
    /\ UNCHANGED <<replicas, settled, breakersOpen, files, lock, pc, work>>

-----------------------------------------------------------------------------
Init ==
    /\ replicas = Baseline /\ rules = {} /\ settled = [w \in Workload |-> TRUE] /\ breakersOpen = FALSE
    /\ journal = [c \in Run |-> <<>>]
    /\ disk = [c \in Run |-> [file |-> "absent", restored |-> FALSE, status |-> "running"]]
    /\ lock = None
    /\ \E issued \in Issued : pc = [c \in Command |-> IF c \in issued THEN "idle" ELSE "end"]
    /\ scenario \in [Run -> UNION {Scenarios[c] : c \in Run}]
    /\ \A c \in Run : scenario[c] \in {s \in Scenarios[c] : ValidScenario(s)}
    /\ record = [c \in Command |-> NewRecord]
    /\ queue = [c \in Command |-> {}]
    /\ subject = [c \in Command |-> c]
    /\ plan = [c \in Command |-> NoPlan]
    /\ fault = [c \in Command |-> 0]
    /\ targets = [c \in Command |-> {}]
    /\ task = [c \in Command |-> [i \in 1..(IF c \in Run THEN Len(scenario[c].actions) ELSE 0) |-> NewTask]]

RestoreStep(c) ==
    \/ ClearFaults(c) \/ RestoreReplicas(c) \/ WaitAvailable(c) \/ RestoreRaises(c) \/ RestoreDone(c)

ActionStep(c, i) ==
    \/ ReadWorkload(c, i) \/ JournalAction(c, i) \/ ChangeWorkload(c, i) \/ RestoreAfter(c, i) \/ ActionFails(c, i)

RunStep(c) ==
    \/ Acquire(c)
    \/ Preflight(c) \/ NextFault(c) \/ JournalFault(c) \/ PutFault(c)
    \/ StartTraffic(c) \/ EndTraffic(c) \/ Checks(c) \/ Drained(c) \/ Finally(c)
    \/ \E i \in DOMAIN task[c] : ActionStep(c, i)

\* What a command does by itself; raising, dying and starting are not its choice.
Step(c) ==
    \/ LoadInterrupted(c) \/ Recover(c) \/ RestoreStep(c) \/ CloseBreakers(c)
    \/ Truncate(c) \/ WriteRecovered(c) \/ WriteOwn(c) \/ Exit(c)
    \/ c \in Run /\ RunStep(c)
    \/ c \in Reset /\ ForceRelease(c)
    \/ c \in Verify /\ LoadForVerify(c)

Next ==
    \/ \E c \in Command : Start(c) \/ Step(c) \/ Crash(c)
    \/ \E c \in Run : BodyFails(c)
    \/ \E w \in Workload : Settle(w)
    \/ \E r \in rules : RuleGone(r)
    \/ LeaseExpires

\* What does not depend on an operator or on bad luck: commands go on (every
\* wait has a deadline, and an action without a ready pod raises), and an
\* abandoned lease expires.
Advance ==
    \/ \E c \in Command : Step(c)
    \/ \E c \in Run : pc[c] \in {"faults", "traffic"} /\ BodyFails(c)
    \/ LeaseExpires

\* Of all that can advance, something does: as no command runs for ever, that
\* is enough, and less than fairness for each of them.
Fairness == WF_vars(Advance)

Spec == Init /\ [][Next]_vars /\ Fairness

-----------------------------------------------------------------------------
(* Properties.                                                              *)

TypeOK ==
    /\ \A w \in Workload : replicas[w] \in Nat
    /\ \A r \in rules : r.pod \in RunningPods(r.pod[1])
    /\ \A c \in Run : disk[c].status \in Statuses /\ disk[c].file \in {"absent", "torn", "tornByVerify", "whole"}
    /\ \A c \in Command : /\ subject[c] \in Command
                          /\ plan[c].clear \cup plan[c].scale \cup plan[c].wait \subseteq Workload
    /\ lock \in Run \cup {None}

\* The journal of a run whose record still promises to undo it.  A record that
\* `verify` was killed over counts: its loss is the verifier's, not the run's.
Promises(c) == disk[c].file \in {"whole", "tornByVerify"} /\ ~disk[c].restored

\* Every change that stands on the platform can be undone from disk alone: a
\* workload whose count is not the deployed one, and a pod that holds a rule,
\* are named by the journal of a run whose record is whole and unrestored, and
\* the count that journal restores is the deployed one.  (control.py: journal
\* before change; journal.py: the first count wins; engine.py: restored and
\* saved only after the whole plan.)
ChangesRecoverable ==
    /\ \A w \in Workload : replicas[w] # Baseline[w] =>
         \E c \in Run : Promises(c) /\ w \in RestorePlan(journal[c]).scale /\ OriginalReplicas(journal[c], w) = Baseline[w]
    /\ \A r \in rules :
         \E c \in Run : Promises(c) /\ r.pod[1] \in RestorePlan(journal[c]).clear

\* A run that passes its pre-flight starts on the platform as it was deployed,
\* whatever earlier runs died in the middle of: run restores what they left
\* before anything else (engine.py run, restore_interrupted_runs).
NextRunRestores == \A c \in Run : pc[c] = "breakers" => AsFound

\* So does a reset that finishes leave it, and neither meets an open breaker.
CleanStart ==
    /\ NextRunRestores
    /\ \A c \in Run : pc[c] = "faults" => ~breakersOpen
    /\ \A c \in Reset : pc[c] = "resetDone" => AsFound /\ ~breakersOpen

\* However a run goes (errors, Ctrl+C, a crash), the lock it took is released
\* or expires: no later run is refused for ever.
LockReleased == \A c \in Run : (lock = c) ~> (lock # c)
=============================================================================
