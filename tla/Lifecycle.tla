----------------------------- MODULE Lifecycle -----------------------------
(***************************************************************************)
(* `platformctl bootstrap`, `deploy` and `destroy`, run again and again by *)
(* operators, interrupted and killed at any point: the platform lock, the  *)
(* Helm releases and their recovery, the local CA and server certificate   *)
(* with the TLS secrets made from them, the generated credentials, and the *)
(* service images with their content tags.                                 *)
(*                                                                         *)
(* Helm and kind run in processes of their own, in their own sessions: when *)
(* the command that started one is interrupted or killed, it goes on alone, *)
(* Helm until its --timeout.  A Helm process writes its pending record some *)
(* time after it started, and may be left behind before that.  A release    *)
(* left pending by a dead Helm process is recovered by a later command, by  *)
(* its age.                                                                *)
(*                                                                         *)
(* Commands overlap when one runs without the lock: it started before there *)
(* was a namespace to hold it, or it was stalled for as long as its lease   *)
(* lasts.  `mishaps` remembers that, and what else the properties except.   *)
(*                                                                         *)
(* A key is a number, a certificate the number of its key and of the key   *)
(* that signed it; writing a file truncates it first.                      *)
(***************************************************************************)
EXTENDS Integers, Sequences, SequencesExt, FiniteSets

CONSTANTS
    Command,      \* the processes operators start, each any number of times
    Components,   \* COMPONENTS, in order, without "crds"
    Selections,   \* sets of components `deploy --component` is given
    HelmTimeout,  \* time units a Helm process may run: the longest --timeout
    StaleAfter,   \* STALE_PENDING_AFTER
    MaxKeys,      \* bound: keys that exist at one time
    MaxMishaps,   \* bound: errors, kills, stalls, overlaps, certificates that come due, edits of the services
    MaxSources,   \* bound: versions of the services' source
    None

-----------------------------------------------------------------------------
(* What deploying each component does, in order: Helm releases, and three   *)
(* other items.                                                             *)

DeployFoundation == <<"platform-foundation">>
DeployCertificates == <<"certificates">>
DeployGateway == <<"gateway">>
DeployKong == <<"kong">>
DeployIdentity == <<"credentials", "identity">>
DeployObservability == <<"opensearch", "observability", "prometheus">>
DeployServices == <<"images", "transaction-services">>

Script ==
    [foundation |-> DeployFoundation, certificates |-> DeployCertificates, gateway |-> DeployGateway, kong |-> DeployKong,
     identity |-> DeployIdentity, observability |-> DeployObservability, services |-> DeployServices]

\* Releases whose workloads are waited for once Helm is done.
Awaited == {"kong", "identity", "opensearch", "observability", "prometheus", "transaction-services"}

Items(names) == UNION {ToSet(Script[n]) : n \in names}
ReleasesOf(names) == Items(names) \ {"certificates", "credentials", "images"}
Release == ReleasesOf(ToSet(Components))

\* The items of the selected components, in the order of COMPONENTS.
Plan(names) ==
    LET selected == SelectSeq(Components, LAMBDA n : n \in names)
    IN  FlattenSeq([i \in DOMAIN selected |-> Script[selected[i]]])

TlsSecret == {"edge-tls", "keycloak-tls"}
Generated == {"admin", "clients"}
File == {"caKey", "caCrt", "tlsKey", "tlsCrt"}

ASSUME TimeoutAssumption == HelmTimeout \in Nat /\ StaleAfter \in Nat /\ HelmTimeout < StaleAfter
ASSUME NamesAssumption == "foundation" \in ToSet(Components) /\ ToSet(Components) \subseteq DOMAIN Script /\ None \notin Command
ASSUME BoundsAssumption == MaxSources \in Nat \ {0} /\ MaxKeys \in Nat /\ MaxMishaps \in Nat
\* A plan has the items of its components, and the namespaces come first and once:
\* "foundation" is the first of COMPONENTS.
ASSUME PlanAssumption ==
    \A names \in Selections \cup {ToSet(Components)} :
      /\ names \subseteq ToSet(Components)
      /\ Plan(names) \in Seq(Items(names)) /\ ToSet(Plan(names)) = Items(names)
      /\ \A i \in DOMAIN Plan(names) : Plan(names)[i] = "platform-foundation" => i = 1

VARIABLES
    cluster,   \* the kind cluster: "absent", "creating", "partial" or "up"
    namespace, \* the application namespace exists
    lock,      \* the command that holds the run lock, or None
    release,   \* each release: [status, age, live], live counting its Helm processes
    tls,       \* each TLS secret: a leaf certificate and key, or NoPair
    generated, \* generated secrets that exist
    file,      \* each file of .local/pki
    due,       \* keys whose certificate is within RENEW_BEFORE of its end
    pc, selected, todo, \* where each command is, what it deploys and what is left
    memory,    \* what it holds of the PKI and the images: [ca, cert, key, pair, tag]
    source,    \* the services' source; its tag is itself
    stray,     \* Helm processes left behind without a record so far: <<release, operation>>
    built,     \* the image Docker has for each tag, by the source it was built from, or 0
    loaded,    \* the same on the cluster's nodes
    mishaps    \* how many of MaxMishaps have happened, and history for the properties, see NoMishaps

kubernetes == <<cluster, namespace, release, tls, generated, loaded>>
workstation == <<file, due, source, built, stray>>
vars == <<kubernetes, lock, workstation, pc, selected, todo, memory, mishaps>>

Content(state, key, issuer) == [state |-> state, key |-> key, issuer |-> issuer]
Absent == Content("absent", 0, 0)
Torn == Content("torn", 0, 0)
NoPair == [crt |-> Absent, key |-> Absent]
NoMemory == [ca |-> 0, cert |-> 0, key |-> 0, pair |-> NoPair, tag |-> 0]
Tag == 1..MaxSources
NoImages == [t \in Tag |-> 0]
NoRelease == [status |-> "absent", age |-> 0, live |-> 0]

Pending == {"pending-install", "pending-upgrade", "pending-rollback"}
HelmWait == {"uninstalling", "rollingBack", "upgrading"}
Live(c) == pc[c] # "idle"

\* loose: a command ran beside another, or a Helm process that recovers a
\* release was left behind without a record, which nothing holds off.
\* spared: certificates that an interrupted purge left without their key.
\* crossed: tags computed of a source that was edited before the build.
\* left: releases whose Helm process was left behind without a record, until
\* one of the release succeeds with none left behind.
NoMishaps == [count |-> 0, loose |-> FALSE, spared |-> {}, crossed |-> {}, left |-> {}]
\* One more mishap, with its history.
Worse(history) == mishaps.count < MaxMishaps /\ mishaps' = [history EXCEPT !.count = mishaps.count + 1]
Mishap == Worse(mishaps)
Goto(c, label) == pc' = [pc EXCEPT ![c] = label]

-----------------------------------------------------------------------------
(* Commands start.                                                          *)

NamespaceExists == cluster = "up" /\ namespace

\* Before the application namespace exists there is no lock to take.  A
\* cluster that is not up cannot be asked, which ends the command.
PlatformLock(c) ==
    /\ cluster \in {"absent", "up"}
    /\ IF NamespaceExists THEN lock = None /\ lock' = c ELSE UNCHANGED lock

\* A command that finds another running overlaps with it.
Begin(c) ==
    /\ ~Live(c)
    /\ IF \E d \in Command : Live(d) THEN Worse([mishaps EXCEPT !.loose = TRUE]) ELSE UNCHANGED mishaps

Start(c) ==
    /\ Begin(c)
    /\ PlatformLock(c)
    /\ UNCHANGED <<kubernetes, workstation, memory>>

\* Preflight may fail; then nothing has happened.
Bootstrap(c) ==
    /\ Start(c)
    /\ selected' = [selected EXCEPT ![c] = ToSet(Components)]
    /\ todo' = [todo EXCEPT ![c] = Plan(ToSet(Components))]
    /\ Goto(c, "cluster")

\* deploy refuses to go on without the cluster.  Operators select parts only
\* once the foundation stands.
Deploy(c) ==
    /\ cluster = "up"
    /\ Start(c)
    /\ \E names \in Selections :
         /\ "foundation" \in names \/ release["platform-foundation"].status = "deployed"
         /\ selected' = [selected EXCEPT ![c] = names]
         /\ todo' = [todo EXCEPT ![c] = Plan(names)]
    /\ Goto(c, "next")

\* destroy takes no lock.
Destroy(c) ==
    /\ Begin(c)
    /\ Goto(c, "delete")
    /\ UNCHANGED <<kubernetes, lock, workstation, selected, todo, memory>>

\* A cluster that exists, in whatever state, is not created again.
EnsureCluster(c) ==
    /\ pc[c] = "cluster"
    /\ IF cluster = "absent" THEN cluster' = "creating" /\ Goto(c, "creating") ELSE Goto(c, "nodes") /\ UNCHANGED cluster
    /\ UNCHANGED <<namespace, release, tls, generated, loaded, lock, workstation, selected, todo, memory, mishaps>>

\* kind succeeds, fails and cleans up, or is killed and leaves its containers.
KindEnds ==
    /\ cluster = "creating"
    /\ \/ cluster' = "up" /\ UNCHANGED mishaps
       \/ cluster' \in {"absent", "partial"} /\ Mishap
    /\ pc' = [c \in Command |-> IF pc[c] # "creating" THEN pc[c] ELSE IF cluster' = "up" THEN "nodes" ELSE "exit"]
    /\ UNCHANGED <<namespace, release, tls, generated, loaded, lock, workstation, selected, todo, memory>>

\* guard and wait_nodes_ready; a partial cluster runs out of time (Raise).
WaitNodesReady(c) ==
    /\ pc[c] = "nodes" /\ cluster = "up"
    /\ Goto(c, "next")
    /\ UNCHANGED <<kubernetes, lock, workstation, selected, todo, memory, mishaps>>

\* As LoseNamespace, but what was known of the namespace stays.
MutLoseNamespace ==
    /\ lock' = None
    /\ tls' = [s \in TlsSecret |-> NoPair]
    /\ generated' = {}
    /\ UNCHANGED namespace
\* What goes with the application namespace: its secrets, the lock, and the
\* records of the releases installed in it.
LoseNamespace ==
    /\ namespace' = FALSE
    /\ lock' = None
    /\ tls' = [s \in TlsSecret |-> NoPair]
    /\ generated' = {}

\* Helm processes end with the cluster they work on.
DeleteCluster(c) ==
    /\ pc[c] = "delete"
    /\ cluster' = "absent" /\ loaded' = NoImages
    /\ LoseNamespace
    /\ release' = [r \in Release |-> NoRelease] /\ stray' = {}
    /\ mishaps' = [mishaps EXCEPT !.left = {}]
    /\ \E purge \in BOOLEAN : Goto(c, IF purge THEN "purge" ELSE "exit")
    /\ UNCHANGED <<file, due, source, built, selected, todo, memory>>

\* The key each certificate is for.
KeyFile == [caCrt |-> "caKey", tlsCrt |-> "tlsKey"]

\* rmtree removes one file after the other, in the order of the directory.
Purge(c) ==
    /\ pc[c] = "purge"
    /\ \/ \E f \in File :
            /\ file[f] # Absent
            /\ file' = [file EXCEPT ![f] = Absent]
            /\ due' = due \cap {file'[g].key : g \in File}
            /\ mishaps' = [mishaps EXCEPT !.spared =
                 {g \in DOMAIN KeyFile : file'[g] # Absent /\ (g \in @ \/ file'[KeyFile[g]] = Absent)}]
            /\ UNCHANGED pc
       \/ (\A f \in File : file[f] = Absent) /\ Goto(c, "exit") /\ UNCHANGED <<file, due, mishaps>>
    /\ UNCHANGED <<kubernetes, source, built, stray, lock, selected, todo, memory>>

\* The next item; "done" when all are deployed.
NextComponent(c) ==
    /\ pc[c] = "next"
    /\ Goto(c, IF todo[c] = <<>> THEN "done" ELSE IF Head(todo[c]) = "certificates" THEN "pki"
               ELSE IF Head(todo[c]) = "credentials" THEN "generate" ELSE IF Head(todo[c]) = "images" THEN "images" ELSE "recover")
    /\ UNCHANGED <<kubernetes, lock, workstation, selected, todo, memory, mishaps>>

Deployed(c) ==
    /\ todo' = [todo EXCEPT ![c] = Tail(@)]
    /\ Goto(c, "next")

-----------------------------------------------------------------------------
(* Certificates.                                                            *)

InUse ==
    due \cup (UNION {{file[f].key, file[f].issuer} : f \in File})
        \cup (UNION {{tls[s].crt.key, tls[s].crt.issuer, tls[s].key.key} : s \in TlsSecret})
        \cup (UNION {{memory[c].ca, memory[c].cert, memory[c].key} : c \in Command})

\* A generated key is one that nobody has.
FreeKey == 1..MaxKeys \ InUse
NewKey == CHOOSE k \in FreeKey : TRUE

\* As Decide, but the current CA is not looked at.
MutDecide(crt, key, issued) ==
    IF crt = Absent \/ key = Absent THEN "create" ELSE IF crt.key \in due THEN "renew" ELSE "reuse"
\* Names are those of this program's certificates, so they never differ.
Decide(crt, key, issued) ==
    IF crt = Absent \/ key = Absent THEN "create" ELSE IF crt.key \in due \/ ~issued THEN "renew" ELSE "reuse"

\* The CA is reused with its key file as it is, or made anew.
EnsureCa(c) ==
    /\ pc[c] = "pki"
    /\ file["caCrt"] # Torn
    /\ IF Decide(file["caCrt"], file["caKey"], TRUE) = "reuse"
       THEN /\ file["caKey"] # Torn
            /\ memory' = [memory EXCEPT ![c].ca = file["caKey"].key, ![c].cert = file["caCrt"].key]
            /\ Goto(c, "leaf")
       ELSE /\ FreeKey # {}
            /\ memory' = [memory EXCEPT ![c].ca = NewKey, ![c].cert = NewKey]
            /\ Goto(c, "caKey")
    /\ UNCHANGED <<kubernetes, lock, workstation, selected, todo, mishaps>>

EnsureLeaf(c) ==
    /\ pc[c] = "leaf"
    /\ file["tlsCrt"] # Torn
    /\ IF Decide(file["tlsCrt"], file["tlsKey"], file["tlsCrt"].issuer = memory[c].cert) = "reuse"
       THEN Goto(c, "read") /\ UNCHANGED memory
       ELSE /\ FreeKey # {}
            /\ memory' = [memory EXCEPT ![c].key = NewKey]
            /\ Goto(c, "tlsKey")
    /\ UNCHANGED <<kubernetes, lock, workstation, selected, todo, mishaps>>

\* What is written to each file, and what comes after it.
Written(c) ==
    [caKey |-> Content("whole", memory[c].ca, 0), caCrt |-> Content("whole", memory[c].ca, memory[c].ca),
     tlsKey |-> Content("whole", memory[c].key, 0), tlsCrt |-> Content("whole", memory[c].key, memory[c].ca)]
AfterFile == [caKey |-> "caCrt", caCrt |-> "leaf", tlsKey |-> "tlsCrt", tlsCrt |-> "read"]

\* write_bytes: the file is empty before it is written.
Truncate(c) ==
    /\ pc[c] \in File /\ file[pc[c]] # Torn
    /\ file' = [file EXCEPT ![pc[c]] = Torn]
    /\ UNCHANGED <<kubernetes, lock, due, source, built, stray, pc, selected, todo, memory, mishaps>>

WriteFile(c) ==
    /\ pc[c] \in File /\ file[pc[c]] = Torn
    /\ file' = [file EXCEPT ![pc[c]] = Written(c)[pc[c]]]
    /\ due' = due \cap {file'[f].key : f \in File}
    /\ mishaps' = [mishaps EXCEPT !.spared = @ \ {pc[c]}]
    /\ Goto(c, AfterFile[pc[c]])
    /\ UNCHANGED <<kubernetes, source, built, stray, lock, selected, todo, memory>>

ReadPair(c) ==
    /\ pc[c] = "read"
    /\ memory' = [memory EXCEPT ![c].pair = [crt |-> file["tlsCrt"], key |-> file["tlsKey"]]]
    /\ Goto(c, "apply")
    /\ UNCHANGED <<kubernetes, lock, workstation, selected, todo, mishaps>>

\* Created, replaced, or left alone when it holds the same pair.
ApplyTlsSecret(c) ==
    /\ pc[c] = "apply" /\ namespace
    /\ \E s \in TlsSecret :
         /\ tls[s] # memory[c].pair
         /\ tls' = [tls EXCEPT ![s] = memory[c].pair]
    /\ UNCHANGED <<cluster, namespace, release, generated, loaded, lock, workstation, pc, selected, todo, memory, mishaps>>

CertificatesDone(c) ==
    /\ pc[c] = "apply" /\ namespace
    /\ \A s \in TlsSecret : tls[s] = memory[c].pair
    /\ memory' = [memory EXCEPT ![c] = [NoMemory EXCEPT !.tag = memory[c].tag]]
    /\ Deployed(c)
    /\ UNCHANGED <<kubernetes, lock, workstation, selected, mishaps>>

\* A certificate on disk comes near its end.
ComesDue(f) ==
    /\ file[f].state = "whole" /\ file[f].key \notin due
    /\ due' = due \cup {file[f].key}
    /\ Mishap
    /\ UNCHANGED <<kubernetes, lock, file, source, built, stray, pc, selected, todo, memory>>

-----------------------------------------------------------------------------
(* Generated credentials, before the identity release.                      *)

EnsureGenerated(c) ==
    /\ pc[c] = "generate" /\ namespace
    /\ \E s \in Generated \ generated : generated' = generated \cup {s}
    /\ UNCHANGED <<cluster, namespace, release, tls, loaded, lock, workstation, pc, selected, todo, memory, mishaps>>

GeneratedDone(c) ==
    /\ pc[c] = "generate" /\ namespace
    /\ generated = Generated
    /\ Deployed(c)
    /\ UNCHANGED <<kubernetes, lock, workstation, selected, memory, mishaps>>

-----------------------------------------------------------------------------
(* Service images, before the release of the services.  One image stands    *)
(* for the five, which do not meet.                                         *)

\* content_tag hashes the source as it is now.
ContentTag(c) ==
    /\ pc[c] = "images"
    /\ memory' = [memory EXCEPT ![c].tag = source]
    /\ Goto(c, "build")
    /\ UNCHANGED <<kubernetes, lock, workstation, selected, todo, mishaps>>

\* An image that has the tag is not built again.
BuildImage(c) ==
    /\ pc[c] = "build"
    /\ built' = IF built[memory[c].tag] = 0 THEN [built EXCEPT ![memory[c].tag] = source] ELSE built
    /\ Goto(c, "load")
    /\ UNCHANGED <<kubernetes, lock, file, due, source, stray, selected, todo, memory, mishaps>>

LoadImage(c) ==
    /\ pc[c] = "load"
    /\ loaded' = [loaded EXCEPT ![memory[c].tag] = built[memory[c].tag]]
    /\ Deployed(c)
    /\ UNCHANGED <<cluster, namespace, release, tls, generated, lock, workstation, selected, memory, mishaps>>

\* Also between a command's hash and its build.
EditSource ==
    /\ source' \in Tag \ {source}
    /\ Worse([mishaps EXCEPT !.crossed = @ \cup {memory[c].tag : c \in {d \in Command : pc[d] = "build"}}])
    /\ UNCHANGED <<kubernetes, lock, file, due, built, stray, pc, selected, todo, memory>>

-----------------------------------------------------------------------------
(* Helm.                                                                    *)

Current(c) == Head(todo[c])
\* The commands that wait for it: none, when it has outlived its command.
Running(r) == {c \in Command : pc[c] \in HelmWait /\ Current(c) = r}

\* As PendingReleaseAction, but the limit is a unit short.
MutPendingReleaseAction(r) ==
    IF r.status \notin Pending THEN "upgrade"
    ELSE IF r.age < StaleAfter - 1 THEN "wait"
    ELSE IF r.status = "pending-install" THEN "uninstall" ELSE "rollback"
PendingReleaseAction(r) ==
    IF r.status \notin Pending THEN "upgrade"
    ELSE IF r.age < StaleAfter THEN "wait"
    ELSE IF r.status = "pending-install" THEN "uninstall" ELSE "rollback"

\* Reads the release; "wait" raises.
RecoverInterrupted(c) ==
    /\ pc[c] = "recover"
    /\ LET action == PendingReleaseAction(release[Current(c)])
       IN  Goto(c, IF action = "wait" THEN "exit" ELSE action)
    /\ UNCHANGED <<kubernetes, lock, workstation, selected, todo, memory, mishaps>>

\* Helm refuses to upgrade a release that is pending or being removed.
Accepts(r, operation) ==
    /\ operation = "upgrade" => r.status \notin Pending \cup {"uninstalling"}
    /\ operation # "upgrade" => r.status # "absent"

Begun(r, operation) ==
    [status |-> IF operation = "uninstall" THEN "uninstalling" ELSE IF operation = "rollback" THEN "pending-rollback"
                ELSE IF r.status = "absent" THEN "pending-install" ELSE "pending-upgrade",
     age |-> 0, live |-> r.live + 1]

\* Helm, once started, finds what it needs and is not refused.
MayBegin(r, operation) ==
    cluster = "up" /\ (namespace \/ r = "platform-foundation") /\ Accepts(release[r], operation)

Operation == {"uninstall", "rollback", "upgrade"}
Waiting == [uninstall |-> "uninstalling", rollback |-> "rollingBack", upgrade |-> "upgrading"]

\* The command starts Helm, which after a time writes its record; or Helm is
\* refused, and only uninstall's exit code is ignored.  In between, the
\* command may end and leave Helm behind (CutShort).
LaunchHelm(c) ==
    /\ pc[c] \in Operation
    /\ IF MayBegin(Current(c), pc[c])
       THEN /\ release' = [release EXCEPT ![Current(c)] = Begun(@, pc[c])]
            /\ Goto(c, Waiting[pc[c]])
       ELSE /\ Goto(c, IF pc[c] = "uninstall" THEN "upgrade" ELSE "exit")
            /\ UNCHANGED release
    /\ UNCHANGED <<cluster, namespace, tls, generated, loaded, lock, workstation, selected, todo, memory, mishaps>>

\* A Helm process that was left behind writes its record, or is refused.
StrayBegins(r, operation) ==
    /\ <<r, operation>> \in stray
    /\ stray' = stray \ {<<r, operation>>}
    /\ release' = IF MayBegin(r, operation) THEN [release EXCEPT ![r] = Begun(@, operation)] ELSE release
    /\ UNCHANGED <<cluster, namespace, tls, generated, loaded, lock, file, due, source, built, pc, selected, todo, memory, mishaps>>

\* What the command that waits for Helm does next; uninstall's exit code is ignored.
AfterHelm(c, outcome) ==
    \/ pc[c] = "uninstalling" /\ Goto(c, "upgrade") /\ UNCHANGED todo
    \/ pc[c] # "uninstalling" /\ outcome # "done" /\ Goto(c, "exit") /\ UNCHANGED todo
    \/ pc[c] = "rollingBack" /\ outcome = "done" /\ Goto(c, "upgrade") /\ UNCHANGED todo
    \/ pc[c] = "upgrading" /\ outcome = "done" /\ Current(c) \in Awaited /\ Goto(c, "available") /\ UNCHANGED todo
    \/ pc[c] = "upgrading" /\ outcome = "done" /\ Current(c) \notin Awaited /\ Deployed(c)

\* wait_deployment_available and wait_statefulset_ready; a timeout is Raise.
WaitAvailable(c) ==
    /\ pc[c] = "available"
    /\ Deployed(c)
    /\ UNCHANGED <<kubernetes, lock, workstation, selected, memory, mishaps>>

Ended(r, outcome) ==
    IF r.status \in {"absent", "uninstalling"}
    THEN IF outcome = "done" THEN [NoRelease EXCEPT !.live = r.live - 1] ELSE [r EXCEPT !.live = @ - 1]
    ELSE [r EXCEPT !.live = @ - 1, !.status = IF outcome = "done" THEN "deployed" ELSE IF outcome = "failed" THEN "failed" ELSE @]

\* The foundation chart holds the namespaces.  A Helm process that does not
\* get to its end may or may not have got to them.
ChartEffect(r, outcome) ==
    LET s == release[r].status
    IN  \/ r # "platform-foundation" /\ release' = [release EXCEPT ![r] = Ended(@, outcome)] /\ UNCHANGED <<namespace, lock, tls, generated>>
        \/ /\ r = "platform-foundation" /\ s = "uninstalling"
           /\ LoseNamespace
           /\ release' = [q \in Release |-> IF q = r THEN Ended(release[q], outcome) ELSE [NoRelease EXCEPT !.live = release[q].live]]
        \/ /\ r = "platform-foundation" /\ (s = "uninstalling" => outcome # "done")
           /\ namespace' \in IF s = "uninstalling" THEN {namespace} ELSE IF outcome = "done" THEN {TRUE} ELSE {namespace, TRUE}
           /\ release' = [release EXCEPT ![r] = Ended(@, outcome)]
           /\ UNCHANGED <<lock, tls, generated>>

\* Killed (stopped with its children at its command's timeout, or from
\* outside), it leaves the release as it is.
HelmOutcome == {"done", "failed", "killed"}

HelmEnds(r) ==
    /\ release[r].live > 0
    /\ \E outcome \in HelmOutcome :
         /\ ChartEffect(r, outcome)
         /\ IF outcome = "done" THEN mishaps' = [mishaps EXCEPT !.left = {q \in @ : q # r \/ <<q, "upgrade">> \in stray}] ELSE Mishap
         /\ \/ \E c \in Running(r) : AfterHelm(c, outcome)
            \/ (Running(r) = {} \/ release[r].live > 1) /\ UNCHANGED <<pc, todo>>
    /\ UNCHANGED <<cluster, loaded, workstation, selected, memory>>

\* Time passes.  A Helm process does not outlive its --timeout.
Tick ==
    /\ \A r \in Release : release[r].live > 0 => release[r].age < HelmTimeout
    /\ \E r \in Release : release[r].status \in Pending \cup {"uninstalling"} /\ release[r].age < StaleAfter
    /\ release' = [r \in Release |->
         IF release[r].status \in Pending \cup {"uninstalling"} /\ release[r].age < StaleAfter
         THEN [release[r] EXCEPT !.age = @ + 1] ELSE release[r]]
    /\ UNCHANGED <<cluster, namespace, tls, generated, loaded, lock, workstation, pc, selected, todo, memory, mishaps>>

-----------------------------------------------------------------------------
(* Commands end.                                                            *)

\* A process that ends has no memory.
Forget(c) ==
    /\ selected' = [selected EXCEPT ![c] = {}]
    /\ todo' = [todo EXCEPT ![c] = <<>>]
    /\ memory' = [memory EXCEPT ![c] = NoMemory]

\* Helm does not get the signal that ends its command.  One that has no record
\* yet may be there already, and is left behind.
CutShort(c) ==
    \/ Mishap /\ UNCHANGED stray
    \/ /\ pc[c] \in Operation /\ <<Current(c), pc[c]>> \notin stray
       /\ stray' = stray \cup {<<Current(c), pc[c]>>}
       /\ Worse([mishaps EXCEPT !.left = @ \cup {Current(c)}, !.loose = @ \/ pc[c] # "upgrade"])

\* A call raises, or the operator presses Ctrl+C.
Raise(c) ==
    /\ Live(c) /\ pc[c] \notin {"done", "exit"}
    /\ CutShort(c)
    /\ Goto(c, "exit")
    /\ UNCHANGED <<kubernetes, lock, file, due, source, built, selected, todo, memory>>

Exit(c) ==
    /\ pc[c] \in {"done", "exit"}
    /\ lock' = IF lock = c THEN None ELSE lock
    /\ Goto(c, "idle")
    /\ Forget(c)
    /\ UNCHANGED <<kubernetes, workstation, mishaps>>

\* No code runs any more, and the lock stays.
Crash(c) ==
    /\ Live(c)
    /\ CutShort(c)
    /\ Goto(c, "idle")
    /\ Forget(c)
    /\ UNCHANGED <<kubernetes, lock, file, due, source, built>>

\* The lease was not renewed for as long as it lasts: its holder is dead, or
\* stalled, and then goes on without it.
LeaseExpires ==
    /\ lock # None
    /\ IF Live(lock) THEN Mishap ELSE UNCHANGED mishaps
    /\ lock' = None
    /\ UNCHANGED <<kubernetes, workstation, pc, selected, todo, memory>>

-----------------------------------------------------------------------------
Init ==
    /\ cluster = "absent" /\ namespace = FALSE /\ lock = None
    /\ source = 1 /\ built = NoImages /\ loaded = NoImages
    /\ release = [r \in Release |-> NoRelease]
    /\ tls = [s \in TlsSecret |-> NoPair] /\ generated = {}
    /\ file = [f \in File |-> Absent] /\ due = {}
    /\ pc = [c \in Command |-> "idle"]
    /\ selected = [c \in Command |-> {}] /\ todo = [c \in Command |-> <<>>]
    /\ memory = [c \in Command |-> NoMemory]
    /\ stray = {} /\ mishaps = NoMishaps

Step(c) ==
    \/ Bootstrap(c) \/ Deploy(c) \/ Destroy(c)
    \/ EnsureCluster(c) \/ WaitNodesReady(c) \/ DeleteCluster(c) \/ Purge(c) \/ NextComponent(c)
    \/ EnsureCa(c) \/ EnsureLeaf(c) \/ Truncate(c) \/ WriteFile(c) \/ ReadPair(c) \/ ApplyTlsSecret(c) \/ CertificatesDone(c)
    \/ EnsureGenerated(c) \/ GeneratedDone(c)
    \/ ContentTag(c) \/ BuildImage(c) \/ LoadImage(c)
    \/ RecoverInterrupted(c) \/ LaunchHelm(c) \/ WaitAvailable(c) \/ Exit(c)

Next ==
    \/ \E c \in Command : Step(c) \/ Raise(c) \/ Crash(c)
    \/ \E r \in Release : HelmEnds(r) \/ \E operation \in Operation : StrayBegins(r, operation)
    \/ \E f \in {"caCrt", "tlsCrt"} : ComesDue(f)
    \/ KindEnds \/ EditSource \/ Tick \/ LeaseExpires

Spec == Init /\ [][Next]_vars

-----------------------------------------------------------------------------
(* Properties.                                                              *)

TypeOK ==
    /\ cluster \in {"absent", "creating", "partial", "up"} /\ namespace \in BOOLEAN /\ (namespace => cluster = "up")
    /\ lock \in Command \cup {None}
    /\ generated \subseteq Generated
    /\ \A r \in Release : release[r].age \in 0..StaleAfter /\ release[r].live \in Nat
    /\ stray \subseteq Release \X Operation
    /\ \A f \in File : file[f].state \in {"absent", "torn", "whole"} /\ file[f].key \in 0..MaxKeys
    /\ \A c \in Command : ToSet(todo[c]) \subseteq ToSet(Plan(selected[c])) /\ selected[c] \subseteq ToSet(Components)

\* No release is worked on by two Helm processes: neither the lock nor its
\* loss lets a command recover a release whose Helm process still runs, also
\* when that process has been left behind by Ctrl+C or a crash (helm.py:
\* STALE_PENDING_AFTER is longer than any Helm process lives), and an upgrade
\* left behind before its record is refused beside another.  Excepted: after
\* commands overlapped, or a recovery was left behind before its record.
HelmAlone == ~mishaps.loose => \A r \in Release : release[r].live <= 1

Matches(crt, key) == crt.state = "whole" /\ key.state = "whole" /\ crt.key = key.key

\* A deployment that reports success, when no commands overlapped and no
\* recovery was left behind before its record, has left what its components
\* promise, whatever was interrupted before it: the CA and the server
\* certificate have their own keys and the CA signed the server certificate,
\* unless a purge was cut short between a key and its certificate (ensure
\* does not compare them); both TLS secrets hold the server's pair, the
\* credentials exist, the nodes have the image the services' tag names, built
\* from the source it was computed of unless that was edited before the
\* build, and every release is deployed unless an earlier upgrade of it was
\* left behind.
SuccessMeansDeployed ==
    \A c \in Command : pc[c] = "done" /\ ~mishaps.loose =>
        /\ "certificates" \in selected[c] =>
             /\ "caCrt" \notin mishaps.spared => Matches(file["caCrt"], file["caKey"]) /\ file["tlsCrt"].issuer = file["caCrt"].key
             /\ "tlsCrt" \notin mishaps.spared => Matches(file["tlsCrt"], file["tlsKey"])
             /\ \A s \in TlsSecret : tls[s] = [crt |-> file["tlsCrt"], key |-> file["tlsKey"]]
        /\ "identity" \in selected[c] => generated = Generated
        /\ "services" \in selected[c] =>
             /\ memory[c].tag \in Tag
             /\ loaded[memory[c].tag] = memory[c].tag \/ memory[c].tag \in mishaps.crossed
        /\ \A r \in ReleasesOf(selected[c]) \ mishaps.left : release[r].status = "deployed"
=============================================================================
