-------------------------- MODULE LifecycleProofs --------------------------
(***************************************************************************)
(* Proofs about the platform's lifecycle: a release never has two Helm     *)
(* processes, and a deployment that reports success has left what its      *)
(* components promise, for any number of operators, any components and     *)
(* selections, any number of mishaps, until commands overlap.              *)
(*                                                                         *)
(* Basis is who may run and which item a command works on. Helm adds that  *)
(* a process has a pending release younger than HelmTimeout, that a        *)
(* command waits for a live process, that no release is touched before the *)
(* foundation stands, and that Helm processes left behind without a record *)
(* upgrade releases that are remembered for it. Pki says which of the four *)
(* files may disagree while a pair is being replaced or after a purge was  *)
(* cut short, Images that a tag's image was built from the tagged source   *)
(* unless that was edited in between, Promises that what a command has     *)
(* done still stands.                                                      *)
(***************************************************************************)
EXTENDS Lifecycle, TLAPS

-----------------------------------------------------------------------------
(* Sequences and plans.                                                     *)

\* A sequence that is not empty is its head and the rest.
LEMMA HeadAndTail ==
    ASSUME NEW S, NEW s \in Seq(S), s # <<>>
    PROVE  /\ Head(s) \in S /\ Head(s) \in ToSet(s) /\ Tail(s) \in Seq(S)
           /\ ToSet(s) = {Head(s)} \cup ToSet(Tail(s))
<1>1. Head(s) \in S /\ Tail(s) \in Seq(S) /\ Len(s) \in Nat /\ Len(s) > 0 /\ Head(s) = s[1]
  OBVIOUS
<1>2. Len(Tail(s)) = Len(s) - 1 /\ \A i \in 1..(Len(s) - 1) : Tail(s)[i] = s[i + 1]
  BY <1>1
<1>3. DOMAIN s = 1..Len(s) /\ DOMAIN Tail(s) = 1..(Len(s) - 1)
  BY <1>1, <1>2
<1>4. ToSet(s) \subseteq {Head(s)} \cup ToSet(Tail(s))
  <2>1. SUFFICES ASSUME NEW i \in 1..Len(s), i # 1 PROVE \E j \in DOMAIN Tail(s) : s[i] = Tail(s)[j]
    BY <1>1, <1>3 DEF ToSet
  <2>2. i - 1 \in 1..(Len(s) - 1) /\ s[i] = Tail(s)[i - 1]
    BY <1>1, <1>2, <2>1
  <2> QED BY <1>3, <2>2
<1>5. Head(s) \in ToSet(s)
  BY <1>1, <1>3 DEF ToSet
<1>6. ToSet(Tail(s)) \subseteq ToSet(s)
  <2>1. SUFFICES ASSUME NEW i \in 1..(Len(s) - 1) PROVE \E j \in DOMAIN s : Tail(s)[i] = s[j]
    BY <1>3 DEF ToSet
  <2>2. i + 1 \in 1..Len(s) /\ Tail(s)[i] = s[i + 1]
    BY <1>1, <1>2, <2>1
  <2> QED BY <1>3, <2>2
<1> QED BY <1>1, <1>4, <1>5, <1>6

LEMMA NothingIn == ToSet(<<>>) = {}
BY DEF ToSet

\* A sequence with nothing in it is empty.
LEMMA NothingLeft ==
    ASSUME NEW S, NEW s \in Seq(S), ToSet(s) = {}
    PROVE  s = <<>>
BY HeadAndTail

LEMMA SeqOfMore ==
    ASSUME NEW S, NEW T, S \subseteq T, NEW s \in Seq(S)
    PROVE  s \in Seq(T)
OBVIOUS

\* What a value is the first of, and only there, is gone with the head.
LEMMA OnceAtFront ==
    ASSUME NEW S, NEW s \in Seq(S), NEW x \in ToSet(s), \A i \in DOMAIN s : s[i] = x => i = 1
    PROVE  s # <<>> /\ Head(s) = x /\ x \notin ToSet(Tail(s))
<1>1. PICK k \in DOMAIN s : s[k] = x
  BY DEF ToSet
<1>2. k = 1 /\ s # <<>> /\ Len(s) \in Nat /\ Len(s) > 0 /\ DOMAIN s = 1..Len(s)
  BY <1>1
<1>3. Head(s) = x
  BY <1>1, <1>2
<1>4. x \notin ToSet(Tail(s))
  <2>1. SUFFICES ASSUME NEW i \in DOMAIN Tail(s), Tail(s)[i] = x PROVE FALSE
    BY DEF ToSet
  <2>2. i \in 1..(Len(s) - 1) /\ Tail(s)[i] = s[i + 1]
    BY <1>2, <2>1
  <2>3. i + 1 \in DOMAIN s /\ i + 1 # 1
    BY <1>2, <2>2
  <2> QED BY <2>1, <2>2, <2>3
<1> QED BY <1>2, <1>3, <1>4

LEMMA Pair ==
    ASSUME NEW a, NEW b
    PROVE  ToSet(<<a, b>>) = {a, b}
BY DEF ToSet

LEMMA Scripts ==
    /\ DOMAIN Script = {"foundation", "certificates", "gateway", "kong", "identity", "observability", "services"}
    /\ "platform-foundation" \in ToSet(Script["foundation"])
    /\ "certificates" \in ToSet(Script["certificates"])
    /\ "credentials" \in ToSet(Script["identity"])
    /\ "images" \in ToSet(Script["services"])
<1>1. DOMAIN Script = {"foundation", "certificates", "gateway", "kong", "identity", "observability", "services"}
  BY DEF Script
<1>2. "platform-foundation" \in ToSet(Script["foundation"])
  BY DEF Script, DeployFoundation, ToSet
<1>3. "certificates" \in ToSet(Script["certificates"])
  BY DEF Script, DeployCertificates, ToSet
<1>4. "credentials" \in ToSet(Script["identity"])
  BY Pair DEF Script, DeployIdentity
<1>5. "images" \in ToSet(Script["services"])
  BY Pair DEF Script, DeployServices
<1> QED BY <1>1, <1>2, <1>3, <1>4, <1>5

-----------------------------------------------------------------------------
(* The inductive invariant, in layers.                                      *)

Foundation == "platform-foundation"
Item == Release \cup {"certificates", "credentials", "images"}
HelmPc == {"recover", "uninstall", "rollback", "upgrade", "available"} \cup HelmWait
PkiPc == {"pki", "leaf", "read", "apply"} \cup File
ImagePc == {"images", "build", "load"}
ClusterPc == {"cluster", "creating", "nodes"}
Label ==
    {"idle", "exit", "delete", "purge", "next", "done", "generate"} \cup ClusterPc \cup HelmPc \cup PkiPc \cup ImagePc
Status == {"absent", "deployed", "failed", "uninstalling"} \cup Pending
Key == 0..MaxKeys
Stored == {Absent, Torn} \cup [state : {"whole"}, key : Key, issuer : Key]
Memory == [ca : Key, cert : Key, key : Key, pair : [crt : Stored, key : Stored], tag : 0..MaxSources]
Planned == Selections \cup {ToSet(Components)}

ClusterTypes ==
    /\ cluster \in {"absent", "creating", "partial", "up"} /\ namespace \in BOOLEAN
    /\ lock \in Command \cup {None}
    /\ generated \subseteq Generated
    /\ release \in [Release -> [status : Status, age : 0..StaleAfter, live : Nat]]
    /\ tls \in [TlsSecret -> [crt : Stored, key : Stored]]
    /\ loaded \in [Tag -> 0..MaxSources]
CommandTypes ==
    /\ file \in [File -> Stored]
    /\ pc \in [Command -> Label]
    /\ todo \in [Command -> Seq(Item)]
    /\ selected \in [Command -> Planned \cup {{}}]
    /\ memory \in [Command -> Memory]
    /\ source \in Tag
    /\ built \in [Tag -> 0..MaxSources]
Certificate == {"caCrt", "tlsCrt"}
History == [count : Nat, loose : BOOLEAN, spared : SUBSET Certificate, crossed : SUBSET (0..MaxSources), left : SUBSET Release]
HistoryTypes == mishaps \in History /\ stray \subseteq Release \X Operation
Types == ClusterTypes /\ CommandTypes /\ HistoryTypes

\* A plan has the items of its components, the namespaces first and once.
LEMMA Plans ==
    ASSUME NEW names \in Planned
    PROVE  /\ names \subseteq ToSet(Components)
           /\ Plan(names) \in Seq(Item)
           /\ ToSet(Plan(names)) = Items(names)
           /\ Foundation \in ToSet(Plan(names)) =>
                /\ Plan(names) # <<>> /\ Head(Plan(names)) = Foundation
                /\ Foundation \notin ToSet(Tail(Plan(names)))
<1>1. /\ names \subseteq ToSet(Components)
      /\ Plan(names) \in Seq(Items(names))
      /\ ToSet(Plan(names)) = Items(names)
      /\ \A i \in DOMAIN Plan(names) : Plan(names)[i] = Foundation => i = 1
  BY PlanAssumption DEF Planned, Foundation
<1>2. Items(names) \subseteq Items(ToSet(Components))
  BY <1>1, Zenon DEF Items
<1>3. Items(names) \subseteq Item
  BY <1>2 DEF Item, Release, ReleasesOf
<1>4. Plan(names) \in Seq(Item)
  BY <1>1, <1>3, SeqOfMore
<1>5. Foundation \in ToSet(Plan(names)) =>
        /\ Plan(names) # <<>> /\ Head(Plan(names)) = Foundation
        /\ Foundation \notin ToSet(Tail(Plan(names)))
  BY <1>1, <1>4, OnceAtFront
<1> QED BY <1>1, <1>4, <1>5

LEMMA FoundationIsRelease == Foundation \in Release
<1>1. "foundation" \in ToSet(Components)
  BY NamesAssumption
<1>2. Foundation \in Items(ToSet(Components))
  BY <1>1, Scripts, Zenon DEF Items, Foundation
<1> QED BY <1>2 DEF Release, ReleasesOf, Foundation

\* What kinds of content a file has.
LEMMA StoredKinds ==
    /\ Absent \in Stored /\ Torn \in Stored /\ Absent.state = "absent" /\ Torn.state = "torn" /\ NoPair \in [crt : Stored, key : Stored]
    /\ Absent.key = 0 /\ Absent.issuer = 0 /\ Torn.key = 0 /\ Torn.issuer = 0 /\ NoMemory \in Memory
    /\ \A x \in Stored : x.key \in Key /\ x.issuer \in Key /\ x.state \in {"absent", "torn", "whole"}
    /\ \A x \in Stored : x = Absent \/ x = Torn \/ x.state = "whole"
    /\ \A k, i \in Key : Content("whole", k, i) \in Stored
<1>0. 0 \in Key /\ 0 \in 0..MaxSources
  BY BoundsAssumption DEF Key
<1>1. /\ Absent \in Stored /\ Torn \in Stored /\ Absent.state = "absent" /\ Torn.state = "torn" /\ NoPair \in [crt : Stored, key : Stored]
      /\ Absent.key = 0 /\ Absent.issuer = 0 /\ Torn.key = 0 /\ Torn.issuer = 0
  BY DEF Stored, Absent, Torn, Content, NoPair
<1>2. NoMemory \in Memory
  BY <1>0, <1>1 DEF NoMemory, Memory
<1>3. \A x \in Stored : x.key \in Key /\ x.issuer \in Key /\ x.state \in {"absent", "torn", "whole"}
  BY <1>0 DEF Stored, Absent, Torn, Content
<1>4. \A x \in Stored : x = Absent \/ x = Torn \/ x.state = "whole"
  BY DEF Stored
<1>5. \A k, i \in Key : Content("whole", k, i) \in Stored
  BY DEF Stored, Content
<1> QED BY <1>1, <1>2, <1>3, <1>4, <1>5

\* The key that is generated is nobody's.
LEMMA KeyIsNew ==
    ASSUME FreeKey # {}
    PROVE  NewKey \in 1..MaxKeys /\ NewKey \notin InUse /\ NewKey \in Key
<1>1. \E k \in FreeKey : TRUE
  OBVIOUS
<1>2. NewKey \in FreeKey
  BY <1>1 DEF NewKey
<1> QED BY <1>2, BoundsAssumption DEF FreeKey, Key

LEMMA InitTypes == Init => Types
<1> SUFFICES ASSUME Init PROVE Types
  OBVIOUS
<1>1. NoRelease \in [status : Status, age : 0..StaleAfter, live : Nat]
  BY TimeoutAssumption DEF NoRelease, Status
<1>2. NoImages \in [Tag -> 0..MaxSources] /\ 1 \in Tag
  BY BoundsAssumption DEF NoImages, Tag
<1>3. <<>> \in Seq(Item)
  OBVIOUS
<1>4. ClusterTypes
  BY <1>1, <1>2, StoredKinds DEF Init, ClusterTypes
<1>5. CommandTypes
  BY <1>2, <1>3, StoredKinds DEF Init, CommandTypes, Label
<1>6. HistoryTypes
  BY DEF Init, HistoryTypes, History, NoMishaps
<1> QED BY <1>4, <1>5, <1>6 DEF Types

\* What of the history a mishap changes, by what it is.
LEMMA Mishaps ==
    ASSUME HistoryTypes
    PROVE  /\ \A h \in History : Worse(h) =>
                /\ mishaps' \in History /\ mishaps'.loose = h.loose /\ mishaps'.spared = h.spared
                /\ mishaps'.crossed = h.crossed /\ mishaps'.left = h.left
           /\ Mishap \/ UNCHANGED mishaps =>
                /\ mishaps' \in History /\ mishaps'.loose = mishaps.loose /\ mishaps'.spared = mishaps.spared
                /\ mishaps'.crossed = mishaps.crossed /\ mishaps'.left = mishaps.left
           /\ \A c \in Command : Begin(c) =>
                /\ mishaps' \in History /\ mishaps'.spared = mishaps.spared
                /\ mishaps'.crossed = mishaps.crossed /\ mishaps'.left = mishaps.left
                /\ mishaps.loose => mishaps'.loose
                /\ (\E d \in Command : Live(d)) => mishaps'.loose
           /\ \A c \in Command : CutShort(c) =>
                /\ mishaps'.spared = mishaps.spared /\ mishaps'.crossed = mishaps.crossed
                /\ mishaps.loose => mishaps'.loose
                /\ \/ UNCHANGED stray /\ mishaps' \in History /\ mishaps'.left = mishaps.left /\ mishaps'.loose = mishaps.loose
                   \/ /\ pc[c] \in Operation /\ stray' = stray \cup {<<Current(c), pc[c]>>}
                      /\ mishaps'.left = mishaps.left \cup {Current(c)}
                      /\ pc[c] # "upgrade" => mishaps'.loose
                      /\ Current(c) \in Release => mishaps' \in History
<1>0. mishaps \in History /\ mishaps.count \in Nat /\ mishaps.loose \in BOOLEAN
  BY DEF HistoryTypes, History
<1>1. \A h \in History : Worse(h) =>
        /\ mishaps' \in History /\ mishaps'.loose = h.loose /\ mishaps'.spared = h.spared
        /\ mishaps'.crossed = h.crossed /\ mishaps'.left = h.left
  BY <1>0 DEF Worse, History
<1>2. Mishap \/ UNCHANGED mishaps =>
        /\ mishaps' \in History /\ mishaps'.loose = mishaps.loose /\ mishaps'.spared = mishaps.spared
        /\ mishaps'.crossed = mishaps.crossed /\ mishaps'.left = mishaps.left
  BY <1>0, <1>1 DEF Mishap
<1>3. ASSUME NEW c \in Command, Begin(c)
      PROVE  /\ mishaps' \in History /\ mishaps'.spared = mishaps.spared
             /\ mishaps'.crossed = mishaps.crossed /\ mishaps'.left = mishaps.left
             /\ mishaps.loose => mishaps'.loose
             /\ (\E d \in Command : Live(d)) => mishaps'.loose
  <2>1. CASE \E d \in Command : Live(d)
    <3>1. PICK h : h = [mishaps EXCEPT !.loose = TRUE]
      OBVIOUS
    <3>2. h \in History /\ h.loose = TRUE /\ h.spared = mishaps.spared /\ h.crossed = mishaps.crossed /\ h.left = mishaps.left
      BY <1>0, <3>1 DEF History
    <3>3. Worse(h)
      BY <1>3, <2>1, <3>1 DEF Begin
    <3> QED BY <1>1, <3>2, <3>3
  <2>2. CASE ~\E d \in Command : Live(d)
    BY <1>2, <1>3, <2>2 DEF Begin
  <2> QED BY <2>1, <2>2
<1>4. ASSUME NEW c \in Command, CutShort(c)
      PROVE  /\ mishaps'.spared = mishaps.spared /\ mishaps'.crossed = mishaps.crossed
             /\ mishaps.loose => mishaps'.loose
             /\ \/ UNCHANGED stray /\ mishaps' \in History /\ mishaps'.left = mishaps.left /\ mishaps'.loose = mishaps.loose
                \/ /\ pc[c] \in Operation /\ stray' = stray \cup {<<Current(c), pc[c]>>}
                   /\ mishaps'.left = mishaps.left \cup {Current(c)}
                   /\ pc[c] # "upgrade" => mishaps'.loose
                   /\ Current(c) \in Release => mishaps' \in History
  <2>1. CASE Mishap /\ UNCHANGED stray
    BY <1>2, <2>1
  <2>2. CASE ~(Mishap /\ UNCHANGED stray)
    <3>1. PICK h : h = [mishaps EXCEPT !.left = @ \cup {Current(c)}, !.loose = @ \/ pc[c] # "upgrade"]
      OBVIOUS
    <3>2. /\ h.loose = (mishaps.loose \/ pc[c] # "upgrade") /\ h.spared = mishaps.spared /\ h.crossed = mishaps.crossed
          /\ h.left = mishaps.left \cup {Current(c)} /\ (Current(c) \in Release => h \in History)
      BY <1>0, <3>1 DEF History
    <3>3. pc[c] \in Operation /\ stray' = stray \cup {<<Current(c), pc[c]>>} /\ mishaps' = [h EXCEPT !.count = mishaps.count + 1]
      BY <1>4, <2>2, <3>1 DEF CutShort, Worse
    <3>4. mishaps'.loose = h.loose /\ mishaps'.spared = h.spared /\ mishaps'.crossed = h.crossed /\ mishaps'.left = h.left
      BY <1>0, <3>1, <3>3 DEF History
    <3>5. Current(c) \in Release => mishaps' \in History
      BY <1>0, <3>2, <3>3 DEF History
    <3> QED BY <3>2, <3>3, <3>4, <3>5
  <2> QED BY <2>1, <2>2
<1> QED BY <1>1, <1>2, <1>3, <1>4

LEMMA ChangeOfRelease ==
    ASSUME NEW r \in [status : Status, age : 0..StaleAfter, live : Nat]
    PROVE  /\ \A operation : Begun(r, operation) \in [status : Status, age : 0..StaleAfter, live : Nat]
           /\ \A outcome : r.live > 0 => Ended(r, outcome) \in [status : Status, age : 0..StaleAfter, live : Nat]
           /\ [NoRelease EXCEPT !.live = r.live] \in [status : Status, age : 0..StaleAfter, live : Nat]
           /\ NoRelease \in [status : Status, age : 0..StaleAfter, live : Nat]
           /\ r.age < StaleAfter => [r EXCEPT !.age = @ + 1] \in [status : Status, age : 0..StaleAfter, live : Nat]
<1>0. 0 \in 0..StaleAfter /\ StaleAfter \in Nat
  BY TimeoutAssumption
<1>1. \A operation : Begun(r, operation) \in [status : Status, age : 0..StaleAfter, live : Nat]
  BY <1>0 DEF Begun, Status, Pending
<1>2. ASSUME NEW outcome, r.live > 0
      PROVE  Ended(r, outcome) \in [status : Status, age : 0..StaleAfter, live : Nat]
  <2>1. r.live - 1 \in Nat
    BY <1>2
  <2>2. \A n \in Nat : [r EXCEPT !.live = n] \in [status : Status, age : 0..StaleAfter, live : Nat]
    OBVIOUS
  <2>3. \A n \in Nat, s \in Status : [r EXCEPT !.live = n, !.status = s] \in [status : Status, age : 0..StaleAfter, live : Nat]
    OBVIOUS
  <2>4. [NoRelease EXCEPT !.live = r.live - 1] \in [status : Status, age : 0..StaleAfter, live : Nat]
    BY <1>0, <2>1 DEF NoRelease, Status
  <2>5. "deployed" \in Status /\ "failed" \in Status /\ r.status \in Status
    BY DEF Status
  <2> QED BY <2>1, <2>2, <2>3, <2>4, <2>5 DEF Ended
<1>3. [NoRelease EXCEPT !.live = r.live] \in [status : Status, age : 0..StaleAfter, live : Nat]
  BY <1>0 DEF NoRelease, Status
<1>4. NoRelease \in [status : Status, age : 0..StaleAfter, live : Nat]
  BY <1>0 DEF NoRelease, Status
<1>5. r.age < StaleAfter => [r EXCEPT !.age = @ + 1] \in [status : Status, age : 0..StaleAfter, live : Nat]
  BY <1>0
<1> QED BY <1>1, <1>2, <1>3, <1>4, <1>5

LEMMA LabelsAre ==
    /\ Label = {"idle", "exit", "delete", "purge", "next", "done", "generate", "cluster", "creating", "nodes", "recover",
                "uninstall", "rollback", "upgrade", "available", "uninstalling", "rollingBack", "upgrading",
                "pki", "leaf", "read", "apply", "caKey", "caCrt", "tlsKey", "tlsCrt", "images", "build", "load"}
    /\ HelmPc = {"recover", "uninstall", "rollback", "upgrade", "available", "uninstalling", "rollingBack", "upgrading"}
    /\ PkiPc = {"pki", "leaf", "read", "apply", "caKey", "caCrt", "tlsKey", "tlsCrt"}
    /\ ImagePc = {"images", "build", "load"} /\ ClusterPc = {"cluster", "creating", "nodes"}
BY DEF Label, HelmPc, PkiPc, ImagePc, ClusterPc, HelmWait, File

\* A command's Helm process writes its record, or is refused.
LEMMA LaunchEffect ==
    ASSUME NEW c \in Command, LaunchHelm(c)
    PROVE  /\ pc[c] \in Operation
           /\ UNCHANGED <<cluster, namespace, tls, generated, loaded, lock, file, due, source, built, stray, selected, todo, memory, mishaps>>
           /\ \/ /\ MayBegin(Current(c), pc[c]) /\ release' = [release EXCEPT ![Current(c)] = Begun(release[Current(c)], pc[c])]
                 /\ Goto(c, Waiting[pc[c]])
              \/ /\ UNCHANGED release
                 /\ Goto(c, IF pc[c] = "uninstall" THEN "upgrade" ELSE "exit")
BY DEF LaunchHelm, workstation

\* And the command then waits for it, goes on or ends.
LEMMA LaunchLabel ==
    ASSUME Types, NEW c \in Command, LaunchHelm(c)
    PROVE  pc'[c] \in {"exit", "upgrade", "uninstalling", "rollingBack", "upgrading"}
<1>1. \A o \in Operation : Waiting[o] \in {"uninstalling", "rollingBack", "upgrading"}
  BY DEF Operation, Waiting
<1>2. Goto(c, Waiting[pc[c]]) \/ Goto(c, "upgrade") \/ Goto(c, "exit")
  <2>1. CASE pc[c] = "uninstall"
    BY <2>1, LaunchEffect
  <2>2. CASE pc[c] # "uninstall"
    BY <2>2, LaunchEffect
  <2> QED BY <2>1, <2>2
<1>3. pc[c] \in Operation
  BY LaunchEffect
<1>4. pc'[c] = Waiting[pc[c]] \/ pc'[c] = "upgrade" \/ pc'[c] = "exit"
  BY <1>2 DEF Goto, Types, CommandTypes
<1> QED BY <1>1, <1>3, <1>4

\* A Helm process that was left behind writes its record, or does nothing.
LEMMA StrayEffect ==
    ASSUME Types, NEW r \in Release, NEW operation \in Operation, StrayBegins(r, operation)
    PROVE  /\ <<r, operation>> \in stray /\ stray' = stray \ {<<r, operation>>}
           /\ UNCHANGED <<cluster, namespace, tls, generated, loaded, lock, file, due, source, built, pc, selected, todo, memory, mishaps>>
           /\ \/ UNCHANGED release
              \/ MayBegin(r, operation) /\ release' = [release EXCEPT ![r] = Begun(release[r], operation)]
BY DEF StrayBegins

LEMMA ClusterTypesStep ==
    ASSUME Types, Next, \A c \in Command : pc[c] \in HelmPc => todo[c] # <<>> /\ Head(todo[c]) \in Release
    PROVE  ClusterTypes'
<1> USE DEF Types
<1>1. ASSUME NEW c \in Command, Start(c) PROVE ClusterTypes'
  BY <1>1 DEF Start, PlatformLock, kubernetes, ClusterTypes
<1>2. ASSUME NEW c \in Command, EnsureCluster(c) PROVE ClusterTypes'
  BY <1>2 DEF EnsureCluster, ClusterTypes
<1>3. ASSUME NEW c \in Command, DeleteCluster(c) PROVE ClusterTypes'
  <2>1. NoImages \in [Tag -> 0..MaxSources]
    BY BoundsAssumption DEF NoImages
  <2>2. NoRelease \in [status : Status, age : 0..StaleAfter, live : Nat]
    BY TimeoutAssumption DEF NoRelease, Status
  <2> QED BY <1>3, <2>1, <2>2, StoredKinds DEF DeleteCluster, LoseNamespace, ClusterTypes
<1>4. ASSUME NEW c \in Command, ApplyTlsSecret(c) PROVE ClusterTypes'
  BY <1>4 DEF ApplyTlsSecret, ClusterTypes, CommandTypes, Memory
<1>5. ASSUME NEW c \in Command, EnsureGenerated(c) PROVE ClusterTypes'
  BY <1>5 DEF EnsureGenerated, ClusterTypes
<1>6. ASSUME NEW c \in Command, LoadImage(c) PROVE ClusterTypes'
  <2>1. loaded' \in [Tag -> 0..MaxSources]
    <3>1. CASE memory[c].tag \in Tag
      BY <1>6, <3>1 DEF LoadImage, ClusterTypes, CommandTypes
    <3>2. CASE memory[c].tag \notin Tag
      BY <1>6, <3>2 DEF LoadImage, ClusterTypes
    <3> QED BY <3>1, <3>2
  <2> QED BY <1>6, <2>1 DEF LoadImage, ClusterTypes
<1>7. ASSUME NEW c \in Command, LaunchHelm(c) PROVE ClusterTypes'
  <2>1. Current(c) \in Release
    BY <1>7, LabelsAre DEF LaunchHelm, Operation, Current
  <2>2. release[Current(c)] \in [status : Status, age : 0..StaleAfter, live : Nat]
    BY <2>1 DEF ClusterTypes
  <2>3. Begun(release[Current(c)], pc[c]) \in [status : Status, age : 0..StaleAfter, live : Nat]
    BY <2>2, ChangeOfRelease
  <2>4. release' \in [Release -> [status : Status, age : 0..StaleAfter, live : Nat]]
    <3>1. CASE UNCHANGED release
      BY <3>1 DEF ClusterTypes
    <3>2. CASE release' = [release EXCEPT ![Current(c)] = Begun(release[Current(c)], pc[c])]
      BY <2>3, <3>2 DEF ClusterTypes
    <3> QED BY <1>7, <3>1, <3>2, LaunchEffect
  <2> QED BY <1>7, <2>4, LaunchEffect DEF ClusterTypes
<1>8. ASSUME NEW r \in Release, HelmEnds(r) PROVE ClusterTypes'
  <2>1. PICK outcome \in HelmOutcome : ChartEffect(r, outcome)
    BY <1>8 DEF HelmEnds
  <2>2. release[r].live > 0
    BY <1>8 DEF HelmEnds
  <2>3. \A q \in Release : release[q] \in [status : Status, age : 0..StaleAfter, live : Nat]
    BY DEF ClusterTypes
  <2>4. release' \in [Release -> [status : Status, age : 0..StaleAfter, live : Nat]]
    <3>1. Ended(release[r], outcome) \in [status : Status, age : 0..StaleAfter, live : Nat]
      BY <2>2, <2>3, ChangeOfRelease
    <3>2. \A q \in Release : [NoRelease EXCEPT !.live = release[q].live] \in [status : Status, age : 0..StaleAfter, live : Nat]
      BY <2>3, ChangeOfRelease
    <3>3. CASE release' = [release EXCEPT ![r] = Ended(@, outcome)]
      BY <3>1, <3>3 DEF ClusterTypes
    <3>4. CASE release' = [q \in Release |-> IF q = r THEN Ended(release[q], outcome) ELSE [NoRelease EXCEPT !.live = release[q].live]]
      BY <3>1, <3>2, <3>4
    <3> QED BY <2>1, <3>3, <3>4 DEF ChartEffect
  <2>5. lock' \in Command \cup {None} /\ tls' \in [TlsSecret -> [crt : Stored, key : Stored]] /\ generated' \subseteq Generated
        /\ namespace' \in BOOLEAN
    BY <2>1, StoredKinds DEF ChartEffect, LoseNamespace, ClusterTypes
  <2> QED BY <1>8, <2>4, <2>5 DEF HelmEnds, ClusterTypes
<1>9. ASSUME Tick PROVE ClusterTypes'
  <2>1. \A q \in Release : release[q] \in [status : Status, age : 0..StaleAfter, live : Nat]
    BY DEF ClusterTypes
  <2>2. release' \in [Release -> [status : Status, age : 0..StaleAfter, live : Nat]]
    BY <1>9, <2>1, ChangeOfRelease DEF Tick
  <2> QED BY <1>9, <2>2 DEF Tick, ClusterTypes
<1>10. ASSUME KindEnds PROVE ClusterTypes'
  BY <1>10 DEF KindEnds, ClusterTypes
<1>11. ASSUME NEW c \in Command, Exit(c) PROVE ClusterTypes'
  BY <1>11 DEF Exit, kubernetes, ClusterTypes
<1>12. ASSUME LeaseExpires PROVE ClusterTypes'
  BY <1>12 DEF LeaseExpires, kubernetes, ClusterTypes
<1>13. ASSUME UNCHANGED <<kubernetes, lock>> PROVE ClusterTypes'
  BY <1>13 DEF kubernetes, ClusterTypes
<1>17. ASSUME NEW r \in Release, NEW operation \in Operation, StrayBegins(r, operation) PROVE ClusterTypes'
  <2>1. Begun(release[r], operation) \in [status : Status, age : 0..StaleAfter, live : Nat]
    BY ChangeOfRelease DEF ClusterTypes
  <2>2. release' \in [Release -> [status : Status, age : 0..StaleAfter, live : Nat]]
    <3>1. CASE UNCHANGED release
      BY <3>1 DEF ClusterTypes
    <3>2. CASE release' = [release EXCEPT ![r] = Begun(release[r], operation)]
      BY <2>1, <3>2 DEF ClusterTypes
    <3> QED BY <1>17, <3>1, <3>2, StrayEffect
  <2> QED BY <1>17, <2>2, StrayEffect DEF ClusterTypes
<1>14. ASSUME NEW c \in Command, Step(c) PROVE ClusterTypes'
  BY <1>1, <1>2, <1>3, <1>4, <1>5, <1>6, <1>7, <1>11, <1>13, <1>14
     DEF Step, Bootstrap, Deploy, Destroy, WaitNodesReady, Purge, NextComponent, EnsureCa, EnsureLeaf, Truncate, WriteFile, ReadPair,
         CertificatesDone, GeneratedDone, ContentTag, BuildImage, RecoverInterrupted, WaitAvailable
<1>15. ASSUME NEW c \in Command, Raise(c) \/ Crash(c) PROVE ClusterTypes'
  BY <1>13, <1>15 DEF Raise, Crash
<1>16. ASSUME (\E f \in {"caCrt", "tlsCrt"} : ComesDue(f)) \/ EditSource PROVE ClusterTypes'
  BY <1>13, <1>16 DEF ComesDue, EditSource
<1> QED BY <1>8, <1>9, <1>10, <1>12, <1>14, <1>15, <1>16, <1>17 DEF Next

\* A command that deploys: neither starting, nor ending, nor destroying.
Working(c) == pc[c] \notin {"idle", "exit", "delete", "purge"}

\* What is left to deploy is part of the plan, and its head is what the place
\* of the command is about.
ItemAt(c) ==
    /\ pc[c] \in HelmPc => todo[c] # <<>> /\ Head(todo[c]) \in Release
    /\ pc[c] \in PkiPc => todo[c] # <<>> /\ Head(todo[c]) = "certificates"
    /\ pc[c] = "generate" => todo[c] # <<>> /\ Head(todo[c]) = "credentials"
    /\ pc[c] \in ImagePc => todo[c] # <<>> /\ Head(todo[c]) = "images"
    /\ pc[c] = "done" => todo[c] = <<>>
    /\ ToSet(todo[c]) \subseteq ToSet(Plan(selected[c]))
    /\ Working(c) => selected[c] \in Planned
ItemAtPc == \A c \in Command : ItemAt(c)

\* What ends an item.
LEMMA EndOfItem ==
    ASSUME Types, ItemAtPc, NEW c \in Command, pc[c] \in HelmPc \cup PkiPc \cup ImagePc \cup {"generate"}, Deployed(c)
    PROVE  /\ todo[c] # <<>>
           /\ todo' = [todo EXCEPT ![c] = Tail(todo[c])] /\ todo' \in [Command -> Seq(Item)]
           /\ pc' = [pc EXCEPT ![c] = "next"] /\ pc' \in [Command -> Label]
           /\ ToSet(todo[c]) = {Head(todo[c])} \cup ToSet(Tail(todo[c]))
<1>1. todo[c] # <<>> /\ todo[c] \in Seq(Item)
  BY LabelsAre DEF ItemAtPc, ItemAt, Types, CommandTypes
<1>2. Tail(todo[c]) \in Seq(Item) /\ ToSet(todo[c]) = {Head(todo[c])} \cup ToSet(Tail(todo[c]))
  BY <1>1, HeadAndTail
<1> QED BY <1>1, <1>2, LabelsAre DEF Deployed, Goto, Types, CommandTypes

LEMMA CommandTypesStep ==
    ASSUME Types, ItemAtPc, Next
    PROVE  CommandTypes'
<1> USE DEF Types
<1>0. ASSUME NEW c \in Command, NEW label \in Label, Goto(c, label) PROVE pc' \in [Command -> Label]
  BY <1>0 DEF Goto, CommandTypes
<1>1. ASSUME NEW c \in Command, Bootstrap(c) PROVE CommandTypes'
  <2>1. Plan(ToSet(Components)) \in Seq(Item) /\ ToSet(Components) \in Planned
    BY Plans DEF Planned
  <2> QED BY <1>1, <2>1, <1>0, LabelsAre DEF Bootstrap, Start, workstation, CommandTypes
<1>2. ASSUME NEW c \in Command, Deploy(c) PROVE CommandTypes'
  <2>1. PICK names \in Selections : /\ selected' = [selected EXCEPT ![c] = names]
                                    /\ todo' = [todo EXCEPT ![c] = Plan(names)]
    BY <1>2 DEF Deploy
  <2>2. Plan(names) \in Seq(Item) /\ names \in Planned
    BY Plans DEF Planned
  <2> QED BY <1>2, <2>1, <2>2, <1>0, LabelsAre DEF Deploy, Start, workstation, CommandTypes
<1>3. ASSUME NEW c \in Command, UNCHANGED <<file, source, built, selected, todo, memory>>, NEW label \in Label, Goto(c, label)
      PROVE  CommandTypes'
  BY <1>0, <1>3 DEF CommandTypes
<1>4. ASSUME NEW c \in Command, Destroy(c) \/ EnsureCluster(c) \/ WaitNodesReady(c) \/ DeleteCluster(c) \/ Raise(c)
      PROVE  CommandTypes'
  <2>1. UNCHANGED <<file, source, built, selected, todo, memory>> /\ \E label \in Label : Goto(c, label)
    BY <1>4, LabelsAre DEF Destroy, EnsureCluster, WaitNodesReady, DeleteCluster, Raise, workstation
  <2> QED BY <2>1, <1>3
<1>5. ASSUME NEW c \in Command, NextComponent(c) \/ RecoverInterrupted(c) \/ LaunchHelm(c)
      PROVE  CommandTypes'
  <2>1. UNCHANGED <<file, source, built, selected, todo, memory>>
    BY <1>5 DEF NextComponent, RecoverInterrupted, LaunchHelm, workstation
  <2>2. \E label \in Label : Goto(c, label)
    BY <1>5, LabelsAre DEF NextComponent, RecoverInterrupted, LaunchHelm, PendingReleaseAction, Waiting, Operation
  <2> QED BY <2>1, <2>2, <1>3
<1>6. ASSUME NEW c \in Command, Purge(c) PROVE CommandTypes'
  <2>1. UNCHANGED <<source, built, selected, todo, memory>> /\ (UNCHANGED pc \/ Goto(c, "exit"))
    BY <1>6 DEF Purge
  <2>2. file' \in [File -> Stored]
    BY <1>6, StoredKinds DEF Purge, CommandTypes
  <2> QED BY <1>0, <2>1, <2>2, LabelsAre DEF CommandTypes
<1>7. ASSUME NEW c \in Command, NEW m \in Memory, UNCHANGED <<workstation, selected, todo>>, memory' = [memory EXCEPT ![c] = m],
             NEW label \in Label, Goto(c, label)
      PROVE  CommandTypes'
  BY <1>0, <1>7 DEF workstation, CommandTypes
<1>8. ASSUME NEW c \in Command, EnsureCa(c) PROVE CommandTypes'
  <2>1. CASE FreeKey # {} /\ memory' = [memory EXCEPT ![c].ca = NewKey, ![c].cert = NewKey] /\ Goto(c, "caKey")
    <3>1. [memory[c] EXCEPT !.ca = NewKey, !.cert = NewKey] \in Memory
      BY <2>1, KeyIsNew DEF CommandTypes, Memory
    <3>2. memory' = [memory EXCEPT ![c] = [memory[c] EXCEPT !.ca = NewKey, !.cert = NewKey]]
      BY <2>1 DEF CommandTypes
    <3> QED BY <1>7, <1>8, <2>1, <3>1, <3>2, LabelsAre DEF EnsureCa
  <2>2. CASE memory' = [memory EXCEPT ![c].ca = file["caKey"].key, ![c].cert = file["caCrt"].key] /\ Goto(c, "leaf")
    <3>1. file["caKey"].key \in Key /\ file["caCrt"].key \in Key
      BY StoredKinds DEF CommandTypes, File
    <3>2. [memory[c] EXCEPT !.ca = file["caKey"].key, !.cert = file["caCrt"].key] \in Memory
      BY <3>1 DEF CommandTypes, Memory
    <3>3. memory' = [memory EXCEPT ![c] = [memory[c] EXCEPT !.ca = file["caKey"].key, !.cert = file["caCrt"].key]]
      BY <2>2 DEF CommandTypes
    <3> QED BY <1>7, <1>8, <2>2, <3>2, <3>3, LabelsAre DEF EnsureCa
  <2> QED BY <1>8, <2>1, <2>2 DEF EnsureCa
<1>9. ASSUME NEW c \in Command, EnsureLeaf(c) PROVE CommandTypes'
  <2>1. CASE FreeKey # {} /\ memory' = [memory EXCEPT ![c].key = NewKey] /\ Goto(c, "tlsKey")
    <3>1. [memory[c] EXCEPT !.key = NewKey] \in Memory
      BY <2>1, KeyIsNew DEF CommandTypes, Memory
    <3>2. memory' = [memory EXCEPT ![c] = [memory[c] EXCEPT !.key = NewKey]]
      BY <2>1 DEF CommandTypes
    <3> QED BY <1>7, <1>9, <2>1, <3>1, <3>2, LabelsAre DEF EnsureLeaf
  <2>2. CASE UNCHANGED memory /\ Goto(c, "read")
    BY <1>3, <1>9, <2>2, LabelsAre DEF EnsureLeaf, workstation
  <2> QED BY <1>9, <2>1, <2>2 DEF EnsureLeaf
<1>10. ASSUME NEW c \in Command, Truncate(c) PROVE CommandTypes'
  BY <1>10, StoredKinds DEF Truncate, CommandTypes
<1>11. ASSUME NEW c \in Command, WriteFile(c) PROVE CommandTypes'
  <2>1. memory[c] \in Memory /\ memory[c].ca \in Key /\ memory[c].key \in Key /\ 0 \in Key
    BY BoundsAssumption DEF CommandTypes, Memory, Key
  <2>2. Written(c)[pc[c]] \in Stored /\ AfterFile[pc[c]] \in Label
    BY <1>11, <2>1, StoredKinds, LabelsAre DEF WriteFile, Written, AfterFile, File
  <2> QED BY <1>0, <1>11, <2>2 DEF WriteFile, CommandTypes
<1>12. ASSUME NEW c \in Command, ReadPair(c) PROVE CommandTypes'
  <2>1. [crt |-> file["tlsCrt"], key |-> file["tlsKey"]] \in [crt : Stored, key : Stored]
    BY DEF CommandTypes, File
  <2>2. [memory[c] EXCEPT !.pair = [crt |-> file["tlsCrt"], key |-> file["tlsKey"]]] \in Memory
    BY <2>1 DEF CommandTypes, Memory
  <2>3. memory' = [memory EXCEPT ![c] = [memory[c] EXCEPT !.pair = [crt |-> file["tlsCrt"], key |-> file["tlsKey"]]]]
    BY <1>12 DEF ReadPair, CommandTypes
  <2> QED BY <1>7, <1>12, <2>2, <2>3, LabelsAre DEF ReadPair
<1>13. ASSUME NEW c \in Command, CertificatesDone(c) PROVE CommandTypes'
  <2>1. [NoMemory EXCEPT !.tag = memory[c].tag] \in Memory
    BY StoredKinds DEF CommandTypes, Memory
  <2>2. todo' \in [Command -> Seq(Item)] /\ pc' \in [Command -> Label]
    BY <1>13, EndOfItem, LabelsAre DEF CertificatesDone
  <2> QED BY <1>13, <2>1, <2>2 DEF CertificatesDone, workstation, CommandTypes
<1>14. ASSUME NEW c \in Command, pc[c] \in {"generate", "load", "available"}, Deployed(c), UNCHANGED <<workstation, selected, memory>>
       PROVE  CommandTypes'
  <2>1. todo' \in [Command -> Seq(Item)] /\ pc' \in [Command -> Label]
    BY <1>14, EndOfItem, LabelsAre
  <2> QED BY <1>14, <2>1 DEF workstation, CommandTypes
<1>15. ASSUME NEW c \in Command, ContentTag(c) PROVE CommandTypes'
  <2>1. [memory[c] EXCEPT !.tag = source] \in Memory
    <3>1. source \in 0..MaxSources
      BY BoundsAssumption DEF CommandTypes, Tag
    <3> QED BY <3>1 DEF CommandTypes, Memory
  <2>2. memory' = [memory EXCEPT ![c] = [memory[c] EXCEPT !.tag = source]]
    BY <1>15 DEF ContentTag, CommandTypes
  <2> QED BY <1>7, <1>15, <2>1, <2>2, LabelsAre DEF ContentTag
<1>16. ASSUME NEW c \in Command, BuildImage(c) PROVE CommandTypes'
  <2>1. built' \in [Tag -> 0..MaxSources]
    <3>1. source \in 0..MaxSources
      BY BoundsAssumption DEF CommandTypes, Tag
    <3>2. built' = built \/ built' = [built EXCEPT ![memory[c].tag] = source]
      BY <1>16 DEF BuildImage
    <3> QED BY <3>1, <3>2 DEF CommandTypes
  <2> QED BY <1>0, <1>16, <2>1, LabelsAre DEF BuildImage, CommandTypes
<1>17. ASSUME NEW c \in Command, Exit(c) \/ Crash(c) PROVE CommandTypes'
  <2>1. Goto(c, "idle") /\ Forget(c) /\ UNCHANGED <<file, source, built>>
    BY <1>17 DEF Exit, Crash, workstation
  <2> QED BY <1>0, <2>1, StoredKinds, LabelsAre DEF Forget, CommandTypes
<1>18. ASSUME NEW r \in Release, HelmEnds(r) PROVE CommandTypes'
  <2>1. pc' \in [Command -> Label] /\ todo' \in [Command -> Seq(Item)]
    <3>1. CASE UNCHANGED <<pc, todo>>
      BY <3>1 DEF CommandTypes
    <3>2. ASSUME NEW c \in Running(r), NEW outcome, AfterHelm(c, outcome)
          PROVE  pc' \in [Command -> Label] /\ todo' \in [Command -> Seq(Item)]
      <4>1. c \in Command /\ pc[c] \in HelmPc
        BY LabelsAre DEF Running, HelmWait
      <4>2. CASE Deployed(c)
        BY <4>1, <4>2, EndOfItem
      <4>3. CASE UNCHANGED todo /\ \E label \in Label : Goto(c, label)
        BY <4>1, <4>3, <1>0 DEF CommandTypes
      <4> QED BY <3>2, <4>2, <4>3, LabelsAre DEF AfterHelm
    <3> QED BY <1>18, <3>1, <3>2 DEF HelmEnds
  <2> QED BY <1>18, <2>1 DEF HelmEnds, workstation, CommandTypes
<1>19. ASSUME KindEnds PROVE CommandTypes'
  <2>1. pc' \in [Command -> Label]
    BY <1>19, LabelsAre DEF KindEnds, CommandTypes
  <2> QED BY <1>19, <2>1 DEF KindEnds, workstation, CommandTypes
<1>20. ASSUME EditSource PROVE CommandTypes'
  BY <1>20 DEF EditSource, CommandTypes
<1>21. ASSUME UNCHANGED <<file, source, built, pc, selected, todo, memory>> PROVE CommandTypes'
  BY <1>21 DEF CommandTypes
<1>22. ASSUME NEW c \in Command, Step(c) PROVE CommandTypes'
  <2>1. CASE GeneratedDone(c) \/ LoadImage(c) \/ WaitAvailable(c)
    BY <1>14, <2>1 DEF GeneratedDone, LoadImage, WaitAvailable
  <2>2. CASE ApplyTlsSecret(c) \/ EnsureGenerated(c)
    BY <1>21, <2>2 DEF ApplyTlsSecret, EnsureGenerated, workstation
  <2> QED BY <1>22, <2>1, <2>2, <1>1, <1>2, <1>4, <1>5, <1>6, <1>8, <1>9, <1>10, <1>11, <1>12, <1>13, <1>15, <1>16, <1>17 DEF Step
<1>23. ASSUME (\E f \in {"caCrt", "tlsCrt"} : ComesDue(f)) \/ Tick \/ LeaseExpires PROVE CommandTypes'
  BY <1>21, <1>23 DEF ComesDue, Tick, LeaseExpires, workstation
<1>24. ASSUME NEW r \in Release, NEW operation \in Operation, StrayBegins(r, operation) PROVE CommandTypes'
  BY <1>21, <1>24, StrayEffect
<1> QED BY <1>4, <1>17, <1>18, <1>19, <1>20, <1>22, <1>23, <1>24 DEF Next

LEMMA HistoryTypesStep ==
    ASSUME Types, ItemAtPc, Next
    PROVE  HistoryTypes' /\ (mishaps.loose => mishaps'.loose)
<1> DEFINE Onward == HistoryTypes' /\ (mishaps.loose => mishaps'.loose)
<1> SUFFICES Onward
  OBVIOUS
<1> USE DEF Types
<1>0. mishaps \in History
  BY DEF HistoryTypes
<1>1. ASSUME Mishap \/ UNCHANGED mishaps, stray' \subseteq stray PROVE Onward
  BY <1>1, Mishaps DEF HistoryTypes
<1>2. ASSUME NEW c \in Command, Begin(c), UNCHANGED stray PROVE Onward
  BY <1>2, Mishaps DEF HistoryTypes
<1>3. ASSUME NEW c \in Command, CutShort(c) PROVE Onward
  <2>1. pc[c] \in Operation => Current(c) \in Release
    BY LabelsAre DEF Operation, ItemAtPc, ItemAt, Current
  <2> QED BY <1>3, <2>1, Mishaps DEF HistoryTypes
<1>4. ASSUME NEW h \in History, h.loose = mishaps.loose, mishaps' = h \/ Worse(h), stray' \subseteq stray PROVE Onward
  BY <1>4, Mishaps DEF HistoryTypes
<1>5. ASSUME NEW c \in Command, DeleteCluster(c) PROVE Onward
  <2>1. [mishaps EXCEPT !.left = {}] \in History /\ [mishaps EXCEPT !.left = {}].loose = mishaps.loose
    BY <1>0 DEF History
  <2> QED BY <1>4, <1>5, <2>1 DEF DeleteCluster
<1>6. \A S \in SUBSET Certificate : /\ [mishaps EXCEPT !.spared = S] \in History
                                    /\ [mishaps EXCEPT !.spared = S].loose = mishaps.loose
  BY <1>0 DEF History
<1>7. ASSUME NEW c \in Command, Purge(c) PROVE Onward
  <2>1. UNCHANGED stray
    BY <1>7 DEF Purge
  <2>2. CASE UNCHANGED mishaps
    BY <1>1, <2>1, <2>2
  <2>3. CASE \E S \in SUBSET Certificate : mishaps' = [mishaps EXCEPT !.spared = S]
    BY <1>4, <1>6, <2>1, <2>3
  <2> QED BY <1>7, <2>2, <2>3 DEF Purge, KeyFile, Certificate
<1>8. ASSUME NEW c \in Command, WriteFile(c) PROVE Onward
  <2>1. mishaps.spared \ {pc[c]} \in SUBSET Certificate
    BY <1>0 DEF History
  <2> QED BY <1>4, <1>6, <1>8, <2>1 DEF WriteFile
<1>9. ASSUME EditSource PROVE Onward
  <2>1. PICK S : S = mishaps.crossed \cup {memory[c].tag : c \in {d \in Command : pc[d] = "build"}}
    OBVIOUS
  <2>2. S \in SUBSET (0..MaxSources)
    BY <1>0, <2>1 DEF History, CommandTypes, Memory
  <2>3. [mishaps EXCEPT !.crossed = S] \in History /\ [mishaps EXCEPT !.crossed = S].loose = mishaps.loose
    BY <1>0, <2>2 DEF History
  <2>4. Worse([mishaps EXCEPT !.crossed = S]) /\ UNCHANGED stray
    BY <1>9, <2>1 DEF EditSource
  <2> QED BY <1>4, <2>3, <2>4
<1>10. ASSUME NEW r \in Release, HelmEnds(r) PROVE Onward
  <2>1. UNCHANGED stray
    BY <1>10 DEF HelmEnds, workstation
  <2>2. PICK S : S = {q \in mishaps.left : q # r \/ <<q, "upgrade">> \in stray}
    OBVIOUS
  <2>3. [mishaps EXCEPT !.left = S] \in History /\ [mishaps EXCEPT !.left = S].loose = mishaps.loose
    BY <1>0, <2>2 DEF History
  <2>4. Mishap \/ mishaps' = [mishaps EXCEPT !.left = S]
    BY <1>10, <2>2 DEF HelmEnds
  <2> QED BY <1>1, <1>4, <2>1, <2>3, <2>4
<1>11. ASSUME NEW c \in Command, Step(c) PROVE Onward
  <2>1. CASE Bootstrap(c) \/ Deploy(c) \/ Destroy(c)
    BY <1>2, <2>1 DEF Bootstrap, Deploy, Destroy, Start, workstation
  <2>2. CASE Exit(c)
    BY <1>1, <2>2 DEF Exit, workstation
  <2>3. CASE UNCHANGED <<mishaps, stray>>
    BY <1>1, <2>3
  <2> QED BY <1>5, <1>7, <1>8, <1>11, <2>1, <2>2, <2>3
     DEF Step, EnsureCluster, WaitNodesReady, NextComponent, EnsureCa, EnsureLeaf, Truncate, ReadPair, ApplyTlsSecret, CertificatesDone,
         EnsureGenerated, GeneratedDone, ContentTag, BuildImage, LoadImage, RecoverInterrupted, LaunchHelm, WaitAvailable, workstation
<1>12. ASSUME NEW c \in Command, Raise(c) \/ Crash(c) PROVE Onward
  BY <1>3, <1>12 DEF Raise, Crash
<1>13. ASSUME (\E f \in {"caCrt", "tlsCrt"} : ComesDue(f)) \/ KindEnds \/ Tick \/ LeaseExpires PROVE Onward
  BY <1>1, <1>13 DEF ComesDue, KindEnds, Tick, LeaseExpires, workstation
<1>14. ASSUME NEW r \in Release, NEW operation \in Operation, StrayBegins(r, operation) PROVE Onward
  BY <1>1, <1>14, StrayEffect
<1> HIDE DEF Onward
<1> QED BY <1>9, <1>10, <1>11, <1>12, <1>13, <1>14 DEF Next

-----------------------------------------------------------------------------
(* One command at a time.                                                   *)

\* A lock stands on the application namespace, the namespace and the Helm
\* processes on the cluster; and there is at most one command, unless
\* commands have overlapped.
Locking ==
    /\ namespace => cluster = "up"
    /\ lock # None => namespace
    /\ \A r \in Release : release[r].live > 0 => cluster = "up"
    /\ ~mishaps.loose => \A c, d \in Command : Live(c) /\ Live(d) => c = d

Basis == Types /\ Locking /\ ItemAtPc

\* A command that overlaps with none starts when no other lives.
LEMMA StartsAlone ==
    ASSUME Types, NEW c \in Command, Start(c) \/ Destroy(c), ~mishaps'.loose
    PROVE  \A d \in Command : ~Live(d)
BY Mishaps DEF Start, Destroy, Types

\* The other commands when one takes a step are left alone.
LEMMA OthersStay ==
    ASSUME Types, NEW c \in Command, Step(c) \/ Raise(c) \/ Crash(c)
    PROVE  \A d \in Command \ {c} :
             /\ pc'[d] = pc[d] /\ todo'[d] = todo[d] /\ selected'[d] = selected[d] /\ memory'[d] = memory[d]
<1> USE DEF Types
<1>1. \A d \in Command \ {c} : pc'[d] = pc[d]
  <2>1. UNCHANGED pc \/ \E label : Goto(c, label)
    BY DEF Step, Bootstrap, Deploy, Destroy, EnsureCluster, WaitNodesReady, DeleteCluster, Purge, NextComponent, Deployed,
           EnsureCa, EnsureLeaf, Truncate, WriteFile, ReadPair, ApplyTlsSecret, CertificatesDone, EnsureGenerated, GeneratedDone,
           ContentTag, BuildImage, LoadImage, RecoverInterrupted, LaunchHelm, WaitAvailable, Exit, Raise, Crash
  <2> QED BY <2>1 DEF Goto, CommandTypes
<1>2. \A d \in Command \ {c} : todo'[d] = todo[d] /\ selected'[d] = selected[d]
  <2>1. (UNCHANGED todo \/ \E x : todo' = [todo EXCEPT ![c] = x]) /\ (UNCHANGED selected \/ \E x : selected' = [selected EXCEPT ![c] = x])
    BY DEF Step, Bootstrap, Deploy, Destroy, EnsureCluster, WaitNodesReady, DeleteCluster, Purge, NextComponent, Deployed,
           EnsureCa, EnsureLeaf, Truncate, WriteFile, ReadPair, ApplyTlsSecret, CertificatesDone, EnsureGenerated, GeneratedDone,
           ContentTag, BuildImage, LoadImage, RecoverInterrupted, LaunchHelm, WaitAvailable, Exit, Raise, Crash, Forget
  <2> QED BY <2>1 DEF CommandTypes
<1>3. \A d \in Command \ {c} : memory'[d] = memory[d]
  <2>1. UNCHANGED memory \/ EnsureCa(c) \/ EnsureLeaf(c) \/ ReadPair(c) \/ CertificatesDone(c) \/ ContentTag(c) \/ Exit(c) \/ Crash(c)
    BY DEF Step, Bootstrap, Deploy, Destroy, Start, EnsureCluster, WaitNodesReady, DeleteCluster, Purge, NextComponent,
           Truncate, WriteFile, ApplyTlsSecret, EnsureGenerated, GeneratedDone,
           BuildImage, LoadImage, RecoverInterrupted, LaunchHelm, WaitAvailable, Raise
  <2>2. CASE EnsureCa(c) \/ EnsureLeaf(c)
    BY <2>2 DEF EnsureCa, EnsureLeaf, CommandTypes
  <2>3. CASE ReadPair(c) \/ CertificatesDone(c) \/ ContentTag(c) \/ Exit(c) \/ Crash(c)
    BY <2>3 DEF ReadPair, CertificatesDone, ContentTag, Exit, Crash, Forget, CommandTypes
  <2> QED BY <2>1, <2>2, <2>3
<1> QED BY <1>1, <1>2, <1>3

\* And they do not run, unless commands have overlapped.
LEMMA OthersIdle ==
    ASSUME Types, Locking, NEW c \in Command, Step(c) \/ Raise(c) \/ Crash(c), mishaps.loose => mishaps'.loose, ~mishaps'.loose
    PROVE  \A d \in Command \ {c} :
             /\ pc[d] = "idle" /\ pc'[d] = "idle"
             /\ todo'[d] = todo[d] /\ selected'[d] = selected[d] /\ memory'[d] = memory[d]
<1>1. \A d \in Command \ {c} : pc[d] = "idle"
  <2>1. CASE Start(c) \/ Destroy(c)
    BY <2>1, StartsAlone DEF Live
  <2>2. CASE Live(c)
    BY <2>2 DEF Locking, Live
  <2>3. Start(c) \/ Destroy(c) \/ Live(c)
    BY DEF Step, Bootstrap, Deploy, EnsureCluster, WaitNodesReady, DeleteCluster, Purge, NextComponent,
           EnsureCa, EnsureLeaf, Truncate, WriteFile, ReadPair, ApplyTlsSecret, CertificatesDone, EnsureGenerated, GeneratedDone,
           ContentTag, BuildImage, LoadImage, RecoverInterrupted, LaunchHelm, WaitAvailable, Exit, Raise, Crash, Live, File, Operation
  <2> QED BY <2>1, <2>2, <2>3
<1> QED BY <1>1, OthersStay

LEMMA LockingStep ==
    ASSUME Basis, Next, mishaps.loose => mishaps'.loose
    PROVE  Locking'
<1> USE DEF Basis, Types
<1>1. ASSUME ~mishaps'.loose PROVE \A c, d \in Command : Live(c)' /\ Live(d)' => c = d
  <2>1. ASSUME NEW c \in Command, Step(c) \/ Raise(c) \/ Crash(c) PROVE \A d \in Command \ {c} : ~Live(d)'
    BY <1>1, <2>1, OthersIdle DEF Live
  <2>2. ASSUME \A c \in Command : Live(c)' => Live(c) PROVE \A c, d \in Command : Live(c)' /\ Live(d)' => c = d
    BY <1>1, <2>2 DEF Locking
  <2>3. ASSUME NEW r \in Release, HelmEnds(r) PROVE \A c \in Command : Live(c)' => Live(c)
    <3>1. CASE UNCHANGED pc
      BY <3>1 DEF Live
    <3>2. ASSUME NEW c \in Running(r), NEW outcome, AfterHelm(c, outcome) PROVE \A d \in Command : Live(d)' => Live(d)
      <4>1. c \in Command /\ Live(c) /\ \E label : Goto(c, label)
        BY <3>2 DEF Running, HelmWait, AfterHelm, Deployed, Live
      <4> QED BY <4>1 DEF Live, Goto, CommandTypes
    <3> QED BY <2>3, <3>1, <3>2 DEF HelmEnds
  <2>4. ASSUME KindEnds PROVE \A c \in Command : Live(c)' => Live(c)
    BY <2>4 DEF KindEnds, Live
  <2>5. ASSUME UNCHANGED pc PROVE \A c \in Command : Live(c)' => Live(c)
    BY <2>5 DEF Live
  <2>6. ASSUME NEW c \in Command, Step(c) \/ Raise(c) \/ Crash(c) PROVE \A a, d \in Command : Live(a)' /\ Live(d)' => a = d
    BY <2>1, <2>6
  <2>7. ASSUME (\E f \in {"caCrt", "tlsCrt"} : ComesDue(f)) \/ EditSource \/ Tick \/ LeaseExpires
        PROVE  \A c, d \in Command : Live(c)' /\ Live(d)' => c = d
    BY <2>2, <2>5, <2>7 DEF ComesDue, EditSource, Tick, LeaseExpires
  <2>8. ASSUME NEW r \in Release, NEW operation \in Operation, StrayBegins(r, operation)
        PROVE  \A c, d \in Command : Live(c)' /\ Live(d)' => c = d
    BY <2>2, <2>5, <2>8, StrayEffect
  <2> QED BY <2>2, <2>3, <2>4, <2>6, <2>7, <2>8 DEF Next
<1>2. /\ namespace' => cluster' = "up"
      /\ lock' # None => namespace'
      /\ \A r \in Release : release'[r].live > 0 => cluster' = "up"
  <2> DEFINE Stands == /\ namespace => cluster = "up"
                       /\ lock # None => namespace
                       /\ \A r \in Release : release[r].live > 0 => cluster = "up"
  <2>0. Stands
    BY DEF Locking
  <2>1. ASSUME NEW c \in Command, Start(c) PROVE Stands'
    BY <2>0, <2>1 DEF Start, PlatformLock, NamespaceExists, kubernetes
  <2>2. ASSUME NEW c \in Command, EnsureCluster(c) PROVE Stands'
    BY <2>0, <2>2 DEF EnsureCluster, ClusterTypes
  <2>3. ASSUME NEW c \in Command, DeleteCluster(c) PROVE Stands'
    BY <2>3 DEF DeleteCluster, LoseNamespace, NoRelease
  <2>4. ASSUME NEW c \in Command, LaunchHelm(c) PROVE Stands'
    BY <2>0, <2>4 DEF LaunchHelm, MayBegin, Begun
  <2>5. ASSUME NEW c \in Command, Exit(c) PROVE Stands'
    BY <2>0, <2>5 DEF Exit, kubernetes
  <2>6. ASSUME UNCHANGED <<kubernetes, lock>> PROVE Stands'
    BY <2>0, <2>6 DEF kubernetes
  <2>7. ASSUME NEW r \in Release, HelmEnds(r) PROVE Stands'
    <3>1. cluster = "up" /\ cluster' = "up"
      BY <2>0, <2>7 DEF HelmEnds
    <3>2. lock' # None => namespace'
      BY <2>0, <2>7 DEF HelmEnds, ChartEffect, LoseNamespace
    <3> QED BY <3>1, <3>2
  <2>8. ASSUME KindEnds PROVE Stands'
    BY <2>0, <2>8 DEF KindEnds
  <2>9. ASSUME Tick PROVE Stands'
    <3>1. \A r \in Release : release'[r].live = release[r].live
      BY <2>9 DEF Tick, ClusterTypes
    <3> QED BY <2>0, <2>9, <3>1 DEF Tick
  <2>10. ASSUME LeaseExpires PROVE Stands'
    BY <2>0, <2>10 DEF LeaseExpires, kubernetes
  <2>11. ASSUME NEW c \in Command, ApplyTlsSecret(c) \/ EnsureGenerated(c) \/ LoadImage(c) PROVE Stands'
    BY <2>0, <2>11 DEF ApplyTlsSecret, EnsureGenerated, LoadImage
  <2>12. ASSUME NEW c \in Command, Step(c) PROVE Stands'
    BY <2>1, <2>2, <2>3, <2>4, <2>5, <2>6, <2>11, <2>12
       DEF Step, Bootstrap, Deploy, Destroy, WaitNodesReady, Purge, NextComponent, EnsureCa, EnsureLeaf, Truncate, WriteFile, ReadPair,
           CertificatesDone, GeneratedDone, ContentTag, BuildImage, RecoverInterrupted, WaitAvailable
  <2>13. ASSUME (\E f \in {"caCrt", "tlsCrt"} : ComesDue(f)) \/ EditSource \/ (\E c \in Command : Raise(c) \/ Crash(c)) PROVE Stands'
    BY <2>6, <2>13 DEF ComesDue, EditSource, Raise, Crash
  <2>14. ASSUME NEW r \in Release, NEW operation \in Operation, StrayBegins(r, operation) PROVE Stands'
    <3>1. CASE UNCHANGED release
      BY <2>0, <2>14, <3>1, StrayEffect
    <3>2. CASE cluster = "up"
      BY <2>0, <2>14, <3>2, StrayEffect
    <3> QED BY <2>14, <3>1, <3>2, StrayEffect DEF MayBegin
  <2>15. Stands'
    BY <2>7, <2>8, <2>9, <2>10, <2>12, <2>13, <2>14 DEF Next
  <2> QED BY <2>15
<1> QED BY <1>1, <1>2 DEF Locking

LEMMA ItemAtPcStep ==
    ASSUME Basis, Next, mishaps.loose => mishaps'.loose
    PROVE  ItemAtPc'
<1> USE DEF Basis, Types
<1>0. \A c \in Command : ItemAt(c)
  BY DEF ItemAtPc
<1>1. ASSUME NEW c \in Command, Bootstrap(c) PROVE ItemAt(c)'
  <2>1. pc'[c] = "cluster" /\ todo'[c] = Plan(ToSet(Components)) /\ selected'[c] = ToSet(Components)
    BY <1>1 DEF Bootstrap, Goto, CommandTypes
  <2> QED BY <2>1, LabelsAre DEF ItemAt, Planned
<1>2. ASSUME NEW c \in Command, Deploy(c) PROVE ItemAt(c)'
  <2>1. PICK names \in Selections : /\ selected' = [selected EXCEPT ![c] = names]
                                    /\ todo' = [todo EXCEPT ![c] = Plan(names)]
    BY <1>2 DEF Deploy
  <2>2. pc'[c] = "next" /\ todo'[c] = Plan(names) /\ selected'[c] = names
    BY <1>2, <2>1 DEF Deploy, Goto, CommandTypes
  <2> QED BY <2>2, LabelsAre DEF ItemAt, Planned
<1>3. ASSUME NEW c \in Command, UNCHANGED <<todo, selected>>, NEW label, Goto(c, label),
             /\ label \in HelmPc => todo[c] # <<>> /\ Head(todo[c]) \in Release
             /\ label \in PkiPc => todo[c] # <<>> /\ Head(todo[c]) = "certificates"
             /\ label = "generate" => todo[c] # <<>> /\ Head(todo[c]) = "credentials"
             /\ label \in ImagePc => todo[c] # <<>> /\ Head(todo[c]) = "images"
             /\ label = "done" => todo[c] = <<>>,
             Working(c) \/ label \in {"idle", "exit", "delete", "purge"}
      PROVE  ItemAt(c)'
  <2>1. pc'[c] = label /\ todo'[c] = todo[c] /\ selected'[c] = selected[c]
    BY <1>3 DEF Goto, CommandTypes
  <2> QED BY <1>0, <1>3, <2>1 DEF ItemAt, Working
<1>4. ASSUME NEW c \in Command, Destroy(c) \/ EnsureCluster(c) \/ WaitNodesReady(c) \/ DeleteCluster(c) \/ Purge(c) \/ Raise(c)
      PROVE  ItemAt(c)'
  <2>1. UNCHANGED <<todo, selected>>
    BY <1>4 DEF Destroy, EnsureCluster, WaitNodesReady, DeleteCluster, Purge, Raise
  <2>0. CASE UNCHANGED pc
    BY <1>0, <2>0, <2>1 DEF ItemAt, Working
  <2>2. CASE \E label \in {"delete", "purge", "exit"} : Goto(c, label)
    BY <2>1, <2>2, <1>3, LabelsAre
  <2>3. CASE pc[c] \in {"cluster", "nodes"} /\ \E label \in {"creating", "nodes", "next"} : Goto(c, label)
    BY <2>1, <2>3, <1>3, LabelsAre DEF Working
  <2> QED BY <1>4, <2>0, <2>2, <2>3 DEF Destroy, EnsureCluster, WaitNodesReady, DeleteCluster, Purge, Raise
<1>5. ASSUME NEW c \in Command, NextComponent(c) PROVE ItemAt(c)'
  <2>1. UNCHANGED <<todo, selected>> /\ Working(c) /\ todo[c] \in Seq(Item)
    BY <1>5 DEF NextComponent, Working, CommandTypes
  <2>2. CASE todo[c] = <<>>
    BY <1>5, <2>1, <2>2, <1>3, LabelsAre DEF NextComponent
  <2>3. CASE todo[c] # <<>>
    <3>1. Head(todo[c]) \in Item
      BY <2>1, <2>3, HeadAndTail
    <3>2. CASE Head(todo[c]) = "certificates"
      BY <1>5, <2>1, <2>3, <3>2, <1>3, LabelsAre DEF NextComponent
    <3>3. CASE Head(todo[c]) = "credentials"
      BY <1>5, <2>1, <2>3, <3>3, <1>3, LabelsAre DEF NextComponent
    <3>4. CASE Head(todo[c]) = "images"
      BY <1>5, <2>1, <2>3, <3>4, <1>3, LabelsAre DEF NextComponent
    <3>5. CASE Head(todo[c]) \notin {"certificates", "credentials", "images"}
      BY <1>5, <2>1, <2>3, <3>1, <3>5, <1>3, LabelsAre DEF NextComponent, Item
    <3> QED BY <3>2, <3>3, <3>4, <3>5
  <2> QED BY <2>2, <2>3
<1>6. ASSUME NEW c \in Command, EnsureCa(c) \/ EnsureLeaf(c) \/ WriteFile(c) \/ ReadPair(c)
      PROVE  ItemAt(c)'
  <2>1. UNCHANGED <<todo, selected>> /\ Working(c) /\ pc[c] \in PkiPc
    BY <1>6, LabelsAre DEF EnsureCa, EnsureLeaf, WriteFile, ReadPair, Working, File
  <2>2. \E label \in PkiPc : Goto(c, label)
    <3>1. CASE WriteFile(c)
      <4>1. AfterFile[pc[c]] \in PkiPc
        BY <3>1, LabelsAre DEF WriteFile, AfterFile, File
      <4> QED BY <3>1, <4>1 DEF WriteFile
    <3> QED BY <1>6, <3>1, LabelsAre DEF EnsureCa, EnsureLeaf, ReadPair
  <2>3. todo[c] # <<>> /\ Head(todo[c]) = "certificates"
    BY <1>0, <2>1 DEF ItemAt
  <2> QED BY <2>1, <2>2, <2>3, <1>3, LabelsAre
<1>7. ASSUME NEW c \in Command, ContentTag(c) \/ BuildImage(c) PROVE ItemAt(c)'
  <2>1. UNCHANGED <<todo, selected>> /\ Working(c) /\ pc[c] \in ImagePc /\ \E label \in ImagePc : Goto(c, label)
    BY <1>7, LabelsAre DEF ContentTag, BuildImage, Working
  <2>2. todo[c] # <<>> /\ Head(todo[c]) = "images"
    BY <1>0, <2>1 DEF ItemAt
  <2> QED BY <2>1, <2>2, <1>3, LabelsAre
<1>8. ASSUME NEW c \in Command, pc[c] \in HelmPc, UNCHANGED <<todo, selected>>, NEW label \in HelmPc \cup {"exit"}, Goto(c, label)
      PROVE  ItemAt(c)'
  <2>1. todo[c] # <<>> /\ Head(todo[c]) \in Release
    BY <1>0, <1>8 DEF ItemAt
  <2> QED BY <1>8, <2>1, <1>3, LabelsAre DEF Working
<1>9. ASSUME NEW c \in Command, RecoverInterrupted(c) \/ LaunchHelm(c) PROVE ItemAt(c)'
  <2>1. pc[c] \in HelmPc /\ UNCHANGED <<todo, selected>> /\ \E label \in HelmPc \cup {"exit"} : Goto(c, label)
    BY <1>9, LabelsAre DEF RecoverInterrupted, LaunchHelm, PendingReleaseAction, Operation, Waiting
  <2> QED BY <2>1, <1>8
<1>10. ASSUME NEW c \in Command, pc[c] \in HelmPc \cup PkiPc \cup ImagePc \cup {"generate"}, Deployed(c), UNCHANGED selected
       PROVE  ItemAt(c)'
  <2>1. pc'[c] = "next" /\ todo'[c] = Tail(todo[c]) /\ selected'[c] = selected[c] /\ ToSet(Tail(todo[c])) \subseteq ToSet(todo[c])
    BY <1>10, EndOfItem DEF CommandTypes
  <2>2. Working(c)
    BY <1>10, LabelsAre DEF Working
  <2> QED BY <1>0, <2>1, <2>2, LabelsAre DEF ItemAt
<1>11. ASSUME NEW c \in Command, CertificatesDone(c) \/ GeneratedDone(c) \/ LoadImage(c) \/ WaitAvailable(c) PROVE ItemAt(c)'
  <2>1. pc[c] \in HelmPc \cup PkiPc \cup ImagePc \cup {"generate"} /\ Deployed(c) /\ UNCHANGED selected
    BY <1>11, LabelsAre DEF CertificatesDone, GeneratedDone, LoadImage, WaitAvailable
  <2> QED BY <2>1, <1>10
<1>12. ASSUME NEW c \in Command, Exit(c) \/ Crash(c) PROVE ItemAt(c)'
  <2>1. pc'[c] = "idle" /\ todo'[c] = <<>>
    BY <1>12 DEF Exit, Crash, Forget, Goto, CommandTypes
  <2> QED BY <2>1, NothingIn, LabelsAre DEF ItemAt, Working
<1>13. ASSUME NEW c \in Command, UNCHANGED <<pc, todo, selected>> PROVE ItemAt(c)'
  BY <1>0, <1>13 DEF ItemAt, Working
<1>14. ASSUME NEW c \in Command, Step(c) \/ Raise(c) \/ Crash(c) PROVE ItemAt(c)'
  <2>1. CASE Truncate(c) \/ ApplyTlsSecret(c) \/ EnsureGenerated(c)
    BY <2>1, <1>13 DEF Truncate, ApplyTlsSecret, EnsureGenerated
  <2> QED BY <2>1, <1>1, <1>2, <1>4, <1>5, <1>6, <1>7, <1>9, <1>11, <1>12, <1>14 DEF Step
<1>15. ASSUME NEW c \in Command, Step(c) \/ Raise(c) \/ Crash(c) PROVE ItemAtPc'
  <2>1. \A d \in Command \ {c} : ItemAt(d)'
    BY <1>0, <1>15, OthersStay DEF ItemAt, Working
  <2> QED BY <1>14, <1>15, <2>1 DEF ItemAtPc
<1>16. ASSUME NEW r \in Release, HelmEnds(r) PROVE ItemAtPc'
  <2>1. CASE UNCHANGED <<pc, todo>>
    BY <1>13, <1>16, <2>1 DEF HelmEnds, ItemAtPc
  <2>2. ASSUME NEW c \in Running(r), NEW outcome, AfterHelm(c, outcome) PROVE ItemAtPc'
    <3>1. c \in Command /\ pc[c] \in HelmPc /\ UNCHANGED selected
      BY <1>16, LabelsAre DEF HelmEnds, Running, HelmWait
    <3>2. ItemAt(c)'
      <4>1. CASE Deployed(c)
        BY <3>1, <4>1, <1>10
      <4>2. CASE UNCHANGED todo /\ \E label \in HelmPc \cup {"exit"} : Goto(c, label)
        BY <3>1, <4>2, <1>8
      <4> QED BY <2>2, <4>1, <4>2, LabelsAre DEF AfterHelm
    <3>3. \A d \in Command \ {c} : pc'[d] = pc[d] /\ todo'[d] = todo[d] /\ selected'[d] = selected[d]
      BY <2>2, <3>1 DEF AfterHelm, Deployed, Goto, CommandTypes
    <3>4. \A d \in Command \ {c} : ItemAt(d)'
      BY <1>0, <3>3 DEF ItemAt, Working
    <3> QED BY <3>2, <3>4 DEF ItemAtPc
  <2> QED BY <1>16, <2>1, <2>2 DEF HelmEnds
<1>17. ASSUME KindEnds PROVE ItemAtPc'
  <2>1. SUFFICES ASSUME NEW c \in Command PROVE ItemAt(c)'
    BY DEF ItemAtPc
  <2>2. UNCHANGED <<todo, selected>> /\ (pc'[c] = pc[c] \/ (pc[c] = "creating" /\ pc'[c] \in {"nodes", "exit"}))
    BY <1>17 DEF KindEnds
  <2> QED BY <1>0, <2>2, LabelsAre DEF ItemAt, Working
<1>18. ASSUME (\E f \in {"caCrt", "tlsCrt"} : ComesDue(f)) \/ EditSource \/ Tick \/ LeaseExpires PROVE ItemAtPc'
  BY <1>13, <1>18 DEF ItemAtPc, ComesDue, EditSource, Tick, LeaseExpires
<1>19. ASSUME NEW r \in Release, NEW operation \in Operation, StrayBegins(r, operation) PROVE ItemAtPc'
  BY <1>13, <1>19, StrayEffect DEF ItemAtPc
<1> QED BY <1>15, <1>16, <1>17, <1>18, <1>19 DEF Next

LEMMA InitBasis == Init => Basis
<1> SUFFICES ASSUME Init PROVE Basis
  OBVIOUS
<1>1. Locking
  BY DEF Init, Locking, Live, NoRelease
<1>2. ItemAtPc
  BY NothingIn, LabelsAre DEF Init, ItemAtPc, ItemAt, Working
<1> QED BY <1>1, <1>2, InitTypes DEF Basis

LEMMA BasisStep == Basis /\ [Next]_vars => Basis'
<1> SUFFICES ASSUME Basis, [Next]_vars PROVE Basis'
  OBVIOUS
<1>1. CASE Next
  <2>1. \A c \in Command : pc[c] \in HelmPc => todo[c] # <<>> /\ Head(todo[c]) \in Release
    BY DEF Basis, ItemAtPc, ItemAt
  <2>2. HistoryTypes' /\ (mishaps.loose => mishaps'.loose)
    BY <1>1, HistoryTypesStep DEF Basis
  <2>3. Types'
    BY <1>1, <2>1, <2>2, ClusterTypesStep, CommandTypesStep DEF Basis, Types
  <2> QED BY <1>1, <2>2, <2>3, LockingStep, ItemAtPcStep DEF Basis
<1>2. CASE UNCHANGED vars
  BY <1>2 DEF vars, kubernetes, workstation, Basis, Types, ClusterTypes, CommandTypes, HistoryTypes, Locking, Live, ItemAtPc, ItemAt, Working
<1> QED BY <1>1, <1>2

\* In every reachable state the lifecycle's values have their types, no
\* namespace stands without its cluster, and what a command has left to deploy
\* comes from the plan of what it was asked to deploy.
THEOREM Typing == Spec => []TypeOK
<1>1. Basis => TypeOK
  <2> SUFFICES ASSUME Basis PROVE TypeOK
    OBVIOUS
  <2>1. \A r \in Release : release[r].age \in 0..StaleAfter /\ release[r].live \in Nat
    BY DEF Basis, Types, ClusterTypes
  <2>2. \A f \in File : file[f].state \in {"absent", "torn", "whole"} /\ file[f].key \in 0..MaxKeys
    BY StoredKinds DEF Basis, Types, CommandTypes, Key
  <2>3. \A c \in Command : selected[c] \subseteq ToSet(Components)
    BY Plans DEF Basis, Types, CommandTypes
  <2> QED BY <2>1, <2>2, <2>3 DEF Basis, Types, ClusterTypes, HistoryTypes, Locking, ItemAtPc, ItemAt, TypeOK
<1> QED BY <1>1, InitBasis, BasisStep, PTL DEF Spec

\* What has been lost track of stays so.
LEMMA LooseStays ==
    ASSUME Basis, [Next]_vars
    PROVE  mishaps.loose => mishaps'.loose
BY HistoryTypesStep DEF Basis, vars

-----------------------------------------------------------------------------
(* Helm processes.                                                          *)

\* The foundation's chart is not there, or may go away.
Early == {"absent", "pending-install", "uninstalling"}

\* A Helm process is alone on its release, which it keeps pending or being
\* removed; while the foundation's chart is not there or on its way out, no
\* other release has one, or one that was left behind; and what was left
\* behind are upgrades of the releases that are remembered for it.
Processes ==
    /\ \A r \in Release : release[r].live > 0 =>
         /\ release[r].live = 1
         /\ release[r].status \in Pending \cup {"uninstalling"}
         /\ release[r].age <= HelmTimeout
    /\ release[Foundation].status \in Early =>
         \A r \in Release \ {Foundation} : release[r].live = 0 /\ \A operation \in Operation : <<r, operation>> \notin stray
    /\ \A r \in Release : \A operation \in Operation : <<r, operation>> \in stray => operation = "upgrade" /\ r \in mishaps.left

\* The namespaces come first: either nothing has been deployed yet, or they stand.
FoundationAt(c) ==
    Working(c) => IF Foundation \in ToSet(todo[c]) THEN todo[c] = Plan(selected[c]) ELSE release[Foundation].status \notin Early

\* Deployed, or was until a Helm process that was left behind began to upgrade it.
Up(r) == release[r].status = "deployed" \/ (r \in mishaps.left /\ release[r].status \notin Early)

\* The release a command works on.
HelmAt(c) ==
    /\ pc[c] \in {"uninstall", "rollback"} => release[Current(c)].live = 0
    /\ pc[c] = "uninstall" => release[Current(c)].status = "pending-install"
    /\ pc[c] \in {"rollback", "upgrading", "rollingBack"} => release[Current(c)].status \in Pending
    /\ pc[c] = "available" => Up(Current(c))
    /\ pc[c] \in HelmWait => release[Current(c)].live = 1

Helm == Processes /\ \A c \in Command : FoundationAt(c) /\ HelmAt(c)

LEMMA FoundationNext ==
    ASSUME Basis, NEW c \in Command, FoundationAt(c), Working(c)
    PROVE  /\ Foundation \in ToSet(todo[c]) =>
                /\ todo[c] = Plan(selected[c]) /\ todo[c] # <<>> /\ Head(todo[c]) = Foundation
                /\ Foundation \notin ToSet(Tail(todo[c]))
           /\ todo[c] # <<>> /\ Head(todo[c]) = Foundation => Foundation \in ToSet(todo[c])
           /\ Foundation \notin ToSet(todo[c]) => release[Foundation].status \notin Early
<1>1. selected[c] \in Planned /\ todo[c] \in Seq(Item)
  BY DEF Basis, ItemAtPc, ItemAt, Types, CommandTypes
<1>2. ASSUME Foundation \in ToSet(todo[c])
      PROVE  /\ todo[c] = Plan(selected[c]) /\ todo[c] # <<>> /\ Head(todo[c]) = Foundation
             /\ Foundation \notin ToSet(Tail(todo[c]))
  BY <1>1, <1>2, Plans DEF FoundationAt
<1>3. todo[c] # <<>> /\ Head(todo[c]) = Foundation => Foundation \in ToSet(todo[c])
  BY <1>1, HeadAndTail
<1> QED BY <1>2, <1>3 DEF FoundationAt

\* A command's step leaves Helm processes behind only when it cuts the command
\* short, and forgets them with the cluster.
LEMMA LeftStays ==
    ASSUME HistoryTypes, NEW c \in Command, Step(c), ~DeleteCluster(c)
    PROVE  UNCHANGED stray /\ mishaps'.left = mishaps.left
<1>0. \A S : [mishaps EXCEPT !.spared = S].left = mishaps.left
  BY DEF HistoryTypes, History
<1>1. CASE Bootstrap(c) \/ Deploy(c) \/ Destroy(c)
  BY <1>1, Mishaps DEF Bootstrap, Deploy, Destroy, Start, workstation
<1>2. CASE Purge(c) \/ WriteFile(c)
  BY <1>0, <1>2 DEF Purge, WriteFile
<1>3. CASE UNCHANGED <<mishaps, stray>>
  BY <1>3
<1> QED BY <1>1, <1>2, <1>3
     DEF Step, EnsureCluster, WaitNodesReady, NextComponent, EnsureCa, EnsureLeaf, Truncate, ReadPair, ApplyTlsSecret, CertificatesDone,
         EnsureGenerated, GeneratedDone, ContentTag, BuildImage, LoadImage, RecoverInterrupted, LaunchHelm, WaitAvailable, Exit, workstation

LEMMA HelmStepOfCommand ==
    ASSUME Basis, Helm, NEW c \in Command, Step(c) \/ Raise(c) \/ Crash(c), ~mishaps'.loose
    PROVE  Processes' /\ FoundationAt(c)' /\ HelmAt(c)'
<1> USE DEF Basis, Types
<1>a. pc[c] # "delete" => ~DeleteCluster(c)
  BY DEF DeleteCluster
<1>0. Processes /\ FoundationAt(c) /\ HelmAt(c) /\ ItemAt(c)
  BY DEF Helm, ItemAtPc
<1>1. UNCHANGED release /\ Step(c) /\ ~DeleteCluster(c) => Processes'
  BY <1>0, LeftStays DEF Processes
<1>2. CASE Bootstrap(c)
  <2>1. pc'[c] = "cluster" /\ todo'[c] = Plan(ToSet(Components)) /\ selected'[c] = ToSet(Components) /\ UNCHANGED release
    BY <1>2 DEF Bootstrap, Start, Goto, CommandTypes, kubernetes
  <2>2. Foundation \in ToSet(Plan(ToSet(Components)))
    <3>1. Foundation \in Items(ToSet(Components))
      BY FoundationIsRelease DEF Release, ReleasesOf
    <3> QED BY <3>1, Plans DEF Planned
  <2>3. Processes'
    BY <1>1, <1>2, <1>a, <2>1 DEF Step, Bootstrap, Start, Begin, Live
  <2> QED BY <2>1, <2>2, <2>3 DEF FoundationAt, HelmAt, HelmWait
<1>3. CASE Deploy(c)
  <2>1. PICK names \in Selections :
           /\ "foundation" \in names \/ release["platform-foundation"].status = "deployed"
           /\ selected' = [selected EXCEPT ![c] = names]
           /\ todo' = [todo EXCEPT ![c] = Plan(names)]
    BY <1>3 DEF Deploy
  <2>2. pc'[c] = "next" /\ todo'[c] = Plan(names) /\ selected'[c] = names /\ UNCHANGED release
    BY <1>3, <2>1 DEF Deploy, Start, Goto, CommandTypes, kubernetes
  <2>3. "foundation" \in names => Foundation \in ToSet(Plan(names))
    <3>1. "foundation" \in names => Foundation \in Items(names)
      BY Scripts, Zenon DEF Items, Foundation
    <3> QED BY <3>1, Plans DEF Planned
  <2>4. Processes'
    BY <1>1, <1>3, <1>a, <2>2 DEF Step, Deploy, Start, Begin, Live
  <2> QED BY <2>1, <2>2, <2>3, <2>4 DEF FoundationAt, HelmAt, HelmWait, Foundation, Early
<1>4. CASE Destroy(c) \/ Purge(c) \/ Exit(c)
  <2>1. pc'[c] \in {"delete", "purge", "exit", "idle"} /\ UNCHANGED release
    BY <1>4 DEF Destroy, Purge, Exit, Goto, CommandTypes, kubernetes
  <2>2. Processes'
    BY <1>1, <1>4, <1>a, <2>1 DEF Step, Destroy, Begin, Live, Purge, Exit
  <2> QED BY <2>1, <2>2 DEF FoundationAt, Working, HelmAt, HelmWait
<1>14. CASE Raise(c) \/ Crash(c)
  <2>1. pc'[c] \in {"exit", "idle"} /\ UNCHANGED release /\ CutShort(c)
    BY <1>14 DEF Raise, Crash, Goto, CommandTypes, kubernetes
  <2>2. \/ UNCHANGED stray /\ mishaps'.left = mishaps.left
        \/ /\ pc[c] = "upgrade" /\ stray' = stray \cup {<<Current(c), "upgrade">>}
           /\ mishaps'.left = mishaps.left \cup {Current(c)}
    BY <2>1, Mishaps
  <2>3. Processes'
    <3>1. CASE UNCHANGED stray /\ mishaps'.left = mishaps.left
      BY <1>0, <2>1, <3>1 DEF Processes
    <3>2. CASE /\ pc[c] = "upgrade" /\ stray' = stray \cup {<<Current(c), "upgrade">>}
               /\ mishaps'.left = mishaps.left \cup {Current(c)}
      <4>1. Working(c) /\ todo[c] # <<>> /\ Current(c) = Head(todo[c])
        BY <1>0, <3>2, LabelsAre DEF Working, ItemAt, Current
      <4>2. release[Foundation].status \in Early => Current(c) = Foundation
        BY <1>0, <4>1, FoundationNext
      <4>3. \A r \in Release : \A operation \in Operation :
              <<r, operation>> \in stray' => <<r, operation>> \in stray \/ (r = Current(c) /\ operation = "upgrade")
        BY <3>2
      <4> QED BY <1>0, <2>1, <3>2, <4>2, <4>3 DEF Processes
    <3> QED BY <2>2, <3>1, <3>2
  <2> QED BY <2>1, <2>3 DEF FoundationAt, Working, HelmAt, HelmWait
<1>5. CASE DeleteCluster(c)
  <2>1. pc'[c] \in {"purge", "exit"} /\ release' = [r \in Release |-> NoRelease] /\ stray' = {}
    BY <1>5 DEF DeleteCluster, Goto, CommandTypes
  <2>2. Processes'
    BY <2>1 DEF Processes, NoRelease
  <2> QED BY <2>1, <2>2 DEF FoundationAt, Working, HelmAt, HelmWait
<1>6. ASSUME UNCHANGED <<release, todo, selected>>, Working(c), Step(c),
             pc'[c] \notin {"uninstall", "rollback", "available"} \cup HelmWait
      PROVE  Processes' /\ FoundationAt(c)' /\ HelmAt(c)'
  <2>1. Processes'
    BY <1>1, <1>6, <1>a DEF Working
  <2> QED BY <1>0, <1>6, <2>1 DEF FoundationAt, HelmAt, HelmWait
<1>7. CASE EnsureCluster(c) \/ WaitNodesReady(c) \/ NextComponent(c)
  <2>1. UNCHANGED <<release, todo, selected>> /\ Working(c)
    BY <1>7 DEF EnsureCluster, WaitNodesReady, NextComponent, kubernetes, Working
  <2>2. pc'[c] \notin {"uninstall", "rollback", "available"} \cup HelmWait
    BY <1>7 DEF EnsureCluster, WaitNodesReady, NextComponent, Goto, CommandTypes, HelmWait
  <2> QED BY <1>6, <1>7, <2>1, <2>2 DEF Step
<1>8. CASE EnsureCa(c) \/ EnsureLeaf(c) \/ WriteFile(c) \/ ReadPair(c) \/ ContentTag(c) \/ BuildImage(c)
  <2>1. UNCHANGED <<release, todo, selected>> /\ Working(c)
    BY <1>8 DEF EnsureCa, EnsureLeaf, WriteFile, ReadPair, ContentTag, BuildImage, kubernetes, Working, File
  <2>2. pc'[c] \notin {"uninstall", "rollback", "available"} \cup HelmWait
    <3>1. CASE WriteFile(c)
      <4>1. AfterFile[pc[c]] \notin {"uninstall", "rollback", "available"} \cup HelmWait
        BY <3>1 DEF WriteFile, AfterFile, File, HelmWait
      <4> QED BY <3>1, <4>1 DEF WriteFile, Goto, CommandTypes
    <3> QED BY <1>8, <3>1 DEF EnsureCa, EnsureLeaf, ReadPair, ContentTag, BuildImage, Goto, CommandTypes, HelmWait
  <2> QED BY <1>6, <1>8, <2>1, <2>2 DEF Step
<1>9. CASE Truncate(c) \/ ApplyTlsSecret(c) \/ EnsureGenerated(c)
  <2>1. UNCHANGED <<release, todo, selected, pc>>
    BY <1>9 DEF Truncate, ApplyTlsSecret, EnsureGenerated, kubernetes
  <2>2. Processes' /\ mishaps'.left = mishaps.left
    BY <1>1, <1>9, <1>a, <2>1, LeftStays DEF Step, Truncate, ApplyTlsSecret, EnsureGenerated, File
  <2> QED BY <1>0, <2>1, <2>2 DEF FoundationAt, HelmAt, Working, Current, Up
<1>10. CASE CertificatesDone(c) \/ GeneratedDone(c) \/ LoadImage(c) \/ WaitAvailable(c)
  <2>1. UNCHANGED <<release, selected>> /\ Deployed(c) /\ pc[c] \in HelmPc \cup PkiPc \cup ImagePc \cup {"generate"}
    BY <1>10, LabelsAre DEF CertificatesDone, GeneratedDone, LoadImage, WaitAvailable, kubernetes
  <2>2. pc'[c] = "next" /\ todo'[c] = Tail(todo[c]) /\ todo[c] # <<>> /\ ToSet(Tail(todo[c])) \subseteq ToSet(todo[c])
    BY <2>1, EndOfItem DEF CommandTypes
  <2>3. Working(c)
    BY <2>1, LabelsAre DEF Working
  <2>4. Foundation \notin ToSet(Tail(todo[c]))
    BY <1>0, <2>2, <2>3, FoundationNext
  <2>5. release[Foundation].status \notin Early
    <3>1. CASE Head(todo[c]) = Foundation
      <4>1. pc[c] = "available"
        BY <1>0, <1>10, <3>1, LabelsAre DEF CertificatesDone, GeneratedDone, LoadImage, WaitAvailable, ItemAt, Foundation
      <4> QED BY <1>0, <3>1, <4>1 DEF HelmAt, Current, Up, Early
    <3>2. CASE Head(todo[c]) # Foundation
      BY <1>0, <2>3, <3>2, FoundationNext
    <3> QED BY <3>1, <3>2
  <2>6. Processes'
    BY <1>1, <1>10, <1>a, <2>1, LabelsAre DEF Step
  <2> QED BY <2>1, <2>2, <2>4, <2>5, <2>6 DEF FoundationAt, HelmAt, HelmWait
<1>11. CASE RecoverInterrupted(c)
  <2>1. pc[c] = "recover" /\ UNCHANGED <<release, todo, selected>>
    BY <1>11 DEF RecoverInterrupted, kubernetes
  <2>2. Current(c) \in Release /\ Current(c)' = Current(c)
    BY <1>0, <2>1, LabelsAre DEF ItemAt, Current
  <2> DEFINE r == release[Current(c)]
  <2>3. r.age \in Nat /\ r.live \in Nat
    BY <2>2 DEF ClusterTypes
  <2>4. pc'[c] \in {"exit", "upgrade", "uninstall", "rollback"}
        /\ (pc'[c] \in {"uninstall", "rollback"} => ~(r.age < StaleAfter) /\ r.status \in Pending)
        /\ (pc'[c] = "uninstall" => r.status = "pending-install")
    BY <1>11 DEF RecoverInterrupted, PendingReleaseAction, Goto, CommandTypes
  <2>5. ~(r.age < StaleAfter) => r.live = 0
    BY <1>0, <2>2, <2>3, TimeoutAssumption DEF Processes
  <2>6. HelmAt(c)'
    BY <2>1, <2>2, <2>4, <2>5 DEF HelmAt, HelmWait
  <2>7. FoundationAt(c)'
    BY <1>0, <2>1 DEF FoundationAt, Working
  <2>8. Processes'
    BY <1>1, <1>11, <1>a, <2>1 DEF Step
  <2> QED BY <2>6, <2>7, <2>8
<1>12. CASE LaunchHelm(c)
  <2> DEFINE r == Current(c)
  <2>1. pc[c] \in {"uninstall", "rollback", "upgrade"} /\ UNCHANGED <<todo, selected, stray, mishaps>>
    BY <1>12, LaunchEffect DEF Operation
  <2>2. r \in Release /\ Current(c)' = r /\ todo[c] # <<>> /\ Head(todo[c]) = r
    BY <1>0, <2>1, LabelsAre DEF ItemAt, Current
  <2>3. CASE UNCHANGED release /\ Goto(c, IF pc[c] = "uninstall" THEN "upgrade" ELSE "exit")
    <3>1. pc'[c] \in {"upgrade", "exit"}
      BY <2>3 DEF Goto, CommandTypes
    <3>2. Processes'
      BY <1>0, <2>1, <2>3 DEF Processes
    <3>3. FoundationAt(c)'
      BY <1>0, <2>1, <2>3 DEF FoundationAt, Working
    <3> QED BY <3>1, <3>2, <3>3 DEF HelmAt, HelmWait
  <2>12. CASE /\ MayBegin(Current(c), pc[c]) /\ release' = [release EXCEPT ![Current(c)] = Begun(release[Current(c)], pc[c])]
              /\ Goto(c, Waiting[pc[c]])
    <3>3. /\ pc'[c] \in {"uninstalling", "rollingBack", "upgrading"}
          /\ pc'[c] = "uninstalling" <=> pc[c] = "uninstall"
          /\ Accepts(release[r], pc[c])
      BY <2>1, <2>12 DEF Waiting, Goto, CommandTypes, MayBegin
    <3>4. release[r].live = 0
      <4>1. CASE pc[c] = "upgrade"
        BY <1>0, <2>2, <3>3, <4>1 DEF Accepts, Processes, ClusterTypes
      <4> QED BY <1>0, <2>1, <4>1 DEF HelmAt
    <3>5. /\ release'[r].live = 1 /\ release'[r].age = 0
          /\ release'[r].status \in Pending \cup {"uninstalling"}
          /\ pc[c] # "uninstall" => release'[r].status \in Pending
          /\ release'[r].status = "uninstalling" => pc[c] = "uninstall"
          /\ release'[r].status = "pending-install" => release[r].status = "absent"
      BY <2>1, <2>2, <2>12, <3>3, <3>4 DEF Begun, Accepts, Pending, ClusterTypes
    <3>6. \A q \in Release \ {r} : release'[q] = release[q]
      BY <2>2, <2>12 DEF ClusterTypes
    <3>7. Working(c)
      BY <2>1 DEF Working
    <3>8. release'[Foundation].status \in Early => release[Foundation].status \in Early /\ r = Foundation
      <4>1. CASE r = Foundation
        <5>1. release'[r].status = "uninstalling" => release[r].status = "pending-install"
          BY <1>0, <2>2, <3>5 DEF HelmAt
        <5>2. release[Foundation].status \notin Early => release'[Foundation].status \notin Early
          BY <3>5, <4>1, <5>1 DEF Early, Pending
        <5> QED BY <4>1, <5>2
      <4>2. CASE r # Foundation
        <5>1. release[Foundation].status \notin Early
          BY <1>0, <2>2, <3>7, <4>2, FoundationNext
        <5> QED BY <3>6, <4>2, <5>1, FoundationIsRelease
      <4> QED BY <4>1, <4>2
    <3>9. Processes'
      <4>1. \A q \in Release : release'[q].live > 0 =>
              /\ release'[q].live = 1
              /\ release'[q].status \in Pending \cup {"uninstalling"}
              /\ release'[q].age <= HelmTimeout
        BY <1>0, <3>5, <3>6, TimeoutAssumption DEF Processes
      <4>2. release'[Foundation].status \in Early =>
              \A q \in Release \ {Foundation} : release'[q].live = 0 /\ \A operation \in Operation : <<q, operation>> \notin stray'
        BY <1>0, <2>1, <3>6, <3>8 DEF Processes
      <4> QED BY <1>0, <2>1, <4>1, <4>2 DEF Processes
    <3>10. HelmAt(c)'
      BY <2>2, <3>3, <3>5 DEF HelmAt, HelmWait
    <3>11. FoundationAt(c)'
      <4>1. CASE Foundation \in ToSet(todo[c])
        BY <1>0, <2>1, <3>7, <4>1 DEF FoundationAt
      <4>2. CASE Foundation \notin ToSet(todo[c])
        <5>1. release[Foundation].status \notin Early /\ r # Foundation
          BY <1>0, <2>2, <3>7, <4>2, FoundationNext
        <5>2. release'[Foundation].status \notin Early
          BY <3>6, <5>1, FoundationIsRelease
        <5> QED BY <2>1, <4>2, <5>2 DEF FoundationAt
      <4> QED BY <4>1, <4>2
    <3> QED BY <3>9, <3>10, <3>11
  <2> QED BY <1>12, <2>3, <2>12, LaunchEffect
<1> QED BY <1>2, <1>3, <1>4, <1>5, <1>7, <1>8, <1>9, <1>10, <1>11, <1>12, <1>14 DEF Step

\* What the end of a Helm process leaves of the releases.
LEMMA AfterProcess ==
    ASSUME Basis, Processes, NEW r \in Release, NEW outcome \in HelmOutcome, release[r].live > 0, ChartEffect(r, outcome)
    PROVE  /\ release[r].live = 1 /\ release'[r].live = 0
           /\ release[r].status \in Pending \cup {"uninstalling"}
           /\ outcome = "done" /\ release[r].status \in Pending => release'[r].status = "deployed"
           /\ release'[r].status \in {"pending-install", "uninstalling"} => release'[r].status = release[r].status
           /\ release'[r].status = "absent" => release[r].status = "uninstalling"
           /\ release[r].status \notin Early => release'[r].status \notin Early
           /\ r # Foundation \/ release[r].status # "uninstalling" => \A q \in Release \ {r} : release'[q] = release[q]
           /\ \A q \in Release \ {r} : release'[q].live = release[q].live
           /\ \A q \in Release \ {r} : release'[q] = release[q] \/ release[q].live = 0
           /\ r # Foundation \/ release[r].status # "uninstalling" => UNCHANGED <<lock, tls, generated>>
<1> USE DEF Basis, Types
<1>1. release[r].live = 1 /\ release[r].status \in Pending \cup {"uninstalling"}
  BY DEF Processes
<1>2. release[r] \in [status : Status, age : 0..StaleAfter, live : Nat]
  BY DEF ClusterTypes
<1>3. release'[r] = Ended(release[r], outcome)
  BY DEF ChartEffect, ClusterTypes
<1>4. /\ Ended(release[r], outcome).live = 0
      /\ outcome = "done" /\ release[r].status \in Pending => Ended(release[r], outcome).status = "deployed"
      /\ Ended(release[r], outcome).status \in {"pending-install", "uninstalling"} => Ended(release[r], outcome).status = release[r].status
      /\ Ended(release[r], outcome).status = "absent" => release[r].status = "uninstalling"
  <2>1. CASE release[r].status = "uninstalling"
    <3>1. CASE outcome = "done"
      BY <1>1, <2>1, <3>1 DEF Ended, NoRelease, Pending
    <3>2. CASE outcome # "done"
      BY <1>1, <1>2, <2>1, <3>2 DEF Ended, Pending
    <3> QED BY <3>1, <3>2
  <2>2. CASE release[r].status \in Pending
    BY <1>1, <1>2, <2>2 DEF Ended, Pending
  <2> QED BY <1>1, <2>1, <2>2
<1>5. ASSUME r # Foundation \/ release[r].status # "uninstalling"
      PROVE  (\A q \in Release \ {r} : release'[q] = release[q]) /\ UNCHANGED <<lock, tls, generated>>
  BY <1>5 DEF ChartEffect, ClusterTypes, Foundation
<1>7. Ended(release[r], outcome).status \in Early => release[r].status \in Early
  BY <1>1, <1>4 DEF Early, Pending
<1>6. \A q \in Release \ {r} : release'[q].live = release[q].live /\ (release'[q] = release[q] \/ release[q].live = 0)
  <2>1. CASE r # Foundation \/ release[r].status # "uninstalling"
    BY <1>5, <2>1
  <2>3. CASE r = Foundation /\ release[r].status = "uninstalling"
    <3>1. \A q \in Release \ {r} : release[q].live = 0
      BY <2>3 DEF Processes, Early
    <3>2. \A q \in Release \ {r} : release'[q] = release[q] \/ release'[q] = [NoRelease EXCEPT !.live = release[q].live]
      BY DEF ChartEffect, ClusterTypes
    <3> QED BY <3>1, <3>2 DEF NoRelease
  <2> QED BY <2>1, <2>3
<1> QED BY <1>1, <1>3, <1>4, <1>5, <1>6, <1>7

\* It forgets only what it has deployed, if none of it is still to begin.
LEMMA LeftAtEnd ==
    ASSUME HistoryTypes, NEW r \in Release, NEW outcome,
           IF outcome = "done" THEN mishaps' = [mishaps EXCEPT !.left = {q \in @ : q # r \/ <<q, "upgrade">> \in stray}] ELSE Mishap
    PROVE  \A q \in mishaps.left : q \in mishaps'.left \/ (outcome = "done" /\ q = r /\ <<q, "upgrade">> \notin stray)
<1>1. PICK S : S = {q \in mishaps.left : q # r \/ <<q, "upgrade">> \in stray}
  OBVIOUS
<1>2. [mishaps EXCEPT !.left = S].left = S
  BY DEF HistoryTypes, History
<1>3. CASE outcome = "done"
  BY <1>1, <1>2, <1>3
<1>4. CASE outcome # "done"
  BY <1>4, Mishaps
<1> QED BY <1>3, <1>4

\* What the end of a Helm process does to the command that waits for it.
LEMMA AfterWait ==
    ASSUME Basis, Helm, ~mishaps.loose, NEW r \in Release, HelmEnds(r), NEW d \in Command
    PROVE  \E outcome \in HelmOutcome :
             /\ ChartEffect(r, outcome)
             /\ \A q \in mishaps.left : q \in mishaps'.left \/ (outcome = "done" /\ q = r /\ <<q, "upgrade">> \notin stray)
             /\ \/ /\ pc'[d] = pc[d] /\ todo'[d] = todo[d]
                   /\ ~(pc[d] \in HelmWait /\ Current(d) = r)
                \/ /\ pc[d] \in HelmWait /\ Current(d) = r
                   /\ todo'[d] = todo[d] /\ pc'[d] \in {"exit", "upgrade"}
                \/ /\ pc[d] = "upgrading" /\ Current(d) = r /\ outcome = "done"
                   /\ todo'[d] = todo[d] /\ pc'[d] = "available"
                \/ /\ pc[d] = "upgrading" /\ Current(d) = r /\ outcome = "done" /\ Deployed(d)
<1> USE DEF Basis, Types
<1>0. release[r].live = 1
  BY DEF Helm, Processes, HelmEnds
<1>1. PICK outcome \in HelmOutcome :
        /\ ChartEffect(r, outcome)
        /\ \A q \in mishaps.left : q \in mishaps'.left \/ (outcome = "done" /\ q = r /\ <<q, "upgrade">> \notin stray)
        /\ \/ \E c \in Running(r) : AfterHelm(c, outcome)
           \/ Running(r) = {} /\ UNCHANGED <<pc, todo>>
  <2>1. PICK outcome \in HelmOutcome :
          /\ ChartEffect(r, outcome)
          /\ IF outcome = "done" THEN mishaps' = [mishaps EXCEPT !.left = {q \in @ : q # r \/ <<q, "upgrade">> \in stray}] ELSE Mishap
          /\ \/ \E c \in Running(r) : AfterHelm(c, outcome)
             \/ (Running(r) = {} \/ release[r].live > 1) /\ UNCHANGED <<pc, todo>>
    BY DEF HelmEnds
  <2>2. \A q \in mishaps.left : q \in mishaps'.left \/ (outcome = "done" /\ q = r /\ <<q, "upgrade">> \notin stray)
    BY <2>1, LeftAtEnd
  <2>3. (\E c \in Running(r) : AfterHelm(c, outcome)) \/ (Running(r) = {} /\ UNCHANGED <<pc, todo>>)
    BY <1>0, <2>1
  <2> QED BY <2>1, <2>2, <2>3
<1>2. CASE Running(r) = {} /\ UNCHANGED <<pc, todo>>
  BY <1>1, <1>2 DEF Running
<1>3. ASSUME NEW c \in Running(r), AfterHelm(c, outcome)
      PROVE  \/ /\ pc'[d] = pc[d] /\ todo'[d] = todo[d]
                /\ ~(pc[d] \in HelmWait /\ Current(d) = r)
             \/ /\ pc[d] \in HelmWait /\ Current(d) = r
                /\ todo'[d] = todo[d] /\ pc'[d] \in {"exit", "upgrade"}
             \/ /\ pc[d] = "upgrading" /\ Current(d) = r /\ outcome = "done"
                /\ todo'[d] = todo[d] /\ pc'[d] = "available"
             \/ /\ pc[d] = "upgrading" /\ Current(d) = r /\ outcome = "done" /\ Deployed(d)
  <2>1. c \in Command /\ pc[c] \in HelmWait /\ Current(c) = r
    BY DEF Running
  <2>2. CASE d = c
    BY <1>3, <2>1, <2>2 DEF AfterHelm, Goto, CommandTypes
  <2>3. CASE d # c
    <3>1. pc'[d] = pc[d] /\ todo'[d] = todo[d]
      BY <1>3, <2>1, <2>3 DEF AfterHelm, Deployed, Goto, CommandTypes
    <3>2. pc[d] = "idle"
      BY <2>1, <2>3 DEF Locking, Live, HelmWait
    <3> QED BY <3>1, <3>2 DEF HelmWait
  <2> QED BY <2>2, <2>3
<1> QED BY <1>1, <1>2, <1>3

\* A release that is up stays so at the end of a Helm process, but for those
\* that go with the foundation.
LEMMA UpStays ==
    ASSUME Basis, Processes, NEW r \in Release, NEW outcome \in HelmOutcome, release[r].live > 0, ChartEffect(r, outcome),
           \A q \in mishaps.left : q \in mishaps'.left \/ (outcome = "done" /\ q = r /\ <<q, "upgrade">> \notin stray),
           NEW q \in Release, Up(q), q = r \/ r # Foundation \/ release[r].status \notin Early
    PROVE  Up(q)'
<1>1. CASE q = r
  <2>1. release[r].status \in Pending \cup {"uninstalling"} /\ (release[r].status \notin Early => release'[r].status \notin Early)
        /\ (outcome = "done" /\ release[r].status \in Pending => release'[r].status = "deployed")
    BY AfterProcess
  <2>2. r \in mishaps.left /\ release[r].status \notin Early
    BY <1>1, <2>1 DEF Up, Pending
  <2>3. release[r].status \in Pending
    BY <2>1, <2>2 DEF Early
  <2> QED BY <1>1, <2>1, <2>2, <2>3 DEF Up
<1>2. CASE q # r
  <2>1. release'[q] = release[q]
    BY <1>2, AfterProcess DEF Early
  <2> QED BY <1>2, <2>1 DEF Up
<1> QED BY <1>1, <1>2

LEMMA HelmEndsHelm ==
    ASSUME Basis, Helm, ~mishaps.loose, NEW r \in Release, HelmEnds(r)
    PROVE  Helm'
<1> USE DEF Basis, Types
<1>0. release[r].live > 0 /\ Processes /\ UNCHANGED <<selected, stray>>
  BY DEF HelmEnds, Helm, workstation
<1>1. Processes'
  <2>1. PICK outcome \in HelmOutcome :
          /\ ChartEffect(r, outcome)
          /\ \A q \in mishaps.left : q \in mishaps'.left \/ (outcome = "done" /\ q = r /\ <<q, "upgrade">> \notin stray)
    BY LeftAtEnd DEF HelmEnds
  <2>2. release'[r].live = 0 /\ \A q \in Release \ {r} : /\ release'[q].live = release[q].live
                                                         /\ release'[q] = release[q] \/ release[q].live = 0
    BY <1>0, <2>1, AfterProcess
  <2>3. \A q \in Release : release'[q].live > 0 =>
          /\ release'[q].live = 1
          /\ release'[q].status \in Pending \cup {"uninstalling"}
          /\ release'[q].age <= HelmTimeout
    BY <1>0, <2>2 DEF Processes
  <2>4. release'[Foundation].status \in Early => release[Foundation].status \in Early
    <3>1. CASE r = Foundation
      BY <1>0, <2>1, <3>1, AfterProcess
    <3>2. CASE r # Foundation
      BY <1>0, <2>1, <3>2, AfterProcess, FoundationIsRelease
    <3> QED BY <3>1, <3>2
  <2>5. release'[Foundation].status \in Early =>
          \A q \in Release \ {Foundation} : release'[q].live = 0 /\ \A operation \in Operation : <<q, operation>> \notin stray'
    BY <1>0, <2>2, <2>4 DEF Processes
  <2>6. \A q \in Release : \A operation \in Operation : <<q, operation>> \in stray' => operation = "upgrade" /\ q \in mishaps'.left
    BY <1>0, <2>1 DEF Processes
  <2> QED BY <2>3, <2>5, <2>6 DEF Processes
<1>2. ASSUME NEW d \in Command PROVE FoundationAt(d)' /\ HelmAt(d)'
  <2>0. FoundationAt(d) /\ HelmAt(d) /\ ItemAt(d)
    BY DEF Helm, ItemAtPc
  <2>1. PICK outcome \in HelmOutcome :
             /\ ChartEffect(r, outcome)
             /\ \A q \in mishaps.left : q \in mishaps'.left \/ (outcome = "done" /\ q = r /\ <<q, "upgrade">> \notin stray)
             /\ \/ /\ pc'[d] = pc[d] /\ todo'[d] = todo[d]
                   /\ ~(pc[d] \in HelmWait /\ Current(d) = r)
                \/ /\ pc[d] \in HelmWait /\ Current(d) = r
                   /\ todo'[d] = todo[d] /\ pc'[d] \in {"exit", "upgrade"}
                \/ /\ pc[d] = "upgrading" /\ Current(d) = r /\ outcome = "done"
                   /\ todo'[d] = todo[d] /\ pc'[d] = "available"
                \/ /\ pc[d] = "upgrading" /\ Current(d) = r /\ outcome = "done" /\ Deployed(d)
    BY AfterWait
  <2>2. release[Foundation].status \notin Early => release'[Foundation].status \notin Early
    <3>1. CASE r = Foundation
      BY <1>0, <2>1, <3>1, AfterProcess
    <3>2. CASE r # Foundation
      BY <1>0, <2>1, <3>2, AfterProcess, FoundationIsRelease
    <3> QED BY <3>1, <3>2
  <2>3. Working(d)' => Working(d)
    BY <2>1 DEF Working, HelmWait
  <2>4. pc[d] = "upgrading" /\ Current(d) = r /\ outcome = "done" => release'[r].status = "deployed"
    BY <1>0, <2>0, <2>1, AfterProcess DEF HelmAt
  <2>5. FoundationAt(d)'
    <3>1. CASE todo'[d] = todo[d]
      BY <1>0, <2>0, <2>2, <2>3, <3>1 DEF FoundationAt
    <3>2. CASE pc[d] = "upgrading" /\ Current(d) = r /\ outcome = "done" /\ Deployed(d)
      <4>1. todo'[d] = Tail(todo[d]) /\ ToSet(todo[d]) = {Head(todo[d])} \cup ToSet(Tail(todo[d])) /\ Working(d)
        BY <3>2, EndOfItem, LabelsAre DEF CommandTypes, Working
      <4>2. Foundation \notin ToSet(Tail(todo[d]))
        BY <2>0, <4>1, FoundationNext
      <4>3. release'[Foundation].status \notin Early
        <5>1. CASE r = Foundation
          BY <2>4, <3>2, <5>1 DEF Early
        <5>2. CASE r # Foundation
          <6>1. release[Foundation].status \notin Early
            BY <2>0, <3>2, <4>1, <5>2, FoundationNext DEF Current
          <6> QED BY <2>2, <6>1
        <5> QED BY <5>1, <5>2
      <4> QED BY <4>1, <4>2, <4>3 DEF FoundationAt
    <3> QED BY <2>1, <3>1, <3>2
  <2>6. HelmAt(d)'
    <3>1. CASE pc'[d] = pc[d] /\ todo'[d] = todo[d] /\ ~(pc[d] \in HelmWait /\ Current(d) = r)
      <4>1. CASE pc[d] \notin {"uninstall", "rollback", "available"} \cup HelmWait
        BY <3>1, <4>1 DEF HelmAt, HelmWait
      <4>2. CASE pc[d] \in {"uninstall", "rollback", "available"} \cup HelmWait
        <5>1. Current(d) \in Release /\ Current(d)' = Current(d) /\ todo[d] # <<>> /\ Working(d)
          BY <2>0, <3>1, <4>2, LabelsAre DEF ItemAt, Current, HelmWait, Working
        <5>2. r = Foundation /\ Current(d) # r => release[r].status \notin Early
          BY <2>0, <5>1, FoundationNext DEF Current
        <5>3. CASE pc[d] = "available"
          <6>1. Up(Current(d))'
            BY <1>0, <2>0, <2>1, <5>1, <5>2, <5>3, UpStays DEF HelmAt, Current, Up
          <6> QED BY <3>1, <5>3, <6>1 DEF HelmAt, HelmWait
        <5>4. CASE pc[d] # "available"
          <6>1. Current(d) # r
            BY <1>0, <2>0, <3>1, <4>2, <5>4 DEF HelmAt
          <6>2. release'[Current(d)] = release[Current(d)]
            BY <1>0, <2>1, <5>1, <5>2, <6>1, AfterProcess DEF Early
          <6> QED BY <2>0, <3>1, <5>1, <5>4, <6>2 DEF HelmAt
        <5> QED BY <5>3, <5>4
      <4> QED BY <4>1, <4>2
    <3>2. CASE pc'[d] \in {"exit", "upgrade"}
      BY <3>2 DEF HelmAt, HelmWait
    <3>3. CASE pc[d] = "upgrading" /\ Current(d) = r /\ outcome = "done" /\ todo'[d] = todo[d] /\ pc'[d] = "available"
      BY <2>4, <3>3 DEF HelmAt, HelmWait, Current, Up
    <3>4. CASE pc[d] = "upgrading" /\ Deployed(d)
      <4>1. pc'[d] = "next"
        BY <3>4, EndOfItem, LabelsAre DEF CommandTypes
      <4> QED BY <4>1 DEF HelmAt, HelmWait
    <3> QED BY <2>1, <3>1, <3>2, <3>3, <3>4
  <2> QED BY <2>5, <2>6
<1> QED BY <1>1, <1>2 DEF Helm

LEMMA TickHelm ==
    ASSUME Basis, Helm, Tick
    PROVE  Helm'
<1> USE DEF Basis, Types
<1>1. \A q \in Release : /\ release'[q].status = release[q].status /\ release'[q].live = release[q].live
                         /\ release[q].live > 0 => release'[q].age <= HelmTimeout
  <2>1. SUFFICES ASSUME NEW q \in Release
                 PROVE  /\ release'[q].status = release[q].status /\ release'[q].live = release[q].live
                        /\ release[q].live > 0 => release'[q].age <= HelmTimeout
    OBVIOUS
  <2>2. release[q] \in [status : Status, age : 0..StaleAfter, live : Nat]
    BY DEF ClusterTypes
  <2>3. release'[q] = [release[q] EXCEPT !.age = release[q].age + 1] \/ release'[q] = release[q]
    BY DEF Tick
  <2>4. release[q].live > 0 => release[q].age < HelmTimeout
    BY DEF Tick
  <2>5. CASE release'[q] = [release[q] EXCEPT !.age = release[q].age + 1]
    BY <2>2, <2>4, <2>5, TimeoutAssumption
  <2>6. CASE release'[q] = release[q]
    BY <2>2, <2>4, <2>6, TimeoutAssumption
  <2> QED BY <2>3, <2>5, <2>6
<1>2. UNCHANGED <<pc, todo, selected, stray, mishaps>>
  BY DEF Tick, workstation
<1>3. Processes'
  BY <1>1, <1>2, FoundationIsRelease DEF Helm, Processes
<1>4. ASSUME NEW c \in Command PROVE FoundationAt(c)' /\ HelmAt(c)'
  <2>1. FoundationAt(c) /\ HelmAt(c) /\ ItemAt(c)
    BY DEF Helm, ItemAtPc
  <2>2. FoundationAt(c)'
    BY <1>1, <1>2, <2>1, FoundationIsRelease DEF FoundationAt, Working
  <2>3. pc[c] \in HelmPc => Current(c) \in Release /\ Current(c)' = Current(c)
    BY <1>2, <2>1 DEF ItemAt, Current
  <2>4. HelmAt(c)'
    BY <1>1, <1>2, <2>1, <2>3, LabelsAre DEF HelmAt, HelmWait, Up
  <2> QED BY <2>2, <2>4
<1> QED BY <1>3, <1>4 DEF Helm

\* A Helm process that was left behind upgrades a release that nobody works on.
LEMMA StrayHelm ==
    ASSUME Basis, Helm, NEW r \in Release, NEW operation \in Operation, StrayBegins(r, operation)
    PROVE  Helm' /\ \A q \in Release : Up(q) => Up(q)'
<1> USE DEF Basis, Types
<1>0. /\ <<r, operation>> \in stray /\ stray' \subseteq stray
      /\ UNCHANGED <<pc, todo, selected, mishaps>>
      /\ \/ UNCHANGED release
         \/ MayBegin(r, operation) /\ release' = [release EXCEPT ![r] = Begun(release[r], operation)]
  BY StrayEffect
<1>1. operation = "upgrade" /\ r \in mishaps.left /\ Processes
  BY <1>0 DEF Helm, Processes
<1>2. CASE UNCHANGED release
  <2>1. Processes'
    BY <1>0, <1>1, <1>2 DEF Processes
  <2>2. \A c \in Command : FoundationAt(c)' /\ HelmAt(c)'
    BY <1>0, <1>2 DEF Helm, FoundationAt, HelmAt, HelmWait, Working, Current, Up
  <2> QED BY <1>0, <1>2, <2>1, <2>2 DEF Helm, Up
<1>3. CASE MayBegin(r, operation) /\ release' = [release EXCEPT ![r] = Begun(release[r], operation)]
  <2>1. release[r].status \notin Pending \cup {"uninstalling"}
    BY <1>1, <1>3 DEF MayBegin, Accepts
  <2>2. release[r].live = 0
    BY <1>1, <2>1 DEF Processes, ClusterTypes
  <2>3. /\ release'[r].live = 1 /\ release'[r].age = 0 /\ release'[r].status \in Pending
        /\ release[r].status \notin Early => release'[r].status = "pending-upgrade"
    BY <1>1, <1>3, <2>2 DEF Begun, Pending, ClusterTypes, Early
  <2>4. \A q \in Release \ {r} : release'[q] = release[q]
    BY <1>3 DEF ClusterTypes
  <2>5. \A q \in Release : release[q].status \notin Early => release'[q].status \notin Early
    BY <2>3, <2>4 DEF Early
  <2>6. Processes'
    <3>1. \A q \in Release : release'[q].live > 0 =>
            /\ release'[q].live = 1
            /\ release'[q].status \in Pending \cup {"uninstalling"}
            /\ release'[q].age <= HelmTimeout
      BY <1>1, <2>3, <2>4, TimeoutAssumption DEF Processes
    <3>2. release[Foundation].status \in Early => r = Foundation
      BY <1>0, <1>1 DEF Processes
    <3>3. release'[Foundation].status \in Early =>
            \A q \in Release \ {Foundation} : release'[q].live = 0 /\ \A o \in Operation : <<q, o>> \notin stray'
      BY <1>0, <1>1, <2>4, <2>5, <3>2, FoundationIsRelease DEF Processes
    <3> QED BY <1>0, <1>1, <3>1, <3>3 DEF Processes
  <2>7. \A q \in Release : Up(q) => Up(q)'
    BY <1>0, <1>1, <2>4, <2>3, <2>5 DEF Up, Early
  <2>8. ASSUME NEW c \in Command PROVE FoundationAt(c)' /\ HelmAt(c)'
    <3>1. FoundationAt(c) /\ HelmAt(c) /\ ItemAt(c)
      BY DEF Helm, ItemAtPc
    <3>2. FoundationAt(c)'
      BY <1>0, <2>5, <3>1, FoundationIsRelease DEF FoundationAt, Working
    <3>3. pc[c] \in HelmPc => Current(c) \in Release /\ Current(c)' = Current(c)
      BY <1>0, <3>1 DEF ItemAt, Current
    <3>4. CASE pc[c] \in {"uninstall", "rollback"} \cup HelmWait
      <4>1. release[Current(c)].status \in Pending \cup {"uninstalling"}
        BY <1>1, <3>1, <3>3, <3>4, LabelsAre DEF HelmAt, Processes, HelmWait, Pending
      <4>2. release'[Current(c)] = release[Current(c)]
        BY <2>1, <2>4, <3>3, <3>4, <4>1, LabelsAre DEF HelmWait
      <4> QED BY <1>0, <3>1, <3>2, <3>3, <3>4, <4>2, LabelsAre DEF HelmAt, HelmWait
    <3>5. CASE pc[c] = "available"
      <4>1. Up(Current(c))'
        BY <2>7, <3>1, <3>3, <3>5, LabelsAre DEF HelmAt, Up
      <4> QED BY <1>0, <3>2, <3>5, <4>1 DEF HelmAt, HelmWait
    <3> QED BY <1>0, <3>2, <3>4, <3>5 DEF HelmAt, HelmWait
  <2> QED BY <2>6, <2>7, <2>8 DEF Helm
<1> QED BY <1>0, <1>2, <1>3

LEMMA InitHelm == Init => Helm
<1> SUFFICES ASSUME Init PROVE Helm
  OBVIOUS
<1>1. Processes
  BY DEF Init, Processes, NoRelease
<1>2. ASSUME NEW c \in Command PROVE FoundationAt(c) /\ HelmAt(c)
  BY DEF Init, FoundationAt, Working, HelmAt, HelmWait
<1> QED BY <1>1, <1>2 DEF Helm

LEMMA HelmStep ==
    ASSUME Basis, Helm, [Next]_vars, mishaps.loose => mishaps'.loose, ~mishaps'.loose
    PROVE  Helm'
<1>1. ASSUME NEW c \in Command, Step(c) \/ Raise(c) \/ Crash(c) PROVE Helm'
  <2>1. Processes' /\ FoundationAt(c)' /\ HelmAt(c)'
    BY <1>1, HelmStepOfCommand
  <2>2. \A d \in Command \ {c} : FoundationAt(d)' /\ HelmAt(d)'
    BY <1>1, OthersIdle DEF Basis, FoundationAt, Working, HelmAt, HelmWait
  <2> QED BY <2>1, <2>2 DEF Helm
<1>2. ASSUME UNCHANGED <<release, todo, selected, stray>>, mishaps'.left = mishaps.left,
             \A c \in Command : pc'[c] = pc[c] \/ (pc[c] = "creating" /\ pc'[c] \in {"nodes", "exit"})
      PROVE  Helm'
  <2>1. Processes'
    BY <1>2 DEF Helm, Processes
  <2>2. \A c \in Command : FoundationAt(c)' /\ HelmAt(c)'
    BY <1>2 DEF Helm, FoundationAt, HelmAt, HelmWait, Working, Current, Up
  <2> QED BY <2>1, <2>2 DEF Helm
<1>3. mishaps.left \in SUBSET Release /\ HistoryTypes /\ mishaps \in History
  BY DEF Basis, Types, HistoryTypes, History
<1>4. CASE KindEnds
  <2>1. UNCHANGED <<release, todo, selected, stray>> /\ (Mishap \/ UNCHANGED mishaps)
    BY <1>4 DEF KindEnds, workstation
  <2>2. \A c \in Command : pc'[c] = pc[c] \/ (pc[c] = "creating" /\ pc'[c] \in {"nodes", "exit"})
    BY <1>4 DEF KindEnds
  <2> QED BY <1>2, <1>3, <2>1, <2>2, Mishaps
<1>5. CASE (\E f \in {"caCrt", "tlsCrt"} : ComesDue(f)) \/ LeaseExpires \/ UNCHANGED vars
  <2>1. UNCHANGED <<release, todo, selected, stray, pc>> /\ (Mishap \/ UNCHANGED mishaps)
    BY <1>5 DEF ComesDue, LeaseExpires, vars, kubernetes, workstation
  <2> QED BY <1>2, <1>3, <2>1, Mishaps
<1>6. CASE EditSource
  <2>1. PICK S : S = mishaps.crossed \cup {memory[c].tag : c \in {d \in Command : pc[d] = "build"}}
    OBVIOUS
  <2>2. mishaps' = [[mishaps EXCEPT !.crossed = S] EXCEPT !.count = mishaps.count + 1] /\ UNCHANGED <<release, todo, selected, stray, pc>>
    BY <1>6, <2>1 DEF EditSource, Worse, kubernetes
  <2>3. mishaps'.left = mishaps.left
    BY <1>3, <2>2 DEF History
  <2> QED BY <1>2, <2>2, <2>3
<1>7. ~mishaps.loose
  OBVIOUS
<1> QED BY <1>1, <1>4, <1>5, <1>6, <1>7, HelmEndsHelm, TickHelm, StrayHelm DEF Next

-----------------------------------------------------------------------------
(* Certificates.                                                            *)

CaMatches == Matches(file["caCrt"], file["caKey"])
LeafMatches == Matches(file["tlsCrt"], file["tlsKey"])
\* A certificate that the next run will replace.
CaBroken == file["caCrt"] = Absent \/ file["caCrt"].key \in due
LeafBroken ==
    \/ file["tlsCrt"] = Absent \/ file["tlsCrt"].key \in due
    \/ file["caCrt"].state = "whole" => file["tlsCrt"].issuer # file["caCrt"].key

\* A certificate that a purge left without its key.
CaSpared == "caCrt" \in mishaps.spared
LeafSpared == "tlsCrt" \in mishaps.spared

\* A certificate that would be used again has its key beside it, though key
\* and certificate are written one after the other and truncated first, unless
\* a purge was cut short between them.
PkiFiles ==
    /\ CaBroken \/ CaSpared \/ file["caCrt"] = Torn \/ CaMatches
    /\ LeafBroken \/ LeafSpared \/ file["tlsCrt"] = Torn \/ LeafMatches

PkiAt(c) ==
    /\ pc[c] = "caKey" => CaBroken \/ CaSpared
    /\ pc[c] = "caCrt" => (CaBroken \/ CaSpared \/ file["caCrt"] = Torn) /\ file["caKey"] = Content("whole", memory[c].ca, 0)
    /\ pc[c] \in {"caKey", "caCrt"} => memory[c].cert = memory[c].ca /\ memory[c].ca # file["tlsCrt"].issuer
    /\ pc[c] \in {"leaf", "tlsKey", "tlsCrt", "read", "apply"} =>
         /\ CaMatches \/ CaSpared
         /\ file["caCrt"].state = "whole" /\ memory[c].ca = file["caKey"].key /\ memory[c].cert = file["caCrt"].key
    /\ pc[c] = "tlsKey" => LeafBroken \/ LeafSpared
    /\ pc[c] = "tlsCrt" => (LeafBroken \/ LeafSpared \/ file["tlsCrt"] = Torn) /\ file["tlsKey"] = Content("whole", memory[c].key, 0)
    /\ pc[c] \in {"read", "apply"} => (LeafMatches \/ LeafSpared) /\ (CaSpared \/ file["tlsCrt"].issuer = file["caCrt"].key)
    /\ pc[c] = "apply" => memory[c].pair = [crt |-> file["tlsCrt"], key |-> file["tlsKey"]]

Pki == PkiFiles /\ \A c \in Command : PkiAt(c)

\* What of the history a command's step leaves alone.
LEMMA HistoryKept ==
    ASSUME HistoryTypes, NEW c \in Command, Step(c) \/ Raise(c) \/ Crash(c)
    PROVE  mishaps'.crossed = mishaps.crossed /\ (Purge(c) \/ WriteFile(c) \/ mishaps'.spared = mishaps.spared)
<1>0. /\ \A S : [mishaps EXCEPT !.spared = S].crossed = mishaps.crossed
      /\ \A S : [mishaps EXCEPT !.left = S].crossed = mishaps.crossed /\ [mishaps EXCEPT !.left = S].spared = mishaps.spared
  BY DEF HistoryTypes, History
<1>1. CASE Bootstrap(c) \/ Deploy(c) \/ Destroy(c)
  BY <1>1, Mishaps DEF Bootstrap, Deploy, Destroy, Start
<1>2. CASE Purge(c) \/ WriteFile(c)
  BY <1>0, <1>2 DEF Purge, WriteFile
<1>3. CASE DeleteCluster(c)
  BY <1>0, <1>3 DEF DeleteCluster
<1>4. CASE Raise(c) \/ Crash(c)
  BY <1>4, Mishaps DEF Raise, Crash
<1>5. CASE UNCHANGED mishaps
  BY <1>5
<1> QED BY <1>1, <1>2, <1>3, <1>4, <1>5
     DEF Step, EnsureCluster, WaitNodesReady, NextComponent, EnsureCa, EnsureLeaf, Truncate, ReadPair, ApplyTlsSecret, CertificatesDone,
         EnsureGenerated, GeneratedDone, ContentTag, BuildImage, LoadImage, RecoverInterrupted, LaunchHelm, WaitAvailable, Exit

\* And every other step.
LEMMA HistoryKeptElse ==
    ASSUME Types
    PROVE  /\ \A r \in Release : HelmEnds(r) => mishaps'.spared = mishaps.spared /\ mishaps'.crossed = mishaps.crossed
           /\ \/ \E f \in {"caCrt", "tlsCrt"} : ComesDue(f)
              \/ \E r \in Release : \E operation \in Operation : StrayBegins(r, operation)
              \/ KindEnds \/ Tick \/ LeaseExpires \/ UNCHANGED vars
              => mishaps'.spared = mishaps.spared /\ mishaps'.crossed = mishaps.crossed /\ mishaps'.left = mishaps.left
           /\ EditSource => /\ mishaps'.spared = mishaps.spared /\ mishaps'.left = mishaps.left
                            /\ mishaps.crossed \subseteq mishaps'.crossed
                            /\ \A c \in Command : pc[c] = "build" => memory[c].tag \in mishaps'.crossed
<1> USE DEF Types
<1>1. ASSUME NEW r \in Release, HelmEnds(r) PROVE mishaps'.spared = mishaps.spared /\ mishaps'.crossed = mishaps.crossed
  <2>1. PICK S : S = {q \in mishaps.left : q # r \/ <<q, "upgrade">> \in stray}
    OBVIOUS
  <2>2. [mishaps EXCEPT !.left = S].spared = mishaps.spared /\ [mishaps EXCEPT !.left = S].crossed = mishaps.crossed
    BY DEF HistoryTypes, History
  <2>3. Mishap \/ mishaps' = [mishaps EXCEPT !.left = S]
    BY <1>1, <2>1 DEF HelmEnds
  <2> QED BY <2>2, <2>3, Mishaps
<1>2. ASSUME \/ \E f \in {"caCrt", "tlsCrt"} : ComesDue(f)
             \/ \E r \in Release : \E operation \in Operation : StrayBegins(r, operation)
             \/ KindEnds \/ Tick \/ LeaseExpires \/ UNCHANGED vars
      PROVE  mishaps'.spared = mishaps.spared /\ mishaps'.crossed = mishaps.crossed /\ mishaps'.left = mishaps.left
  <2>1. Mishap \/ UNCHANGED mishaps
    BY <1>2 DEF ComesDue, StrayBegins, KindEnds, Tick, LeaseExpires, vars
  <2> QED BY <2>1, Mishaps
<1>3. ASSUME EditSource
      PROVE  /\ mishaps'.spared = mishaps.spared /\ mishaps'.left = mishaps.left
             /\ mishaps.crossed \subseteq mishaps'.crossed
             /\ \A c \in Command : pc[c] = "build" => memory[c].tag \in mishaps'.crossed
  <2>1. PICK S : S = mishaps.crossed \cup {memory[c].tag : c \in {d \in Command : pc[d] = "build"}}
    OBVIOUS
  <2>2. mishaps' = [[mishaps EXCEPT !.crossed = S] EXCEPT !.count = mishaps.count + 1]
    BY <1>3, <2>1 DEF EditSource, Worse
  <2>3. mishaps'.spared = mishaps.spared /\ mishaps'.left = mishaps.left /\ mishaps'.crossed = S
    BY <2>2 DEF HistoryTypes, History
  <2> QED BY <2>1, <2>3
<1> QED BY <1>1, <1>2, <1>3

LEMMA EnsureCaPki ==
    ASSUME Basis, Pki, NEW c \in Command, EnsureCa(c)
    PROVE  PkiFiles' /\ PkiAt(c)'
<1> USE DEF Basis, Types
<1>0. pc[c] = "pki" /\ UNCHANGED <<file, due, mishaps>> /\ PkiFiles /\ file["caCrt"] # Torn
  BY DEF EnsureCa, workstation, Pki
<1>1. PkiFiles' /\ (CaSpared => CaSpared')
  BY <1>0 DEF PkiFiles, CaBroken, LeafBroken, CaMatches, LeafMatches, Matches, CaSpared, LeafSpared
<1>2. CASE /\ Decide(file["caCrt"], file["caKey"], TRUE) = "reuse"
           /\ memory' = [memory EXCEPT ![c].ca = file["caKey"].key, ![c].cert = file["caCrt"].key] /\ Goto(c, "leaf")
  <2>1. pc'[c] = "leaf" /\ memory'[c].ca = file["caKey"].key /\ memory'[c].cert = file["caCrt"].key
    BY <1>2 DEF Goto, CommandTypes, Memory
  <2>2. ~CaBroken
    BY <1>2 DEF Decide, CaBroken
  <2>3. CaMatches' \/ CaSpared'
    BY <1>0, <1>1, <2>2 DEF PkiFiles, CaMatches, Matches
  <2>4. file["caCrt"].state = "whole"
    BY <1>0, <2>2, StoredKinds DEF CaBroken, CommandTypes, File
  <2> QED BY <1>0, <1>1, <2>1, <2>3, <2>4 DEF PkiAt
<1>3. CASE /\ Decide(file["caCrt"], file["caKey"], TRUE) # "reuse" /\ FreeKey # {}
           /\ memory' = [memory EXCEPT ![c].ca = NewKey, ![c].cert = NewKey] /\ Goto(c, "caKey")
  <2>1. pc'[c] = "caKey" /\ memory'[c].ca = NewKey /\ memory'[c].cert = NewKey
    BY <1>3 DEF Goto, CommandTypes, Memory
  <2>2. CaBroken \/ CaSpared
    BY <1>0, <1>3, StoredKinds DEF Decide, PkiFiles, CaBroken, CaMatches, Matches
  <2>3. CaBroken' \/ CaSpared'
    BY <1>0, <1>1, <2>2 DEF CaBroken
  <2>4. file["tlsCrt"].issuer \in InUse
    BY DEF InUse, File
  <2>5. NewKey # file["tlsCrt"].issuer
    BY <1>3, <2>4, KeyIsNew
  <2> QED BY <1>0, <1>1, <2>1, <2>3, <2>5 DEF PkiAt
<1> QED BY <1>2, <1>3 DEF EnsureCa

LEMMA EnsureLeafPki ==
    ASSUME Basis, Pki, NEW c \in Command, EnsureLeaf(c)
    PROVE  PkiFiles' /\ PkiAt(c)'
<1> USE DEF Basis, Types
<1>0. pc[c] = "leaf" /\ UNCHANGED <<file, due, mishaps>> /\ PkiFiles /\ PkiAt(c) /\ file["tlsCrt"] # Torn
  BY DEF EnsureLeaf, workstation, Pki
<1>1. PkiFiles' /\ (CaSpared <=> CaSpared') /\ (LeafSpared <=> LeafSpared')
  BY <1>0 DEF PkiFiles, CaBroken, LeafBroken, CaMatches, LeafMatches, Matches, CaSpared, LeafSpared
<1>2. (CaMatches' \/ CaSpared') /\ file["caCrt"].state = "whole" /\ memory[c].ca = file["caKey"].key /\ memory[c].cert = file["caCrt"].key
  BY <1>0, <1>1 DEF PkiAt, CaMatches, Matches
<1>3. CASE /\ Decide(file["tlsCrt"], file["tlsKey"], file["tlsCrt"].issuer = memory[c].cert) = "reuse"
           /\ Goto(c, "read") /\ UNCHANGED memory
  <2>1. pc'[c] = "read"
    BY <1>3 DEF Goto, CommandTypes
  <2>2. ~LeafBroken /\ file["tlsCrt"].issuer = file["caCrt"].key
    BY <1>2, <1>3 DEF Decide, LeafBroken
  <2>3. LeafMatches' \/ LeafSpared'
    BY <1>0, <1>1, <2>2 DEF PkiFiles, LeafMatches, Matches
  <2> QED BY <1>0, <1>1, <1>2, <1>3, <2>1, <2>2, <2>3 DEF PkiAt
<1>4. CASE /\ Decide(file["tlsCrt"], file["tlsKey"], file["tlsCrt"].issuer = memory[c].cert) # "reuse" /\ FreeKey # {}
           /\ memory' = [memory EXCEPT ![c].key = NewKey] /\ Goto(c, "tlsKey")
  <2>1. pc'[c] = "tlsKey" /\ memory'[c].ca = memory[c].ca /\ memory'[c].cert = memory[c].cert
    BY <1>4 DEF Goto, CommandTypes, Memory
  <2>2. LeafBroken \/ LeafSpared
    BY <1>0, <1>2, <1>4, StoredKinds DEF Decide, PkiFiles, LeafBroken, LeafMatches, Matches
  <2>3. LeafBroken' \/ LeafSpared'
    BY <1>0, <1>1, <2>2 DEF LeafBroken
  <2> QED BY <1>0, <1>1, <1>2, <2>1, <2>3 DEF PkiAt
<1> QED BY <1>3, <1>4 DEF EnsureLeaf

LEMMA TruncatePki ==
    ASSUME Basis, Pki, NEW c \in Command, Truncate(c)
    PROVE  PkiFiles' /\ PkiAt(c)'
<1> USE DEF Basis, Types
<1>0. /\ pc[c] \in {"caKey", "caCrt", "tlsKey", "tlsCrt"} /\ UNCHANGED <<due, pc, memory, mishaps>> /\ PkiFiles /\ PkiAt(c)
      /\ file' = [file EXCEPT ![pc[c]] = Torn] /\ file \in [{"caKey", "caCrt", "tlsKey", "tlsCrt"} -> Stored]
  BY DEF Truncate, Pki, File, CommandTypes
<1>1. CASE pc[c] = "caKey"
  <2>1. file'["caCrt"] = file["caCrt"] /\ file'["tlsCrt"] = file["tlsCrt"] /\ file'["tlsKey"] = file["tlsKey"]
    BY <1>0, <1>1
  <2> QED BY <1>0, <1>1, <2>1 DEF PkiFiles, PkiAt, CaBroken, LeafBroken, LeafMatches, Matches, CaSpared, LeafSpared
<1>2. CASE pc[c] = "caCrt"
  <2>1. file'["caCrt"] = Torn /\ file'["caKey"] = file["caKey"] /\ file'["tlsCrt"] = file["tlsCrt"] /\ file'["tlsKey"] = file["tlsKey"]
    BY <1>0, <1>2
  <2> QED BY <1>0, <1>2, <2>1, StoredKinds DEF PkiFiles, PkiAt, CaBroken, LeafBroken, CaSpared, LeafSpared
<1>3. CASE pc[c] = "tlsKey"
  <2>1. file'["caCrt"] = file["caCrt"] /\ file'["caKey"] = file["caKey"] /\ file'["tlsCrt"] = file["tlsCrt"]
    BY <1>0, <1>3
  <2> QED BY <1>0, <1>3, <2>1 DEF PkiFiles, PkiAt, CaBroken, CaMatches, LeafBroken, Matches, CaSpared, LeafSpared
<1>4. CASE pc[c] = "tlsCrt"
  <2>1. file'["caCrt"] = file["caCrt"] /\ file'["caKey"] = file["caKey"] /\ file'["tlsCrt"] = Torn /\ file'["tlsKey"] = file["tlsKey"]
    BY <1>0, <1>4
  <2> QED BY <1>0, <1>4, <2>1 DEF PkiFiles, PkiAt, CaBroken, CaMatches, Matches, CaSpared, LeafSpared
<1> QED BY <1>0, <1>1, <1>2, <1>3, <1>4

LEMMA WriteFilePki ==
    ASSUME Basis, Pki, NEW c \in Command, WriteFile(c)
    PROVE  PkiFiles' /\ PkiAt(c)'
<1> USE DEF Basis, Types
<1>0. /\ pc[c] \in {"caKey", "caCrt", "tlsKey", "tlsCrt"} /\ UNCHANGED memory /\ PkiFiles /\ PkiAt(c)
      /\ file' = [file EXCEPT ![pc[c]] = Written(c)[pc[c]]] /\ file \in [{"caKey", "caCrt", "tlsKey", "tlsCrt"} -> Stored]
      /\ pc'[c] = AfterFile[pc[c]]
  BY DEF WriteFile, Pki, File, CommandTypes, Goto
<1>1. \A f \in {"caKey", "caCrt", "tlsKey", "tlsCrt"} : file'[f].key \in due' <=> file'[f].key \in due
  BY DEF WriteFile, File
<1>6. /\ pc[c] # "caCrt" => (CaSpared' <=> CaSpared)
      /\ pc[c] # "tlsCrt" => (LeafSpared' <=> LeafSpared)
  <2>1. [mishaps EXCEPT !.spared = mishaps.spared \ {pc[c]}].spared = mishaps.spared \ {pc[c]}
    BY DEF HistoryTypes, History
  <2>2. mishaps'.spared = mishaps.spared \ {pc[c]}
    BY <2>1 DEF WriteFile
  <2> QED BY <2>2 DEF CaSpared, LeafSpared
<1>2. CASE pc[c] = "caKey"
  <2>1. /\ file'["caKey"] = Content("whole", memory[c].ca, 0) /\ pc'[c] = "caCrt"
        /\ file'["caCrt"] = file["caCrt"] /\ file'["tlsCrt"] = file["tlsCrt"] /\ file'["tlsKey"] = file["tlsKey"]
    BY <1>0, <1>2 DEF Written, AfterFile
  <2>2. (CaBroken => CaBroken') /\ (LeafBroken => LeafBroken') /\ (LeafMatches => LeafMatches')
    BY <1>1, <2>1 DEF CaBroken, LeafBroken, LeafMatches, Matches
  <2> QED BY <1>0, <1>2, <1>6, <2>1, <2>2 DEF PkiFiles, PkiAt
<1>3. CASE pc[c] = "caCrt"
  <2>1. /\ file'["caCrt"] = Content("whole", memory[c].ca, memory[c].ca) /\ pc'[c] = "leaf"
        /\ file'["caKey"] = file["caKey"] /\ file'["tlsCrt"] = file["tlsCrt"] /\ file'["tlsKey"] = file["tlsKey"]
    BY <1>0, <1>3 DEF Written, AfterFile
  <2>2. CaMatches' /\ LeafBroken'
    BY <1>0, <1>3, <2>1 DEF PkiAt, CaMatches, LeafBroken, Matches, Content
  <2>3. file'["caCrt"].state = "whole"
    BY <2>1 DEF Content
  <2> QED BY <1>0, <1>3, <2>1, <2>2, <2>3 DEF PkiFiles, PkiAt, Content
<1>4. CASE pc[c] = "tlsKey"
  <2>1. /\ file'["tlsKey"] = Content("whole", memory[c].key, 0) /\ pc'[c] = "tlsCrt"
        /\ file'["caCrt"] = file["caCrt"] /\ file'["tlsCrt"] = file["tlsCrt"] /\ file'["caKey"] = file["caKey"]
    BY <1>0, <1>4 DEF Written, AfterFile
  <2>2. (LeafBroken => LeafBroken') /\ (CaMatches => CaMatches')
    BY <1>1, <2>1 DEF LeafBroken, CaMatches, Matches
  <2> QED BY <1>0, <1>4, <1>6, <2>1, <2>2 DEF PkiFiles, PkiAt
<1>5. CASE pc[c] = "tlsCrt"
  <2>1. /\ file'["tlsCrt"] = Content("whole", memory[c].key, memory[c].ca) /\ pc'[c] = "read"
        /\ file'["caCrt"] = file["caCrt"] /\ file'["caKey"] = file["caKey"] /\ file'["tlsKey"] = file["tlsKey"]
    BY <1>0, <1>5 DEF Written, AfterFile
  <2>2. LeafMatches' /\ (CaMatches => CaMatches')
    BY <1>0, <1>5, <2>1 DEF PkiAt, LeafMatches, CaMatches, Matches, Content
  <2>3. CaSpared' \/ file'["tlsCrt"].issuer = file'["caCrt"].key
    BY <1>0, <1>5, <1>6, <2>1 DEF PkiAt, CaMatches, Matches, Content
  <2>4. CaBroken => CaBroken'
    BY <1>1, <2>1 DEF CaBroken
  <2> QED BY <1>0, <1>5, <1>6, <2>4, <2>1, <2>2, <2>3 DEF PkiFiles, PkiAt
<1> QED BY <1>0, <1>2, <1>3, <1>4, <1>5

LEMMA PurgePki ==
    ASSUME Basis, Pki, NEW c \in Command, Purge(c)
    PROVE  PkiFiles' /\ PkiAt(c)'
<1> USE DEF Basis, Types
<1>0. pc[c] = "purge" /\ PkiFiles
  BY DEF Purge, Pki
<1>1. PkiAt(c)'
  <2>1. pc'[c] \in {"purge", "exit"}
    BY <1>0 DEF Purge, Goto, CommandTypes
  <2> QED BY <2>1 DEF PkiAt
<1>2. CASE UNCHANGED <<file, due, mishaps>>
  BY <1>0, <1>1, <1>2 DEF PkiFiles, CaBroken, LeafBroken, CaMatches, LeafMatches, Matches, CaSpared, LeafSpared
<1>3. ASSUME NEW f \in File, file' = [file EXCEPT ![f] = Absent], due' = due \cap {file'[g].key : g \in File},
             mishaps' = [mishaps EXCEPT !.spared =
               {g \in DOMAIN KeyFile : file'[g] # Absent /\ (g \in @ \/ file'[KeyFile[g]] = Absent)}]
      PROVE  PkiFiles'
  <2>1. PICK S : S = {g \in DOMAIN KeyFile : file'[g] # Absent /\ (g \in mishaps.spared \/ file'[KeyFile[g]] = Absent)}
    OBVIOUS
  <2>2. mishaps'.spared = S
    <3>1. [mishaps EXCEPT !.spared = S].spared = S
      BY DEF HistoryTypes, History
    <3> QED BY <1>3, <2>1, <3>1
  <2>3. /\ CaSpared' <=> file'["caCrt"] # Absent /\ (CaSpared \/ file'["caKey"] = Absent)
        /\ LeafSpared' <=> file'["tlsCrt"] # Absent /\ (LeafSpared \/ file'["tlsKey"] = Absent)
    BY <2>1, <2>2 DEF CaSpared, LeafSpared, KeyFile
  <2>4. \A g \in {"caKey", "caCrt", "tlsKey", "tlsCrt"} : /\ file'[g].key \in due' <=> file'[g].key \in due
                                                          /\ file'[g] = Absent \/ file'[g] = file[g]
    BY <1>3 DEF File, CommandTypes
  <2>5. f \in {"caKey", "caCrt", "tlsKey", "tlsCrt"} /\ file'[f] = Absent /\ \A g \in {"caKey", "caCrt", "tlsKey", "tlsCrt"} \ {f} : file'[g] = file[g]
    BY <1>3 DEF File, CommandTypes
  <2>6. CaBroken' \/ CaSpared' \/ file'["caCrt"] = Torn \/ CaMatches'
    <3>1. CASE file'["caCrt"] = Absent
      BY <3>1 DEF CaBroken
    <3>2. CASE file'["caCrt"] # Absent /\ file'["caKey"] = Absent
      BY <2>3, <3>2
    <3>3. CASE file'["caCrt"] # Absent /\ file'["caKey"] # Absent
      <4>1. file'["caCrt"] = file["caCrt"] /\ file'["caKey"] = file["caKey"]
        BY <2>4, <3>3
      <4> QED BY <1>0, <2>3, <2>4, <3>3, <4>1 DEF PkiFiles, CaBroken, CaMatches, Matches
    <3> QED BY <3>1, <3>2, <3>3
  <2>7. LeafBroken' \/ LeafSpared' \/ file'["tlsCrt"] = Torn \/ LeafMatches'
    <3>1. CASE file'["tlsCrt"] = Absent
      BY <3>1 DEF LeafBroken
    <3>2. CASE file'["tlsCrt"] # Absent /\ file'["tlsKey"] = Absent
      BY <2>3, <3>2
    <3>3. CASE file'["tlsCrt"] # Absent /\ file'["tlsKey"] # Absent
      <4>1. file'["tlsCrt"] = file["tlsCrt"] /\ file'["tlsKey"] = file["tlsKey"]
        BY <2>4, <3>3
      <4>2. file'["caCrt"].state = "whole" => file'["caCrt"] = file["caCrt"]
        BY <2>4, StoredKinds
      <4> QED BY <1>0, <2>3, <2>4, <3>3, <4>1, <4>2 DEF PkiFiles, LeafBroken, LeafMatches, Matches
    <3> QED BY <3>1, <3>2, <3>3
  <2> QED BY <2>6, <2>7 DEF PkiFiles
<1> QED BY <1>1, <1>2, <1>3 DEF Purge

LEMMA PkiStep ==
    ASSUME Basis, Pki, [Next]_vars, mishaps.loose => mishaps'.loose, ~mishaps'.loose
    PROVE  Pki'
<1> USE DEF Basis, Types
<1>0. PkiFiles /\ \A c \in Command : PkiAt(c)
  BY DEF Pki
<1>1. UNCHANGED <<file, due>> /\ mishaps'.spared = mishaps.spared => PkiFiles'
  BY <1>0 DEF PkiFiles, CaBroken, LeafBroken, CaMatches, LeafMatches, Matches, CaSpared, LeafSpared
<1>2. ASSUME NEW c \in Command, UNCHANGED <<file, due>>, mishaps'.spared = mishaps.spared, pc'[c] = pc[c], memory'[c] = memory[c]
      PROVE  PkiAt(c)'
  BY <1>0, <1>2 DEF PkiAt, CaBroken, LeafBroken, CaMatches, LeafMatches, Matches, CaSpared, LeafSpared
<1>3. ASSUME NEW c, pc'[c] \notin PkiPc \/ pc'[c] = "pki" PROVE PkiAt(c)'
  BY <1>3, LabelsAre DEF PkiAt
<1>4. ASSUME NEW c \in Command, Step(c) \/ Raise(c) \/ Crash(c) PROVE PkiFiles' /\ PkiAt(c)'
  <2>0. Purge(c) \/ WriteFile(c) \/ mishaps'.spared = mishaps.spared
    BY <1>4, HistoryKept
  <2>8. pc[c] \notin File \cup {"purge"} => mishaps'.spared = mishaps.spared
    BY <2>0 DEF Purge, WriteFile
  <2>1. CASE Bootstrap(c) \/ Deploy(c) \/ Destroy(c) \/ EnsureCluster(c) \/ WaitNodesReady(c) \/ DeleteCluster(c) \/ Raise(c) \/ Crash(c) \/ Exit(c)
    <3>1. UNCHANGED <<file, due>>
      BY <2>1 DEF Bootstrap, Deploy, Destroy, Start, EnsureCluster, WaitNodesReady, DeleteCluster, Raise, Crash, Exit, workstation
    <3>2. pc'[c] \notin PkiPc
      BY <2>1, LabelsAre DEF Bootstrap, Deploy, Destroy, EnsureCluster, WaitNodesReady, DeleteCluster, Raise, Crash, Exit, Goto, CommandTypes
    <3>3. PkiFiles'
      <4>1. CASE mishaps'.spared = mishaps.spared
        BY <1>1, <3>1, <4>1
      <4>2. CASE Purge(c)
        BY <4>2, PurgePki
      <4>3. CASE WriteFile(c)
        BY <4>3, WriteFilePki
      <4> QED BY <2>0, <4>1, <4>2, <4>3
    <3> QED BY <1>3, <3>2, <3>3
  <2>2. CASE NextComponent(c) \/ RecoverInterrupted(c) \/ ContentTag(c)
    <3>1. UNCHANGED <<file, due>> /\ pc[c] \notin File \cup {"purge"}
      BY <2>2 DEF NextComponent, RecoverInterrupted, ContentTag, workstation, File
    <3>2. pc'[c] \notin PkiPc \/ pc'[c] = "pki"
      BY <2>2, LabelsAre DEF NextComponent, RecoverInterrupted, PendingReleaseAction, ContentTag, Goto, CommandTypes
    <3> QED BY <1>1, <1>3, <2>8, <3>1, <3>2
  <2>9. CASE LaunchHelm(c)
    <3>1. UNCHANGED <<file, due>> /\ pc[c] \in Operation
      BY <2>9, LaunchEffect
    <3>2. pc'[c] \in {"exit", "upgrade", "uninstalling", "rollingBack", "upgrading"}
      BY <2>9, LaunchLabel
    <3>3. pc[c] \notin File \cup {"purge"}
      BY <3>1 DEF Operation, File
    <3> QED BY <1>1, <1>3, <2>8, <3>1, <3>2, <3>3, LabelsAre
  <2>3. CASE CertificatesDone(c) \/ GeneratedDone(c) \/ LoadImage(c) \/ WaitAvailable(c)
    <3>1. UNCHANGED <<file, due>> /\ pc'[c] = "next" /\ pc[c] \notin File \cup {"purge"}
      BY <2>3 DEF CertificatesDone, GeneratedDone, LoadImage, WaitAvailable, Deployed, Goto, CommandTypes, workstation, File
    <3> QED BY <1>1, <1>3, <2>8, <3>1, LabelsAre
  <2>4. CASE BuildImage(c)
    <3>1. UNCHANGED <<file, due>> /\ pc'[c] = "load" /\ pc[c] \notin File \cup {"purge"}
      BY <2>4 DEF BuildImage, Goto, CommandTypes, File
    <3> QED BY <1>1, <1>3, <2>8, <3>1, LabelsAre
  <2>5. CASE ApplyTlsSecret(c) \/ EnsureGenerated(c)
    BY <1>1, <1>2, <2>5 DEF ApplyTlsSecret, EnsureGenerated, workstation
  <2>7. CASE ReadPair(c)
    <3>1. pc[c] = "read" /\ UNCHANGED <<file, due, mishaps>> /\ pc'[c] = "apply"
      BY <2>7 DEF ReadPair, Goto, CommandTypes, workstation
    <3>2. /\ memory'[c].pair = [crt |-> file["tlsCrt"], key |-> file["tlsKey"]]
          /\ memory'[c].ca = memory[c].ca /\ memory'[c].cert = memory[c].cert
      BY <2>7 DEF ReadPair, CommandTypes, Memory
    <3> QED BY <1>0, <1>1, <3>1, <3>2 DEF PkiAt, CaMatches, LeafMatches, Matches, CaSpared, LeafSpared
  <2> QED BY <1>4, <2>1, <2>2, <2>3, <2>4, <2>5, <2>7, <2>9, PurgePki, EnsureCaPki, EnsureLeafPki, TruncatePki, WriteFilePki DEF Step
<1>5. ASSUME NEW c \in Command, Step(c) \/ Raise(c) \/ Crash(c) PROVE Pki'
  <2>1. \A d \in Command \ {c} : PkiAt(d)'
    BY <1>3, <1>5, OthersIdle, LabelsAre
  <2> QED BY <1>4, <1>5, <2>1 DEF Pki
<1>6. ASSUME NEW r \in Release, HelmEnds(r) PROVE Pki'
  <2>1. UNCHANGED <<file, due, memory>>
    BY <1>6 DEF HelmEnds, workstation
  <2>3. mishaps'.spared = mishaps.spared
    BY <1>6, HistoryKeptElse
  <2>2. \A d \in Command : pc'[d] = pc[d] \/ pc'[d] \notin PkiPc
    <3>1. CASE UNCHANGED pc
      BY <3>1
    <3>2. ASSUME NEW c \in Running(r), NEW outcome, AfterHelm(c, outcome) PROVE \A d \in Command : pc'[d] = pc[d] \/ pc'[d] \notin PkiPc
      BY <3>2, LabelsAre DEF Running, AfterHelm, Deployed, Goto, CommandTypes
    <3> QED BY <1>6, <3>1, <3>2 DEF HelmEnds
  <2> QED BY <1>1, <1>2, <1>3, <2>1, <2>2, <2>3 DEF Pki
<1>7. ASSUME KindEnds PROVE Pki'
  <2>1. UNCHANGED <<file, due, memory>> /\ \A d \in Command : pc'[d] = pc[d] \/ pc'[d] \notin PkiPc
    BY <1>7, LabelsAre DEF KindEnds, workstation
  <2>2. mishaps'.spared = mishaps.spared
    BY <1>7, HistoryKeptElse
  <2> QED BY <1>1, <1>2, <1>3, <2>1, <2>2 DEF Pki
<1>8. ASSUME UNCHANGED <<file, due, pc, memory>>, mishaps'.spared = mishaps.spared PROVE Pki'
  BY <1>1, <1>2, <1>8 DEF Pki
<1>9. ASSUME NEW f \in {"caCrt", "tlsCrt"}, ComesDue(f) PROVE Pki'
  <2>1. due \subseteq due' /\ UNCHANGED <<file, pc, memory>>
    BY <1>9 DEF ComesDue
  <2>2. mishaps'.spared = mishaps.spared
    BY <1>9, HistoryKeptElse
  <2>3. /\ (CaBroken => CaBroken') /\ (LeafBroken => LeafBroken') /\ (CaMatches <=> CaMatches') /\ (LeafMatches <=> LeafMatches')
        /\ (CaSpared <=> CaSpared') /\ (LeafSpared <=> LeafSpared')
    BY <2>1, <2>2 DEF CaBroken, LeafBroken, CaMatches, LeafMatches, Matches, CaSpared, LeafSpared
  <2>4. PkiFiles'
    BY <1>0, <2>1, <2>3 DEF PkiFiles
  <2>5. \A c \in Command : PkiAt(c)'
    BY <1>0, <2>1, <2>3 DEF PkiAt
  <2> QED BY <2>4, <2>5 DEF Pki
<1>10. CASE EditSource \/ Tick \/ LeaseExpires \/ UNCHANGED vars
  <2>1. UNCHANGED <<file, due, pc, memory>>
    BY <1>10 DEF EditSource, Tick, LeaseExpires, vars, workstation
  <2> QED BY <1>8, <1>10, <2>1, HistoryKeptElse
<1>11. ASSUME NEW r \in Release, NEW operation \in Operation, StrayBegins(r, operation) PROVE Pki'
  <2>1. UNCHANGED <<file, due, pc, memory, mishaps>>
    BY <1>11, StrayEffect
  <2> QED BY <1>8, <2>1
<1> QED BY <1>5, <1>6, <1>7, <1>9, <1>10, <1>11 DEF Next

-----------------------------------------------------------------------------
(* Images.                                                                  *)

ImageAt(c) ==
    /\ pc[c] = "build" => memory[c].tag \in Tag /\ (memory[c].tag = source \/ memory[c].tag \in mishaps.crossed)
    /\ pc[c] = "load" => memory[c].tag \in Tag /\ (built[memory[c].tag] = memory[c].tag \/ memory[c].tag \in mishaps.crossed)
\* An image is built from the source that its tag was computed of, unless that
\* was edited in between.
Images ==
    /\ \A t \in Tag : built[t] \in {0, t} \/ t \in mishaps.crossed
    /\ \A c \in Command : ImageAt(c)

LEMMA ImagesStep ==
    ASSUME Basis, Images, [Next]_vars, mishaps.loose => mishaps'.loose, ~mishaps'.loose
    PROVE  Images'
<1> USE DEF Basis, Types
<1>1. ASSUME UNCHANGED <<source, built>>, mishaps'.crossed = mishaps.crossed,
             \A c \in Command : pc'[c] \notin {"build", "load"} \/ (pc'[c] = pc[c] /\ memory'[c].tag = memory[c].tag)
      PROVE  Images'
  BY <1>1 DEF Images, ImageAt
<1>2. ASSUME NEW c \in Command, Step(c) \/ Raise(c) \/ Crash(c) PROVE Images'
  <2>0. mishaps'.crossed = mishaps.crossed /\ \A d \in Command \ {c} : pc'[d] = "idle" /\ pc[d] = "idle"
    BY <1>2, OthersIdle, HistoryKept
  <2>1. CASE BuildImage(c)
    <3>1. /\ memory[c].tag \in Tag /\ (memory[c].tag = source \/ memory[c].tag \in mishaps.crossed)
          /\ UNCHANGED <<memory, source>> /\ pc'[c] = "load"
          /\ built' = IF built[memory[c].tag] = 0 THEN [built EXCEPT ![memory[c].tag] = source] ELSE built
      BY <2>1 DEF BuildImage, Images, ImageAt, CommandTypes, Goto
    <3>2. /\ \A t \in Tag : t # memory[c].tag => built'[t] = built[t]
          /\ built'[memory[c].tag] = source \/ (built[memory[c].tag] # 0 /\ built'[memory[c].tag] = built[memory[c].tag])
      BY <3>1 DEF CommandTypes
    <3>3. built'[memory[c].tag] = memory[c].tag \/ memory[c].tag \in mishaps.crossed
      BY <3>1, <3>2 DEF Images
    <3>4. \A t \in Tag : built'[t] \in {0, t} \/ t \in mishaps.crossed
      BY <3>2, <3>3 DEF Images
    <3>5. ImageAt(c)'
      BY <2>0, <3>1, <3>3 DEF ImageAt
    <3> QED BY <2>0, <3>4, <3>5 DEF Images, ImageAt
  <2>2. CASE ContentTag(c)
    <3>1. pc'[c] = "build" /\ memory'[c].tag = source /\ source \in Tag /\ UNCHANGED <<source, built>>
      BY <2>2 DEF ContentTag, Goto, CommandTypes, Memory, workstation
    <3> QED BY <2>0, <3>1 DEF Images, ImageAt
  <2>3. CASE Truncate(c) \/ ApplyTlsSecret(c) \/ EnsureGenerated(c)
    BY <1>1, <2>0, <2>3 DEF Truncate, ApplyTlsSecret, EnsureGenerated, workstation
  <2>4. CASE UNCHANGED <<source, built>> /\ pc'[c] \notin {"build", "load"}
    BY <1>1, <2>0, <2>4
  <2>5. CASE \/ Bootstrap(c) \/ Deploy(c) \/ Destroy(c) \/ EnsureCluster(c) \/ WaitNodesReady(c) \/ DeleteCluster(c) \/ Purge(c)
             \/ NextComponent(c) \/ RecoverInterrupted(c) \/ Exit(c) \/ Raise(c) \/ Crash(c)
    <3>1. UNCHANGED <<source, built>>
      BY <2>5 DEF Bootstrap, Deploy, Start, Destroy, EnsureCluster, WaitNodesReady, DeleteCluster, Purge, NextComponent, RecoverInterrupted,
                  Exit, Raise, Crash, workstation
    <3>2. pc'[c] \notin {"build", "load"}
      BY <2>5 DEF Bootstrap, Deploy, Destroy, EnsureCluster, WaitNodesReady, DeleteCluster, Purge, NextComponent, RecoverInterrupted,
                  PendingReleaseAction, Exit, Raise, Crash, Goto, CommandTypes
    <3> QED BY <2>4, <3>1, <3>2
  <2>9. CASE LaunchHelm(c)
    <3>1. UNCHANGED <<source, built>> /\ pc'[c] \in {"exit", "upgrade", "uninstalling", "rollingBack", "upgrading"}
      BY <2>9, LaunchEffect, LaunchLabel
    <3> QED BY <2>4, <3>1
  <2>6. CASE CertificatesDone(c) \/ GeneratedDone(c) \/ LoadImage(c) \/ WaitAvailable(c)
    BY <2>4, <2>6 DEF CertificatesDone, GeneratedDone, LoadImage, WaitAvailable, Deployed, Goto, CommandTypes, workstation
  <2>7. CASE EnsureCa(c) \/ EnsureLeaf(c) \/ ReadPair(c)
    BY <2>4, <2>7 DEF EnsureCa, EnsureLeaf, ReadPair, Goto, CommandTypes, workstation
  <2>8. CASE WriteFile(c)
    <3>1. AfterFile[pc[c]] \notin {"build", "load"}
      BY <2>8 DEF WriteFile, AfterFile, File
    <3> QED BY <2>4, <2>8, <3>1 DEF WriteFile, Goto, CommandTypes
  <2> QED BY <1>2, <2>1, <2>2, <2>3, <2>5, <2>6, <2>7, <2>8, <2>9 DEF Step
<1>3. ASSUME NEW r \in Release, HelmEnds(r) PROVE Images'
  <2>1. \A d \in Command : pc'[d] = pc[d] \/ pc'[d] \notin {"build", "load"}
    <3>1. CASE UNCHANGED pc
      BY <3>1
    <3>2. ASSUME NEW c \in Running(r), NEW outcome, AfterHelm(c, outcome) PROVE \A d \in Command : pc'[d] = pc[d] \/ pc'[d] \notin {"build", "load"}
      BY <3>2 DEF Running, AfterHelm, Deployed, Goto, CommandTypes
    <3> QED BY <1>3, <3>1, <3>2 DEF HelmEnds
  <2>2. UNCHANGED <<source, built, memory>> /\ mishaps'.crossed = mishaps.crossed
    BY <1>3, HistoryKeptElse DEF HelmEnds, workstation
  <2> QED BY <1>1, <2>1, <2>2
<1>4. CASE KindEnds
  <2>1. UNCHANGED <<source, built, memory>> /\ mishaps'.crossed = mishaps.crossed
    BY <1>4, HistoryKeptElse DEF KindEnds, workstation
  <2>2. \A c \in Command : pc'[c] = pc[c] \/ pc'[c] \notin {"build", "load"}
    BY <1>4 DEF KindEnds
  <2> QED BY <1>1, <2>1, <2>2
<1>5. CASE EditSource
  <2>1. UNCHANGED <<pc, memory, built>>
    BY <1>5 DEF EditSource
  <2>2. mishaps.crossed \subseteq mishaps'.crossed /\ \A c \in Command : pc[c] = "build" => memory[c].tag \in mishaps'.crossed
    BY <1>5, HistoryKeptElse
  <2> QED BY <2>1, <2>2 DEF Images, ImageAt
<1>6. CASE (\E f \in {"caCrt", "tlsCrt"} : ComesDue(f)) \/ Tick \/ LeaseExpires \/ UNCHANGED vars
  <2>1. UNCHANGED <<source, built, memory, pc>> /\ mishaps'.crossed = mishaps.crossed
    BY <1>6, HistoryKeptElse DEF ComesDue, Tick, LeaseExpires, vars, workstation
  <2> QED BY <1>1, <2>1
<1>7. ASSUME NEW r \in Release, NEW operation \in Operation, StrayBegins(r, operation) PROVE Images'
  BY <1>1, <1>7, StrayEffect
<1> QED BY <1>2, <1>3, <1>4, <1>5, <1>6, <1>7 DEF Next

-----------------------------------------------------------------------------
(* What has been deployed stays deployed until the command ends.            *)

CertificatesKept ==
    /\ CaSpared \/ (CaMatches /\ file["tlsCrt"].issuer = file["caCrt"].key)
    /\ LeafSpared \/ LeafMatches
    /\ \A s \in TlsSecret : tls[s] = [crt |-> file["tlsCrt"], key |-> file["tlsKey"]]
Kept(c, i) ==
    /\ i \in Release => Up(i)
    /\ i = "certificates" => CertificatesKept
    /\ i = "credentials" => generated = Generated
    /\ i = "images" => memory[c].tag \in Tag /\ (loaded[memory[c].tag] = memory[c].tag \/ memory[c].tag \in mishaps.crossed)
PromiseAt(c) == Working(c) => \A i \in ToSet(Plan(selected[c])) \ ToSet(todo[c]) : Kept(c, i)
Promises == \A c \in Command : PromiseAt(c)

LEMMA OtherItems ==
    Release \cap {"certificates", "credentials", "images"} = {}
BY DEF Release, ReleasesOf

\* A step of the command that stays at its item.
LEMMA PromiseHere ==
    ASSUME Basis, NEW c \in Command, PromiseAt(c), Working(c), todo'[c] = todo[c], selected'[c] = selected[c],
           \A i : i \notin ToSet(todo[c]) /\ Kept(c, i) => Kept(c, i)'
    PROVE  PromiseAt(c)'
BY DEF PromiseAt

\* A step that ends its item.
LEMMA PromiseEnd ==
    ASSUME Basis, NEW c \in Command, PromiseAt(c), Working(c), pc[c] \in HelmPc \cup PkiPc \cup ImagePc \cup {"generate"}, Deployed(c),
           selected'[c] = selected[c], NEW head, head = Head(todo[c]), Kept(c, head)',
           \A i : i \notin ToSet(todo[c]) /\ Kept(c, i) => Kept(c, i)'
    PROVE  PromiseAt(c)'
<1>1. todo'[c] = Tail(todo[c]) /\ ToSet(todo[c]) = {Head(todo[c])} \cup ToSet(Tail(todo[c]))
  BY EndOfItem DEF Basis, Types, CommandTypes
<1>2. SUFFICES ASSUME NEW i \in ToSet(Plan(selected[c])), i \notin ToSet(Tail(todo[c])) PROVE Kept(c, i)'
  BY <1>1 DEF PromiseAt
<1>3. CASE i = Head(todo[c])
  BY <1>3
<1>4. CASE i \notin ToSet(todo[c])
  BY <1>4, <1>2 DEF PromiseAt
<1> QED BY <1>1, <1>2, <1>3, <1>4

LEMMA PromiseStepOfCommand ==
    ASSUME Basis, Helm, Pki, Images, NEW c \in Command, PromiseAt(c), Step(c) \/ Raise(c) \/ Crash(c)
    PROVE  PromiseAt(c)'
<1> USE DEF Basis, Types
<1>0. ItemAt(c) /\ PkiAt(c) /\ ImageAt(c) /\ HelmAt(c) /\ todo[c] \in Seq(Item)
  BY DEF ItemAtPc, Pki, Images, Helm, CommandTypes
<1>16. /\ mishaps'.crossed = mishaps.crossed
       /\ pc[c] \notin File \cup {"purge"} => mishaps'.spared = mishaps.spared
       /\ Step(c) /\ pc[c] # "delete" => mishaps'.left = mishaps.left
  BY HistoryKept, LeftStays DEF Purge, WriteFile, DeleteCluster
<1>1. CASE Bootstrap(c)
  <2>1. todo'[c] = Plan(ToSet(Components)) /\ selected'[c] = ToSet(Components)
    BY <1>1 DEF Bootstrap, CommandTypes
  <2> QED BY <2>1 DEF PromiseAt
<1>2. CASE Deploy(c)
  <2>1. \E names : todo'[c] = Plan(names) /\ selected'[c] = names
    BY <1>2 DEF Deploy, CommandTypes
  <2> QED BY <2>1 DEF PromiseAt
<1>3. CASE Destroy(c) \/ DeleteCluster(c) \/ Purge(c) \/ Raise(c) \/ Exit(c) \/ Crash(c)
  <2>1. pc'[c] \in {"idle", "exit", "delete", "purge"}
    BY <1>3 DEF Destroy, DeleteCluster, Purge, Raise, Exit, Crash, Goto, CommandTypes
  <2> QED BY <2>1 DEF PromiseAt, Working
<1>4. todo[c] # <<>> => Head(todo[c]) \in ToSet(todo[c])
  BY <1>0, HeadAndTail
<1>5. ASSUME UNCHANGED <<release, tls, generated, loaded, file>>, memory'[c].tag = memory[c].tag,
             Step(c), pc[c] \notin File \cup {"purge", "delete"}
      PROVE  \A i : Kept(c, i) => Kept(c, i)'
  BY <1>5, <1>16 DEF Kept, CertificatesKept, CaMatches, LeafMatches, Matches, CaSpared, LeafSpared, Up
<1>6. CASE EnsureCluster(c) \/ WaitNodesReady(c) \/ NextComponent(c) \/ RecoverInterrupted(c) \/ BuildImage(c)
  <2>1. Working(c) /\ UNCHANGED <<todo, selected, release, tls, generated, loaded, file, memory>> /\ pc[c] \notin File \cup {"purge", "delete"}
    BY <1>6 DEF EnsureCluster, WaitNodesReady, NextComponent, RecoverInterrupted, BuildImage, Working, kubernetes, workstation, File
  <2>2. \A i : Kept(c, i) => Kept(c, i)'
    BY <1>5, <1>6, <2>1 DEF Step
  <2> QED BY <2>1, <2>2, PromiseHere
<1>7. CASE EnsureCa(c) \/ EnsureLeaf(c) \/ ReadPair(c)
  <2>1. Working(c) /\ UNCHANGED <<todo, selected, release, tls, generated, loaded, file>> /\ pc[c] \notin File \cup {"purge", "delete"}
    BY <1>7 DEF EnsureCa, EnsureLeaf, ReadPair, Working, kubernetes, workstation, File
  <2>2. memory'[c].tag = memory[c].tag
    <3>0. memory[c] \in Memory
      BY DEF CommandTypes
    <3>1. CASE EnsureCa(c)
      <4>1. \E a, b : memory' = [memory EXCEPT ![c].ca = a, ![c].cert = b]
        BY <3>1 DEF EnsureCa
      <4> QED BY <3>0, <4>1 DEF CommandTypes, Memory
    <3>2. CASE EnsureLeaf(c)
      BY <3>0, <3>2 DEF EnsureLeaf, CommandTypes, Memory
    <3>3. CASE ReadPair(c)
      BY <3>0, <3>3 DEF ReadPair, CommandTypes, Memory
    <3> QED BY <1>7, <3>1, <3>2, <3>3
  <2>3. \A i : Kept(c, i) => Kept(c, i)'
    BY <1>5, <1>7, <2>1, <2>2 DEF Step
  <2> QED BY <2>1, <2>3, PromiseHere
<1>8. CASE Truncate(c) \/ WriteFile(c) \/ ApplyTlsSecret(c)
  <2>1. Working(c) /\ pc[c] \in PkiPc /\ UNCHANGED <<todo, selected, release, generated, loaded, memory>>
    BY <1>8, LabelsAre DEF Truncate, WriteFile, ApplyTlsSecret, Working, kubernetes, File
  <2>2. "certificates" \in ToSet(todo[c])
    BY <1>0, <1>4, <2>1 DEF ItemAt
  <2>4. mishaps'.left = mishaps.left
    BY <1>8, <1>16, <2>1, LabelsAre DEF Step
  <2>3. \A i : i \notin ToSet(todo[c]) /\ Kept(c, i) => Kept(c, i)'
    BY <1>16, <2>1, <2>2, <2>4 DEF Kept, Up
  <2> QED BY <2>1, <2>3, PromiseHere
<1>9. CASE EnsureGenerated(c)
  <2>1. Working(c) /\ UNCHANGED <<todo, selected, release, tls, loaded, memory, file>>
    BY <1>9 DEF EnsureGenerated, Working, workstation
  <2>2. "credentials" \in ToSet(todo[c])
    BY <1>0, <1>4, <1>9 DEF ItemAt, EnsureGenerated
  <2>4. mishaps'.left = mishaps.left /\ mishaps'.spared = mishaps.spared
    BY <1>9, <1>16 DEF Step, EnsureGenerated, File
  <2>3. \A i : i \notin ToSet(todo[c]) /\ Kept(c, i) => Kept(c, i)'
    BY <1>16, <2>1, <2>2, <2>4 DEF Kept, CertificatesKept, CaMatches, LeafMatches, Matches, CaSpared, LeafSpared, Up
  <2> QED BY <2>1, <2>3, PromiseHere
<1>10. CASE ContentTag(c)
  <2>1. Working(c) /\ UNCHANGED <<todo, selected, release, tls, loaded, generated, file>>
    BY <1>10 DEF ContentTag, Working, workstation, kubernetes
  <2>2. "images" \in ToSet(todo[c])
    BY <1>0, <1>4, <1>10, LabelsAre DEF ItemAt, ContentTag
  <2>4. mishaps'.left = mishaps.left /\ mishaps'.spared = mishaps.spared
    BY <1>10, <1>16 DEF Step, ContentTag, File
  <2>3. \A i : i \notin ToSet(todo[c]) /\ Kept(c, i) => Kept(c, i)'
    BY <1>16, <2>1, <2>2, <2>4 DEF Kept, CertificatesKept, CaMatches, LeafMatches, Matches, CaSpared, LeafSpared, Up
  <2> QED BY <2>1, <2>3, PromiseHere
<1>11. CASE LaunchHelm(c)
  <2>1. /\ Working(c) /\ pc[c] \in HelmPc /\ UNCHANGED <<todo, selected, tls, loaded, generated, file, memory, mishaps>>
        /\ UNCHANGED release \/ release' = [release EXCEPT ![Current(c)] = Begun(release[Current(c)], pc[c])]
    BY <1>11, LaunchEffect, LabelsAre DEF Working, Operation
  <2>2. Current(c) \in ToSet(todo[c])
    BY <1>0, <1>4, <2>1 DEF ItemAt, Current
  <2>3. \A r \in Release : r # Current(c) => release'[r] = release[r]
    BY <2>1 DEF ClusterTypes
  <2>4. \A i : i \notin ToSet(todo[c]) /\ Kept(c, i) => Kept(c, i)'
    BY <2>1, <2>2, <2>3 DEF Kept, CertificatesKept, CaMatches, LeafMatches, Matches, CaSpared, LeafSpared, Up
  <2> QED BY <2>1, <2>4, PromiseHere
<1>12. CASE CertificatesDone(c)
  <2>1. /\ Working(c) /\ pc[c] = "apply" /\ UNCHANGED <<selected, release, tls, loaded, generated, file>>
        /\ Deployed(c) /\ \A s \in TlsSecret : tls[s] = memory[c].pair
    BY <1>12 DEF CertificatesDone, Working, workstation, kubernetes
  <2>2. memory'[c].tag = memory[c].tag
    BY <1>12 DEF CertificatesDone, CommandTypes, NoMemory
  <2>3. Head(todo[c]) = "certificates"
    BY <1>0, <2>1, LabelsAre DEF ItemAt
  <2>4. CertificatesKept
    <3>1. PkiFiles /\ PkiAt(c)
      BY <1>0 DEF Pki
    <3> QED BY <2>1, <3>1 DEF PkiAt, CertificatesKept
  <2>6. pc[c] \notin File \cup {"purge", "delete"} /\ mishaps'.spared = mishaps.spared
    BY <1>16, <2>1 DEF File
  <2>5. Kept(c, "certificates")'
    BY <2>1, <2>4, <2>6, OtherItems DEF Kept, CertificatesKept, CaMatches, LeafMatches, Matches, CaSpared, LeafSpared
  <2>7. \A i : Kept(c, i) => Kept(c, i)'
    BY <1>5, <1>12, <2>1, <2>2, <2>6 DEF Step
  <2> QED BY <2>1, <2>3, <2>5, <2>7, PromiseEnd, LabelsAre
<1>13. CASE GeneratedDone(c)
  <2>1. /\ Working(c) /\ pc[c] = "generate" /\ UNCHANGED <<selected, release, tls, loaded, generated, file, memory>>
        /\ Deployed(c) /\ generated = Generated
    BY <1>13 DEF GeneratedDone, Working, workstation, kubernetes
  <2>2. Head(todo[c]) = "credentials"
    BY <1>0, <2>1 DEF ItemAt
  <2>3. Kept(c, "credentials")'
    BY <2>1, OtherItems DEF Kept
  <2>4. \A i : Kept(c, i) => Kept(c, i)'
    BY <1>5, <1>13, <2>1 DEF Step, File
  <2> QED BY <2>1, <2>2, <2>3, <2>4, PromiseEnd
<1>14. CASE LoadImage(c)
  <2>1. /\ Working(c) /\ pc[c] = "load" /\ UNCHANGED <<selected, release, tls, generated, file, memory>> /\ Deployed(c)
        /\ loaded' = [loaded EXCEPT ![memory[c].tag] = built[memory[c].tag]]
    BY <1>14 DEF LoadImage, Working, workstation
  <2>2. Head(todo[c]) = "images" /\ "images" \in ToSet(todo[c])
    BY <1>0, <1>4, <2>1, LabelsAre DEF ItemAt
  <2>3. memory[c].tag \in Tag /\ (loaded'[memory[c].tag] = memory[c].tag \/ memory[c].tag \in mishaps'.crossed)
    BY <1>0, <1>16, <2>1 DEF ImageAt, ClusterTypes
  <2>4. Kept(c, "images")'
    BY <2>1, <2>3, OtherItems DEF Kept
  <2>6. mishaps'.left = mishaps.left /\ mishaps'.spared = mishaps.spared
    BY <1>14, <1>16, <2>1 DEF Step, File
  <2>5. \A i : i \notin ToSet(todo[c]) /\ Kept(c, i) => Kept(c, i)'
    BY <1>16, <2>1, <2>2, <2>6 DEF Kept, CertificatesKept, CaMatches, LeafMatches, Matches, CaSpared, LeafSpared, Up
  <2> QED BY <2>1, <2>2, <2>4, <2>5, PromiseEnd, LabelsAre
<1>15. CASE WaitAvailable(c)
  <2>1. Working(c) /\ pc[c] = "available" /\ UNCHANGED <<selected, release, tls, loaded, generated, file, memory>> /\ Deployed(c)
    BY <1>15 DEF WaitAvailable, Working, workstation, kubernetes
  <2>2. PICK r : r = Head(todo[c])
    OBVIOUS
  <2>3. r \in Release /\ Up(r)
    BY <1>0, <2>1, <2>2, LabelsAre DEF ItemAt, HelmAt, Current
  <2>5. mishaps'.left = mishaps.left
    BY <1>15, <1>16, <2>1 DEF Step
  <2>4. Kept(c, r)'
    BY <2>1, <2>3, <2>5, OtherItems DEF Kept, Up
  <2>6. \A i : Kept(c, i) => Kept(c, i)'
    BY <1>5, <1>15, <2>1 DEF Step, File
  <2> QED BY <2>1, <2>2, <2>4, <2>6, PromiseEnd, LabelsAre
<1> QED BY <1>1, <1>2, <1>3, <1>6, <1>7, <1>8, <1>9, <1>10, <1>11, <1>12, <1>13, <1>14, <1>15 DEF Step

LEMMA PromiseHelmEnds ==
    ASSUME Basis, Helm, ~mishaps.loose, NEW r \in Release, HelmEnds(r), NEW d \in Command, PromiseAt(d)
    PROVE  PromiseAt(d)'
<1> USE DEF Basis, Types
<1>0. /\ release[r].live > 0 /\ Processes /\ UNCHANGED <<selected, memory, file, loaded>>
      /\ FoundationAt(d) /\ HelmAt(d) /\ ItemAt(d)
  BY DEF HelmEnds, Helm, workstation, ItemAtPc
<1>1. PICK outcome \in HelmOutcome :
             /\ ChartEffect(r, outcome)
             /\ \A q \in mishaps.left : q \in mishaps'.left \/ (outcome = "done" /\ q = r /\ <<q, "upgrade">> \notin stray)
             /\ \/ /\ pc'[d] = pc[d] /\ todo'[d] = todo[d]
                   /\ ~(pc[d] \in HelmWait /\ Current(d) = r)
                \/ /\ pc[d] \in HelmWait /\ Current(d) = r
                   /\ todo'[d] = todo[d] /\ pc'[d] \in {"exit", "upgrade"}
                \/ /\ pc[d] = "upgrading" /\ Current(d) = r /\ outcome = "done"
                   /\ todo'[d] = todo[d] /\ pc'[d] = "available"
                \/ /\ pc[d] = "upgrading" /\ Current(d) = r /\ outcome = "done" /\ Deployed(d)
  BY AfterWait
<1>2. SUFFICES ASSUME Working(d)' PROVE PromiseAt(d)'
  BY DEF PromiseAt
<1>3. Working(d)
  BY <1>1, <1>2 DEF Working, HelmWait
<1>4. pc[d] = "upgrading" /\ Current(d) = r /\ outcome = "done" => release'[r].status = "deployed"
  BY <1>0, <1>1, AfterProcess DEF HelmAt
<1>5. CASE Foundation \in ToSet(todo[d])
  <2>1. todo[d] = Plan(selected[d]) /\ Head(todo[d]) = Foundation
    BY <1>0, <1>3, <1>5, FoundationNext
  <2>2. CASE todo'[d] = todo[d]
    BY <1>0, <2>1, <2>2 DEF PromiseAt
  <2>3. CASE pc[d] = "upgrading" /\ Current(d) = r /\ outcome = "done" /\ Deployed(d)
    <3>1. todo'[d] = Tail(todo[d]) /\ ToSet(todo[d]) = {Head(todo[d])} \cup ToSet(Tail(todo[d]))
      BY <2>3, EndOfItem, LabelsAre DEF CommandTypes
    <3>2. r = Foundation
      BY <2>1, <2>3 DEF Current
    <3>3. Kept(d, Foundation)'
      BY <1>4, <2>3, <3>2 DEF Kept, Foundation, Up
    <3> QED BY <1>0, <2>1, <3>1, <3>3 DEF PromiseAt
  <2> QED BY <1>1, <2>2, <2>3
<1>6. CASE Foundation \notin ToSet(todo[d])
  <2>1. r # Foundation \/ release[r].status \notin Early
    BY <1>0, <1>3, <1>6, FoundationNext
  <2>2. UNCHANGED <<tls, generated>>
    BY <1>0, <1>1, <2>1, AfterProcess DEF Early
  <2>3. \A q \in Release : Up(q) => Up(q)'
    BY <1>0, <1>1, <2>1, UpStays
  <2>4. mishaps'.spared = mishaps.spared /\ mishaps'.crossed = mishaps.crossed
    BY HistoryKeptElse
  <2>5. \A i : Kept(d, i) => Kept(d, i)'
    BY <1>0, <2>2, <2>3, <2>4 DEF Kept, CertificatesKept, CaMatches, LeafMatches, Matches, CaSpared, LeafSpared
  <2>6. CASE todo'[d] = todo[d]
    BY <1>0, <1>3, <2>5, <2>6, PromiseHere
  <2>7. CASE pc[d] = "upgrading" /\ Current(d) = r /\ outcome = "done" /\ Deployed(d)
    <3>1. r = Head(todo[d]) /\ Kept(d, r)'
      BY <1>0, <1>4, <2>7, OtherItems DEF Kept, Current, Up
    <3> QED BY <1>0, <1>3, <2>5, <2>7, <3>1, PromiseEnd, LabelsAre
  <2> QED BY <1>1, <2>6, <2>7
<1> QED BY <1>5, <1>6

LEMMA PromisesStep ==
    ASSUME Basis, Helm, Pki, Images, Promises, [Next]_vars, mishaps.loose => mishaps'.loose, ~mishaps'.loose
    PROVE  Promises'
<1>1. ASSUME NEW c \in Command, Step(c) \/ Raise(c) \/ Crash(c) PROVE Promises'
  <2>1. PromiseAt(c)'
    BY <1>1, PromiseStepOfCommand DEF Promises
  <2>2. \A d \in Command \ {c} : PromiseAt(d)'
    BY <1>1, OthersIdle DEF Basis, PromiseAt, Working
  <2> QED BY <2>1, <2>2 DEF Promises
<1>2. ASSUME NEW r \in Release, HelmEnds(r) PROVE Promises'
  <2>1. ~mishaps.loose
    OBVIOUS
  <2> QED BY <1>2, <2>1, PromiseHelmEnds DEF Promises
<1>3. ASSUME UNCHANGED <<todo, selected, tls, generated, loaded, file, memory>>,
             mishaps'.spared = mishaps.spared, mishaps.crossed \subseteq mishaps'.crossed,
             \A r \in Release : Up(r) => Up(r)',
             \A c \in Command : Working(c)' => Working(c)
      PROVE  Promises'
  <2>1. \A c \in Command : \A i : Kept(c, i) => Kept(c, i)'
    BY <1>3 DEF Kept, CertificatesKept, CaMatches, LeafMatches, Matches, CaSpared, LeafSpared
  <2> QED BY <1>3, <2>1 DEF Promises, PromiseAt
<1>4. CASE Tick
  <2>1. \A r \in Release : release'[r].status = release[r].status
    BY <1>4 DEF Tick, Basis, Types, ClusterTypes
  <2>2. UNCHANGED <<todo, selected, tls, generated, loaded, file, memory, mishaps, pc>>
    BY <1>4 DEF Tick, workstation
  <2> QED BY <1>3, <2>1, <2>2 DEF Working, Up
<1>5. CASE KindEnds
  <2>1. UNCHANGED <<todo, selected, tls, generated, loaded, file, memory, release>> /\ \A c \in Command : Working(c)' => Working(c)
    BY <1>5 DEF KindEnds, Working, workstation
  <2>2. mishaps'.spared = mishaps.spared /\ mishaps'.crossed = mishaps.crossed /\ mishaps'.left = mishaps.left
    BY <1>5, HistoryKeptElse DEF Basis
  <2> QED BY <1>3, <2>1, <2>2 DEF Up
<1>6. CASE (\E f \in {"caCrt", "tlsCrt"} : ComesDue(f)) \/ EditSource \/ LeaseExpires \/ UNCHANGED vars
  <2>1. UNCHANGED <<todo, selected, tls, generated, loaded, file, memory, release, pc>>
    BY <1>6 DEF ComesDue, EditSource, LeaseExpires, vars, kubernetes, workstation
  <2>2. mishaps'.spared = mishaps.spared /\ mishaps.crossed \subseteq mishaps'.crossed /\ mishaps'.left = mishaps.left
    BY <1>6, HistoryKeptElse DEF Basis
  <2> QED BY <1>3, <2>1, <2>2 DEF Up, Working
<1>7. ASSUME NEW r \in Release, NEW operation \in Operation, StrayBegins(r, operation) PROVE Promises'
  <2>1. UNCHANGED <<todo, selected, tls, generated, loaded, file, memory, mishaps, pc>>
    BY <1>7, StrayEffect DEF Basis
  <2> QED BY <1>3, <1>7, <2>1, StrayHelm DEF Working
<1>9. CASE \E r \in Release : HelmEnds(r)
  BY <1>2, <1>9
<1> QED BY <1>1, <1>4, <1>5, <1>6, <1>7, <1>9 DEF Next

\* The certificates, images, releases and promises, as long as no commands overlapped.
Order == Helm /\ Pki /\ Images /\ Promises
Invariant == Basis /\ (~mishaps.loose => Order)

LEMMA InvariantHolds == (Init => Invariant) /\ (Invariant /\ [Next]_vars => Invariant')
<1>1. ASSUME Init PROVE Invariant
  <2>1. Pki
    BY <1>1 DEF Init, Pki, PkiFiles, PkiAt, CaBroken, LeafBroken, File
  <2>2. Images
    BY <1>1 DEF Init, Images, ImageAt, NoImages
  <2>3. Promises
    BY <1>1 DEF Init, Promises, PromiseAt, Working
  <2> QED BY <1>1, <2>1, <2>2, <2>3, InitBasis, InitHelm DEF Invariant, Order
<1>2. ASSUME Invariant, [Next]_vars PROVE Invariant'
  <2>1. Basis' /\ (mishaps.loose => mishaps'.loose)
    BY <1>2, BasisStep, LooseStays DEF Invariant
  <2>2. ASSUME ~mishaps'.loose PROVE Order'
    <3>1. Basis /\ Helm /\ Pki /\ Images /\ Promises
      BY <1>2, <2>1, <2>2 DEF Invariant, Order
    <3>2. Helm'
      BY <1>2, <2>1, <2>2, <3>1, HelmStep
    <3>3. Pki'
      BY <1>2, <2>1, <2>2, <3>1, PkiStep
    <3>4. Images'
      BY <1>2, <2>1, <2>2, <3>1, ImagesStep
    <3>5. Promises'
      BY <1>2, <2>1, <2>2, <3>1, PromisesStep
    <3> QED BY <3>2, <3>3, <3>4, <3>5 DEF Order
  <2> QED BY <2>1, <2>2 DEF Invariant
<1> QED BY <1>1, <1>2

\* No release is worked on by two Helm processes, whatever is killed,
\* interrupted, destroyed and started again, and also beside an upgrade that
\* was left behind before its record: a pending release is recovered only
\* after STALE_PENDING_AFTER, which no Helm process lives to see.  Excepted is
\* what follows on an overlap of commands, or on a recovery that was left
\* behind before its record.
THEOREM OneHelmProcess == Spec => []HelmAlone
<1>1. Invariant => HelmAlone
  BY DEF Invariant, Order, Basis, Types, ClusterTypes, Helm, Processes, HelmAlone
<1> QED BY <1>1, InvariantHolds, PTL DEF Spec

\* A deployment that reports success has left what its components promise,
\* whatever was interrupted or killed before it, as long as commands did not
\* overlap: matching keys and certificates, but for those a purge was cut
\* short between; the server's pair in the TLS secrets; the credentials;
\* images of the source they are tagged with, but for a source edited before
\* its build; and every release deployed, but for those with an upgrade that
\* was left behind before its record.
THEOREM SuccessIsTrue == Spec => []SuccessMeansDeployed
<1>1. Invariant => SuccessMeansDeployed
  <2> SUFFICES ASSUME Basis, Promises, NEW c \in Command, pc[c] = "done"
               PROVE  /\ "certificates" \in selected[c] => CertificatesKept
                      /\ "identity" \in selected[c] => generated = Generated
                      /\ "services" \in selected[c] =>
                           memory[c].tag \in Tag /\ (loaded[memory[c].tag] = memory[c].tag \/ memory[c].tag \in mishaps.crossed)
                      /\ \A r \in ReleasesOf(selected[c]) : Up(r)
    BY DEF Invariant, Order, SuccessMeansDeployed, CertificatesKept, CaMatches, LeafMatches, CaSpared, LeafSpared, Up
  <2>1. ItemAt(c) /\ Working(c) /\ todo[c] = <<>> /\ selected[c] \in Planned
    BY DEF Basis, ItemAtPc, ItemAt, Working
  <2>2. \A i \in Items(selected[c]) : Kept(c, i)
    BY <2>1, Plans, NothingIn DEF Promises, PromiseAt
  <2>3. /\ "certificates" \in selected[c] => "certificates" \in Items(selected[c])
        /\ "identity" \in selected[c] => "credentials" \in Items(selected[c])
        /\ "services" \in selected[c] => "images" \in Items(selected[c])
    BY Scripts, Zenon DEF Items
  <2>4. \A r \in ReleasesOf(selected[c]) : r \in Items(selected[c]) /\ r \in Release
    <3>1. selected[c] \subseteq ToSet(Components)
      BY <2>1, Plans
    <3>2. Items(selected[c]) \subseteq Items(ToSet(Components))
      BY <3>1, Zenon DEF Items
    <3> QED BY <3>2 DEF Release, ReleasesOf
  <2> QED BY <2>2, <2>3, <2>4 DEF Kept
<1> QED BY <1>1, InvariantHolds, PTL DEF Spec
=============================================================================
