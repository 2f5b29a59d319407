---------------------------- MODULE RunpackProofs ----------------------------
(***************************************************************************)
(* Proofs about what gets into a runpack, as MCComponents checks it on     *)
(* small instances: the providers' imports - the snapshot of a cluster,    *)
(* the history of a workflow, the telemetry of services - and the store    *)
(* that takes the records.  They share no variable.  Each section proves   *)
(* what is always so of the system it is about, one lemma for each action  *)
(* that can disturb it, and from it what the import or the reader says.    *)
(***************************************************************************)
EXTENDS KubernetesSnapshot, TemporalHistory, OtlpImport, RunpackStore,
  FiniteSetTheorems, SequenceTheorems, WellFoundedInduction, TLAPS

-----------------------------------------------------------------------------
(* How many there are.                                                     *)

(* As many images as there are elements, when no two have the same.        *)
LEMMA ImageCount ==
  ASSUME NEW S, NEW f, f \in [S -> {f[x] : x \in S}], IsFiniteSet(S), \A x, y \in S : f[x] = f[y] => x = y
  PROVE  IsFiniteSet({f[x] : x \in S}) /\ Cardinality({f[x] : x \in S}) = Cardinality(S)
<1> DEFINE T == {f[x] : x \in S}
<1>1. f \in Injection(S, T) BY DEF Injection, IsInjective
<1>2. f \in Surjection(S, T) BY DEF Surjection
<1>3. ExistsBijection(S, T) BY <1>1, <1>2 DEF ExistsBijection, Bijection
<1>4. QED BY <1>3, FS_Bijection

(* Two finite sets without a common element count as the sum.              *)
LEMMA DisjointCount ==
  ASSUME NEW S, NEW T, IsFiniteSet(S), IsFiniteSet(T), S \intersect T = {}
  PROVE  /\ IsFiniteSet(S \union T) /\ Cardinality(S \union T) = Cardinality(S) + Cardinality(T)
         /\ Cardinality(S) \in Nat /\ Cardinality(T) \in Nat
<1>1. Cardinality(S) \in Nat /\ Cardinality(T) \in Nat BY FS_CardinalityType
<1>2. Cardinality(S \intersect T) = 0 BY FS_EmptySet
<1>3. /\ IsFiniteSet(S \union T)
      /\ Cardinality(S \union T) = Cardinality(S) + Cardinality(T) - Cardinality(S \intersect T)
  BY FS_Union
<1>4. QED BY <1>1, <1>2, <1>3

(* The images of finitely many elements are finitely many.                *)
LEMMA FiniteImage ==
  ASSUME NEW S, IsFiniteSet(S), NEW f
  PROVE  IsFiniteSet({f[x] : x \in S})
<1> DEFINE T == {f[x] : x \in S}
           g == [x \in S |-> f[x]]
<1>1. g \in Surjection(S, T) BY DEF Surjection
<1>2. QED BY <1>1, FS_Surjection

(* A set of numbers has a least one.                                       *)
LEMMA LeastNumber ==
  ASSUME NEW S \in SUBSET Nat, S # {}
  PROVE  \E m \in S : \A n \in S : m <= n
<1> DEFINE R == OpToRel(<, Nat)
<1>1. IsWellFoundedOn(R, Nat) BY NatLessThanWellFounded
<1>2. \A x \in Nat : \A y \in Nat : x < y => <<x, y>> \in R BY DEF OpToRel
<1>. HIDE DEF R
<1>3. PICK m \in S : \A n \in S : <<n, m>> \notin R BY <1>1, WFMin
<1>4. ASSUME NEW n \in S PROVE m <= n
  <2>1. m \in Nat /\ n \in Nat OBVIOUS
  <2>2. ~(n < m) BY <1>2, <1>3, <2>1
  <2>3. QED BY <2>1, <2>2
<1>5. QED BY <1>4

-----------------------------------------------------------------------------
(* The snapshot of a cluster.                                              *)

Statuses == [state : {"none", "waiting", "running", "terminated"}, started : Nat, finished : Nat]
ClusterObjects ==
  [uid : Nat, kind : Kinds, owners : SUBSET Nat, controller : Nat, node : Nat, created : Nat,
   containers : [Containers -> Statuses]]

ClusterTypeOK ==
  /\ clusterClock \in Nat \ {0} /\ objects \in Seq(ClusterObjects)
  /\ existing \subseteq DOMAIN objects /\ DOMAIN listed \subseteq Kinds

\* A container has run after the pod was created and before time.
StatusOK(s, created, time) ==
  \/ s.state \in {"none", "waiting"} /\ s.started = Null /\ s.finished = Null
  \/ s.state = "running" /\ s.started \in created..time - 1 /\ s.finished = Null
  \/ s.state = "terminated" /\ s.started \in created..time - 1 /\ s.finished \in s.started..time - 1

\* What an object says of itself, when it is seen and ever after: its owners are
\* older than it.
ObjectOK(o, time) ==
  /\ o \in ClusterObjects /\ o.uid # 0
  /\ o.owners \subseteq 1..o.uid - 1 /\ o.controller \in {Null} \union o.owners
  /\ o.kind = "Event" => o.owners # {}
  /\ o.created \in 1..time - 1
  /\ \A c \in Containers : StatusOK(o.containers[c], o.created, time)

\* What it says of others is true of objects that were created.
PlacedOK(o, created) ==
  /\ o.uid \in DOMAIN created /\ created[o.uid].kind = o.kind
  /\ o.node # Null => o.node \in DOMAIN created /\ created[o.node].kind = "Node"

ObjectsInv == \A i \in DOMAIN objects : objects[i].uid = i /\ ObjectOK(objects[i], clusterClock) /\ PlacedOK(objects[i], objects)

NodeInv == \A i \in existing : \A j \in existing : objects[i].kind = "Node" /\ objects[j].kind = "Node" => i = j

ListingOK(k, L) ==
  /\ IsFiniteSet(L)
  /\ \A o \in L : o.kind = k /\ ObjectOK(o, clusterClock) /\ PlacedOK(o, objects)
  /\ \A a \in L : \A b \in L : a.uid = b.uid \/ k = "Node" => a = b

ListedInv == \A k \in DOMAIN listed : ListingOK(k, listed[k])

ClusterInv == ClusterTypeOK /\ ObjectsInv /\ NodeInv /\ ListedInv

-----------------------------------------------------------------------------
(* Every step keeps what was said of an object that did not change.        *)

ClusterLater ==
  /\ clusterClock' \in Nat /\ clusterClock' >= clusterClock
  /\ \A i \in DOMAIN objects : i \in DOMAIN objects' /\ objects'[i].kind = objects[i].kind

LEMMA ObjectStays ==
  ASSUME NEW o, NEW t \in Nat, NEW u \in Nat, t <= u, ObjectOK(o, t)
  PROVE  ObjectOK(o, u)
<1>1. o.created \in 1..t - 1 /\ o.created \in 1..u - 1 BY DEF ObjectOK
<1>2. ASSUME NEW c \in Containers PROVE StatusOK(o.containers[c], o.created, u)
  <2>1. StatusOK(o.containers[c], o.created, t) BY DEF ObjectOK
  <2>2. QED BY <1>1, <2>1 DEF StatusOK
<1>3. QED BY <1>1, <1>2 DEF ObjectOK

LEMMA PlacedStays ==
  ASSUME ClusterLater, NEW o, PlacedOK(o, objects)
  PROVE  PlacedOK(o, objects')
BY DEF ClusterLater, PlacedOK

LEMMA ListedStays ==
  ASSUME ClusterLater, ClusterInv, listed' = listed
  PROVE  ListedInv'
<1>1. ASSUME NEW k \in DOMAIN listed PROVE ListingOK(k, listed[k])'
  <2>1. ListingOK(k, listed[k]) BY DEF ClusterInv, ListedInv
  <2>2. ASSUME NEW o \in listed[k] PROVE o.kind = k /\ ObjectOK(o, clusterClock') /\ PlacedOK(o, objects')
    <3>1. o.kind = k /\ ObjectOK(o, clusterClock) /\ PlacedOK(o, objects) BY <2>1 DEF ListingOK
    <3>2. ObjectOK(o, clusterClock') BY <3>1, ObjectStays DEF ClusterLater, ClusterInv, ClusterTypeOK
    <3>3. PlacedOK(o, objects') BY <3>1, PlacedStays
    <3>4. QED BY <3>1, <3>2, <3>3
  <2>3. QED BY <2>1, <2>2 DEF ListingOK
<1>2. QED BY <1>1 DEF ListedInv

\* A step that changes one object, or adds one.
LEMMA ObjectChanges ==
  ASSUME ClusterInv, clusterClock' = clusterClock + 1, listed' = listed, objects' \in Seq(ClusterObjects),
         Len(objects) <= Len(objects'), existing' \subseteq DOMAIN objects',
         NEW n \in DOMAIN objects', \A i \in DOMAIN objects : i # n => objects'[i] = objects[i],
         \A i \in DOMAIN objects' : i = n \/ i \in DOMAIN objects,
         n \in DOMAIN objects => objects'[n].kind = objects[n].kind,
         objects'[n].uid = n, ObjectOK(objects'[n], clusterClock + 1), PlacedOK(objects'[n], objects'),
         NodeInv'
  PROVE  ClusterInv'
<1>1. /\ clusterClock \in Nat \ {0} /\ DOMAIN objects = 1..Len(objects) /\ DOMAIN objects' = 1..Len(objects')
      /\ Len(objects) \in Nat /\ Len(objects') \in Nat
  BY DEF ClusterInv, ClusterTypeOK
<1>2. ClusterLater BY <1>1 DEF ClusterLater
<1>3. ASSUME NEW i \in DOMAIN objects'
      PROVE  objects'[i].uid = i /\ ObjectOK(objects'[i], clusterClock') /\ PlacedOK(objects'[i], objects')
  <2>1. CASE i = n BY <2>1
  <2>2. CASE i # n
    <3>1. i \in DOMAIN objects /\ objects'[i] = objects[i] BY <2>2
    <3>2. objects[i].uid = i /\ ObjectOK(objects[i], clusterClock) /\ PlacedOK(objects[i], objects)
      BY <3>1 DEF ClusterInv, ObjectsInv
    <3>3. ObjectOK(objects[i], clusterClock + 1) BY <1>1, <3>2, ObjectStays
    <3>4. PlacedOK(objects[i], objects') BY <1>2, <3>2, PlacedStays
    <3>6. QED BY <3>1, <3>2, <3>3, <3>4
  <2>3. QED BY <2>1, <2>2
<1>4. ObjectsInv' BY <1>3 DEF ObjectsInv
<1>5. ListedInv' BY <1>2, ListedStays
<1>6. ClusterTypeOK' BY <1>1 DEF ClusterInv, ClusterTypeOK
<1>7. QED BY <1>4, <1>5, <1>6 DEF ClusterInv

LEMMA CreateStep ==
  ASSUME ClusterInv, NEW kind \in Kinds, NEW owners \in SUBSET DOMAIN objects, NEW controller \in {Null} \union owners,
         kind = "Event" => owners # {}, Create(kind, owners, controller)
  PROVE  ClusterInv'
<1> DEFINE n == Len(objects) + 1
           r == [uid |-> n, kind |-> kind, owners |-> owners, controller |-> controller,
                 node |-> Null, created |-> clusterClock, containers |-> [c \in Containers |-> Absent]]
<1>1. /\ clusterClock \in Nat \ {0} /\ objects \in Seq(ClusterObjects) /\ existing \subseteq DOMAIN objects
      /\ DOMAIN objects = 1..Len(objects) /\ Len(objects) \in Nat /\ n \in Nat \ {0}
  BY DEF ClusterInv, ClusterTypeOK
<1>2. objects' = Append(objects, r) /\ existing' = existing \union {n} /\ listed' = listed /\ clusterClock' = clusterClock + 1
  BY DEF Create, Passes
<1>3. Absent \in Statuses BY DEF Absent, Statuses, Null
<1>4. owners \in SUBSET Nat /\ controller \in Nat BY <1>1 DEF Null
<1>5. r \in ClusterObjects BY <1>1, <1>3, <1>4 DEF ClusterObjects, Null
<1>6. ObjectOK(r, clusterClock + 1)
  <2>1. r.uid # 0 /\ r.owners \subseteq 1..r.uid - 1 /\ r.created \in 1..(clusterClock + 1) - 1 BY <1>1
  <2>2. ASSUME NEW c \in Containers PROVE StatusOK(r.containers[c], r.created, clusterClock + 1)
    BY DEF StatusOK, Absent
  <2>3. QED BY <1>5, <2>1, <2>2 DEF ObjectOK
<1>7. r.kind = kind /\ r.uid = n /\ r.node = Null OBVIOUS
<1>. HIDE DEF r
<1>8. /\ objects' \in Seq(ClusterObjects) /\ DOMAIN objects' = 1..n /\ Len(objects') = n /\ objects'[n] = r
      /\ \A i \in DOMAIN objects : objects'[i] = objects[i]
  BY <1>1, <1>2, <1>5
<1>. HIDE DEF n
<1>9. /\ n \in DOMAIN objects' /\ n \notin DOMAIN objects
      /\ \A i \in DOMAIN objects' : i = n \/ i \in DOMAIN objects
      /\ Len(objects) <= Len(objects') /\ existing' \subseteq DOMAIN objects'
  BY <1>1, <1>2, <1>8 DEF n
<1>10. PlacedOK(objects'[n], objects') BY <1>7, <1>8, <1>9 DEF PlacedOK
<1>11. NodeInv'
  <2>1. ASSUME NEW i \in existing', NEW j \in existing', objects'[i].kind = "Node", objects'[j].kind = "Node" PROVE i = j
    <3>1. CASE i \in existing /\ j \in existing
      <4>1. objects'[i] = objects[i] /\ objects'[j] = objects[j] BY <1>1, <1>8, <3>1
      <4>2. QED BY <2>1, <3>1, <4>1 DEF ClusterInv, NodeInv
    <3>2. CASE kind = "Node"
      <4>1. \A k \in existing : objects[k].kind # "Node" BY <3>2 DEF Create, Living
      <4>2. \A k \in existing : objects'[k].kind # "Node" BY <1>1, <1>8, <4>1
      <4>3. QED BY <1>2, <2>1, <4>2
    <3>3. CASE kind # "Node"
      <4>1. i # n /\ j # n BY <1>7, <1>8, <2>1, <3>3
      <4>2. QED BY <1>2, <3>1, <4>1
    <3>4. QED BY <3>2, <3>3
  <2>2. QED BY <2>1 DEF NodeInv
<1>12. QED BY <1>2, <1>6, <1>7, <1>8, <1>9, <1>10, <1>11, ObjectChanges

\* The cluster says something new of an object; which kind it is does not change.
LEMMA UpdateStep ==
  ASSUME ClusterInv, Passes, existing' = existing, NEW n \in DOMAIN objects, NEW r \in ClusterObjects,
         objects' = [objects EXCEPT ![n] = r], r.kind = objects[n].kind, r.uid = n,
         ObjectOK(r, clusterClock + 1), PlacedOK(r, objects)
  PROVE  ClusterInv'
<1>1. /\ clusterClock \in Nat \ {0} /\ objects \in Seq(ClusterObjects) /\ existing \subseteq DOMAIN objects
      /\ DOMAIN objects = 1..Len(objects) /\ Len(objects) \in Nat
  BY DEF ClusterInv, ClusterTypeOK
<1>2. listed' = listed /\ clusterClock' = clusterClock + 1 BY DEF Passes
<1>3. objects' \in Seq(ClusterObjects) /\ DOMAIN objects' = DOMAIN objects /\ Len(objects') = Len(objects) /\ objects'[n] = r
      /\ \A i \in DOMAIN objects : i # n => objects'[i] = objects[i]
  BY <1>1
<1>4. \A i \in DOMAIN objects : objects'[i].kind = objects[i].kind BY <1>3
<1>5. PlacedOK(r, objects') BY <1>3, <1>4 DEF PlacedOK
<1>6. NodeInv' BY <1>1, <1>4 DEF ClusterInv, NodeInv
<1>7. /\ n \in DOMAIN objects' /\ Len(objects) <= Len(objects') /\ existing' \subseteq DOMAIN objects'
      /\ \A i \in DOMAIN objects' : i = n \/ i \in DOMAIN objects
      /\ objects'[n].kind = objects[n].kind /\ objects'[n].uid = n /\ ObjectOK(objects'[n], clusterClock + 1)
      /\ PlacedOK(objects'[n], objects')
  BY <1>1, <1>3, <1>5
<1>8. QED BY <1>2, <1>3, <1>6, <1>7, ObjectChanges

LEMMA BindStep ==
  ASSUME ClusterInv, NEW pod \in existing, Bind(pod)
  PROVE  ClusterInv'
<1>1. /\ clusterClock \in Nat \ {0} /\ pod \in DOMAIN objects
      /\ objects[pod].uid = pod /\ ObjectOK(objects[pod], clusterClock) /\ PlacedOK(objects[pod], objects)
  BY DEF ClusterInv, ClusterTypeOK, ObjectsInv
<1>2. PICK node \in Living("Node") : objects' = [objects EXCEPT ![pod].node = node] BY DEF Bind
<1> DEFINE r == [objects[pod] EXCEPT !.node = node]
<1>3. objects' = [objects EXCEPT ![pod] = r] BY <1>2
<1>4. node \in DOMAIN objects /\ objects[node].kind = "Node" /\ node \in Nat
  BY DEF Living, ClusterInv, ClusterTypeOK
<1>5. objects[pod] \in ClusterObjects BY <1>1 DEF ObjectOK
<1>6. /\ r \in ClusterObjects /\ r.uid = objects[pod].uid /\ r.kind = objects[pod].kind /\ r.owners = objects[pod].owners
      /\ r.controller = objects[pod].controller /\ r.created = objects[pod].created /\ r.containers = objects[pod].containers
      /\ r.node = node
  BY <1>4, <1>5 DEF ClusterObjects
<1>. HIDE DEF r
<1>7. ObjectOK(objects[pod], clusterClock + 1) BY <1>1, ObjectStays
<1>8. ObjectOK(r, clusterClock + 1) BY <1>6, <1>7 DEF ObjectOK
<1>9. PlacedOK(r, objects) BY <1>1, <1>4, <1>6 DEF PlacedOK
<1>10. Passes /\ existing' = existing BY DEF Bind
<1>11. QED BY <1>1, <1>3, <1>6, <1>8, <1>9, <1>10, UpdateStep

LEMMA ReportStep ==
  ASSUME ClusterInv, NEW pod \in existing, NEW c \in Containers, NEW status \in Statuses, Report(pod, c, status),
         StatusOK(status, objects[pod].created, clusterClock + 1)
  PROVE  ClusterInv'
<1>1. /\ clusterClock \in Nat \ {0} /\ pod \in DOMAIN objects
      /\ objects[pod].uid = pod /\ ObjectOK(objects[pod], clusterClock) /\ PlacedOK(objects[pod], objects)
  BY DEF ClusterInv, ClusterTypeOK, ObjectsInv
<1> DEFINE r == [objects[pod] EXCEPT !.containers[c] = status]
<1>2. objects' = [objects EXCEPT ![pod] = r] BY DEF Report
<1>3. objects[pod] \in ClusterObjects BY <1>1 DEF ObjectOK
<1>4. /\ r \in ClusterObjects /\ r.uid = objects[pod].uid /\ r.kind = objects[pod].kind /\ r.owners = objects[pod].owners
      /\ r.controller = objects[pod].controller /\ r.created = objects[pod].created /\ r.node = objects[pod].node
      /\ r.containers = [objects[pod].containers EXCEPT ![c] = status]
  BY <1>3 DEF ClusterObjects
<1>. HIDE DEF r
<1>5. ObjectOK(objects[pod], clusterClock + 1) BY <1>1, ObjectStays
<1>6. ObjectOK(r, clusterClock + 1)
  <2>1. objects[pod].containers \in [Containers -> Statuses] BY <1>3 DEF ClusterObjects
  <2>2. ASSUME NEW d \in Containers PROVE StatusOK(r.containers[d], r.created, clusterClock + 1)
    <3>1. CASE d = c BY <1>4, <2>1, <3>1
    <3>2. CASE d # c
      <4>1. r.containers[d] = objects[pod].containers[d] BY <1>4, <2>1, <3>2
      <4>2. QED BY <1>4, <1>5, <4>1 DEF ObjectOK
    <3>3. QED BY <3>1, <3>2
  <2>3. QED BY <1>4, <1>5, <2>2 DEF ObjectOK
<1>7. PlacedOK(r, objects) BY <1>1, <1>4 DEF PlacedOK
<1>8. Passes /\ existing' = existing BY DEF Report
<1>9. QED BY <1>1, <1>2, <1>4, <1>6, <1>7, <1>8, UpdateStep

LEMMA ContainerStep ==
  ASSUME ClusterInv, NEW pod \in existing, NEW c \in Containers,
         ContainerWaits(pod, c) \/ ContainerStarts(pod, c) \/ ContainerEnds(pod, c)
  PROVE  ClusterInv'
<1>1. /\ clusterClock \in Nat \ {0} /\ Status(pod, c) \in Statuses /\ StatusOK(Status(pod, c), objects[pod].created, clusterClock)
      /\ objects[pod].created \in 1..clusterClock - 1
  <2>1. clusterClock \in Nat \ {0} /\ pod \in DOMAIN objects /\ ObjectOK(objects[pod], clusterClock)
    BY DEF ClusterInv, ClusterTypeOK, ObjectsInv
  <2>2. objects[pod] \in ClusterObjects BY <2>1 DEF ObjectOK
  <2>3. objects[pod].containers \in [Containers -> Statuses] BY <2>2 DEF ClusterObjects
  <2>4. QED BY <2>1, <2>3 DEF ObjectOK, Status
<1>2. CASE ContainerWaits(pod, c)
  <2> DEFINE s == [Absent EXCEPT !.state = "waiting"]
  <2>1. s \in Statuses /\ StatusOK(s, objects[pod].created, clusterClock + 1) BY DEF Absent, Statuses, StatusOK, Null
  <2>2. Report(pod, c, s) BY <1>2 DEF ContainerWaits
  <2>3. QED BY <2>1, <2>2, ReportStep
<1>3. CASE ContainerStarts(pod, c)
  <2> DEFINE s == [Absent EXCEPT !.state = "running", !.started = clusterClock]
  <2>1. s \in Statuses /\ StatusOK(s, objects[pod].created, clusterClock + 1)
    <3>1. s \in Statuses /\ s.state = "running" /\ s.started = clusterClock /\ s.finished = Null
      BY <1>1 DEF Absent, Statuses, Null
    <3>2. QED BY <1>1, <3>1 DEF StatusOK
  <2>2. Report(pod, c, s) BY <1>3 DEF ContainerStarts
  <2>3. QED BY <2>1, <2>2, ReportStep
<1>4. CASE ContainerEnds(pod, c)
  <2> DEFINE s == [Status(pod, c) EXCEPT !.state = "terminated", !.finished = clusterClock]
  <2>1. Status(pod, c).state = "running" /\ Report(pod, c, s) BY <1>4 DEF ContainerEnds
  <2>2. Status(pod, c).started \in objects[pod].created..clusterClock - 1 BY <1>1, <2>1 DEF StatusOK
  <2>3. s \in Statuses /\ s.state = "terminated" /\ s.started = Status(pod, c).started /\ s.finished = clusterClock
    BY <1>1 DEF Statuses
  <2>4. StatusOK(s, objects[pod].created, clusterClock + 1) BY <1>1, <2>2, <2>3 DEF StatusOK
  <2>5. QED BY <2>1, <2>3, <2>4, ReportStep
<1>5. QED BY <1>2, <1>3, <1>4

LEMMA DeleteStep ==
  ASSUME ClusterInv, NEW uid \in existing, Delete(uid)
  PROVE  ClusterInv'
<1>1. /\ clusterClock \in Nat \ {0} /\ existing' \subseteq existing /\ objects' = objects /\ listed' = listed
      /\ clusterClock' = clusterClock + 1
  BY DEF ClusterInv, ClusterTypeOK, Delete, Passes
<1>2. ClusterLater BY <1>1 DEF ClusterLater
<1>3. ClusterTypeOK' BY <1>1 DEF ClusterInv, ClusterTypeOK
<1>4. ObjectsInv'
  <2>1. ASSUME NEW i \in DOMAIN objects PROVE ObjectOK(objects[i], clusterClock + 1)
    BY <1>1, ObjectStays DEF ClusterInv, ObjectsInv
  <2>2. QED BY <1>1, <2>1 DEF ClusterInv, ObjectsInv
<1>5. NodeInv' BY <1>1 DEF ClusterInv, NodeInv
<1>6. ListedInv' BY <1>1, <1>2, ListedStays
<1>7. QED BY <1>3, <1>4, <1>5, <1>6 DEF ClusterInv

LEMMA ListStep ==
  ASSUME ClusterInv, NEW kind \in Kinds, List(kind)
  PROVE  ClusterInv'
<1> DEFINE L == {objects[uid] : uid \in Living(kind)}
<1>1. /\ objects \in Seq(ClusterObjects) /\ Len(objects) \in Nat /\ DOMAIN objects = 1..Len(objects)
      /\ existing \subseteq 1..Len(objects) /\ DOMAIN listed \subseteq Kinds
  BY DEF ClusterInv, ClusterTypeOK
<1>2. ListingOK(kind, L)
  <2>1. IsFiniteSet(L)
    <3>1. IsFiniteSet(1..Len(objects)) BY <1>1, FS_Interval
    <3>2. Living(kind) \in SUBSET (1..Len(objects)) BY <1>1 DEF Living
    <3>3. IsFiniteSet(Living(kind)) BY <3>1, <3>2, FS_Subset
    <3>4. QED BY <3>3, FiniteImage
  <2>2. ASSUME NEW o \in L PROVE o.kind = kind /\ ObjectOK(o, clusterClock) /\ PlacedOK(o, objects)
    BY <1>1 DEF Living, ClusterInv, ObjectsInv
  <2>3. ASSUME NEW a \in L, NEW b \in L, a.uid = b.uid \/ kind = "Node" PROVE a = b
    <3>1. PICK i \in Living(kind) : a = objects[i] OBVIOUS
    <3>2. PICK j \in Living(kind) : b = objects[j] OBVIOUS
    <3>3. i \in existing /\ j \in existing /\ objects[i].kind = kind /\ objects[j].kind = kind BY DEF Living
    <3>4. objects[i].uid = i /\ objects[j].uid = j BY <1>1, <3>3 DEF ClusterInv, ObjectsInv
    <3>5. i = j BY <2>3, <3>1, <3>2, <3>3, <3>4 DEF ClusterInv, NodeInv
    <3>6. QED BY <3>1, <3>2, <3>5
  <2>4. QED BY <2>1, <2>2, <2>3 DEF ListingOK
<1>3. /\ clusterClock' = clusterClock /\ objects' = objects /\ existing' = existing
      /\ DOMAIN listed' = DOMAIN listed \union {kind} /\ listed'[kind] = L
      /\ \A k \in DOMAIN listed : k # kind => listed'[k] = listed[k]
  BY DEF List
<1>. HIDE DEF L
<1>4. ListedInv'
  <2>1. ASSUME NEW k \in DOMAIN listed' PROVE ListingOK(k, listed'[k])
    <3>1. CASE k = kind BY <1>2, <1>3, <3>1
    <3>2. CASE k # kind BY <1>3, <3>2 DEF ClusterInv, ListedInv
    <3>3. QED BY <3>1, <3>2
  <2>2. ASSUME NEW k, NEW M, ListingOK(k, M) PROVE ListingOK(k, M)' BY <1>3, <2>2 DEF ListingOK
  <2>3. ASSUME NEW k \in DOMAIN listed' PROVE ListingOK(k, listed[k])' BY <1>3, <2>1 DEF ListingOK
  <2>4. QED BY <2>3 DEF ListedInv
<1>5. ClusterTypeOK' BY <1>1, <1>3 DEF ClusterInv, ClusterTypeOK
<1>6. ObjectsInv' BY <1>3 DEF ClusterInv, ObjectsInv
<1>7. NodeInv' BY <1>3 DEF ClusterInv, NodeInv
<1>8. QED BY <1>4, <1>5, <1>6, <1>7 DEF ClusterInv

LEMMA ClusterInductive == ClusterSpec => []ClusterInv
<1>1. ClusterInit => ClusterInv
  BY DEF ClusterInit, ClusterInv, ClusterTypeOK, ObjectsInv, NodeInv, ListedInv
<1>2. ClusterInv /\ [ClusterNext]_clusterVars => ClusterInv'
  <2>1. SUFFICES ASSUME ClusterInv, [ClusterNext]_clusterVars PROVE ClusterInv' OBVIOUS
  <2>2. \A kind : Living(kind) \subseteq existing /\ existing \subseteq DOMAIN objects
    BY <2>1 DEF Living, ClusterInv, ClusterTypeOK
  <2>3. CASE Creation
    <3>1. CASE \E kind \in {"Node", "Job"} : Create(kind, {}, Null)
      <4>1. PICK kind \in {"Node", "Job"} : Create(kind, {}, Null) BY <3>1
      <4>2. kind \in Kinds /\ kind # "Event" BY DEF Kinds
      <4>3. QED BY <2>1, <4>1, <4>2, CreateStep
    <3>2. CASE \E owners \in SUBSET Living("Job") : \E controller \in {Null} \union owners : Create("Pod", owners, controller)
      <4>1. PICK owners \in SUBSET Living("Job") : \E controller \in {Null} \union owners : Create("Pod", owners, controller)
        BY <3>2
      <4>2. PICK controller \in {Null} \union owners : Create("Pod", owners, controller) BY <4>1
      <4>3. "Pod" \in Kinds /\ owners \in SUBSET DOMAIN objects BY <2>2 DEF Kinds
      <4>4. QED BY <2>1, <4>2, <4>3, CreateStep
    <3>3. CASE \E uid \in existing \ Living("Event") : Create("Event", {uid}, Null)
      <4>1. PICK uid \in existing \ Living("Event") : Create("Event", {uid}, Null) BY <3>3
      <4>2. "Event" \in Kinds /\ {uid} \in SUBSET DOMAIN objects /\ {uid} # {} /\ Null \in {Null} \union {uid}
        BY <2>2, <4>1 DEF Kinds
      <4>3. QED BY <2>1, <4>1, <4>2, CreateStep
    <3>4. QED BY <2>3, <3>1, <3>2, <3>3 DEF Creation
  <2>4. ASSUME NEW pod \in Living("Pod"),
               Bind(pod) \/ \E c \in Containers : ContainerWaits(pod, c) \/ ContainerStarts(pod, c) \/ ContainerEnds(pod, c)
        PROVE  ClusterInv'
    <3>1. pod \in existing BY <2>2
    <3>2. CASE Bind(pod) BY <2>1, <3>1, <3>2, BindStep
    <3>3. CASE ~Bind(pod) BY <2>1, <2>4, <3>1, <3>3, ContainerStep
    <3>4. QED BY <3>2, <3>3
  <2>5. ASSUME NEW uid \in existing, Delete(uid) PROVE ClusterInv' BY <2>1, <2>5, DeleteStep
  <2>6. ASSUME NEW kind \in Kinds, List(kind) PROVE ClusterInv' BY <2>1, <2>6, ListStep
  <2>7. CASE UNCHANGED clusterVars
    <3>. USE <2>1, <2>7 DEF clusterVars, ClusterInv
    <3>1. ClusterTypeOK' /\ ObjectsInv' BY DEF ClusterTypeOK, ObjectsInv
    <3>2. NodeInv' BY DEF NodeInv
    <3>3. ListedInv' BY DEF ListedInv, ListingOK
    <3>4. QED BY <3>1, <3>2, <3>3
  <2>8. QED BY <2>1, <2>3, <2>4, <2>5, <2>6, <2>7 DEF ClusterNext
<1>3. QED BY <1>1, <1>2, PTL DEF ClusterSpec

-----------------------------------------------------------------------------
(* What the listings make.                                                 *)

\* An event has a smaller number than the one it is above, and the first is a root.
LEMMA EventsFollow == EveryEventFollowsFromARoot
<1>1. ASSUME NEW trace \in Traces, NEW e \in 1..3
      PROVE  RootOf(trace, e) \in RootsOf(trace) /\ trace.process[RootOf(trace, e)] = trace.process[e]
  <2>1. trace.caller \in [1..3 -> 0..2] /\ \A x \in 1..3 : trace.caller[x] < x BY DEF Traces
  <2>2. ASSUME NEW x \in 1..3
        PROVE  /\ Above(trace, x) \in 1..3 /\ trace.process[Above(trace, x)] = trace.process[x]
               /\ Inside(trace, x) => Above(trace, x) < x
               /\ ~Inside(trace, x) => Above(trace, x) = x
    BY <2>1 DEF Above, Inside, Null
  <2>3. RootOf(trace, e) \in 1..3 /\ trace.process[RootOf(trace, e)] = trace.process[e] BY <2>2 DEF RootOf
  <2>4. ~Inside(trace, 1) BY <2>1 DEF Inside, Null
  <2>5. ~Inside(trace, RootOf(trace, e))
    <3>1. CASE ~Inside(trace, e) BY <2>2, <3>1 DEF RootOf
    <3>2. CASE Inside(trace, e) /\ ~Inside(trace, Above(trace, e)) BY <2>2, <3>2 DEF RootOf
    <3>3. CASE Inside(trace, e) /\ Inside(trace, Above(trace, e))
      <4>1. RootOf(trace, e) < Above(trace, e) /\ Above(trace, e) < e /\ RootOf(trace, e) \in 1..3 /\ Above(trace, e) \in 1..3
        BY <2>2, <3>3 DEF RootOf
      <4>2. RootOf(trace, e) = 1 BY <4>1
      <4>3. QED BY <2>4, <4>2
    <3>4. QED BY <3>1, <3>2, <3>3
  <2>6. QED BY <2>3, <2>5 DEF RootsOf
<1>2. QED BY <1>1 DEF EveryEventFollowsFromARoot

\* The greatest number of a set that has an upper bound.
LEMMA GreatestNumber ==
  ASSUME NEW S \in SUBSET Nat, S # {}, NEW bound \in Nat, \A n \in S : n <= bound
  PROVE  Max(S) \in S /\ \A n \in S : n <= Max(S)
<1> DEFINE U == {u \in Nat : \A n \in S : n <= u}
<1>1. PICK m \in U : \A u \in U : m <= u
  <2>1. U \in SUBSET Nat /\ U # {} OBVIOUS
  <2>. HIDE DEF U
  <2>2. QED BY <2>1, LeastNumber
<1>2. m \in S
  <2>1. SUFFICES ASSUME m \notin S PROVE FALSE OBVIOUS
  <2>2. PICK n \in S : TRUE OBVIOUS
  <2>3. m \in Nat /\ n <= m /\ n # m BY <1>1, <2>1
  <2>4. m - 1 \in Nat BY <2>3
  <2>5. \A k \in S : k <= m - 1 BY <1>1, <2>1
  <2>6. m - 1 \in U BY <2>4, <2>5
  <2>7. QED BY <1>1, <2>3, <2>6
<1>3. \E x \in S : \A y \in S : x >= y BY <1>1, <1>2
<1>4. Max(S) \in S /\ \A y \in S : Max(S) >= y BY <1>3 DEF Max
<1>5. QED BY <1>4

(* What is listed, whatever kind it is of.                                 *)
LEMMA Listings ==
  ASSUME ClusterInv, DOMAIN listed = Kinds
  PROVE  /\ \A o \in Workloads \union listed["Event"] : ObjectOK(o, clusterClock) /\ PlacedOK(o, objects)
         /\ \A o \in Nodes : o.kind = "Node"
         /\ \A o \in Pods : o.kind = "Pod"
         /\ \A o \in listed["Event"] : o.kind = "Event"
         /\ \A o \in Workloads : o.kind # "Event" /\ (o.kind = "Node" => o \in Nodes) /\ (o.kind = "Pod" => o \in Pods)
         /\ \A a \in Nodes : \A b \in Nodes : a = b
         /\ IsFiniteSet(Pods) /\ IsFiniteSet(Nodes) /\ IsFiniteSet(Workloads) /\ IsFiniteSet(listed["Event"])
<1>1. \A k \in Kinds : ListingOK(k, listed[k]) BY DEF ClusterInv, ListedInv
<1>2. Kinds = {"Node", "Job", "Pod", "Event"} BY DEF Kinds
<1>3. /\ ListingOK("Node", Nodes) /\ ListingOK("Pod", Pods) /\ ListingOK("Job", listed["Job"])
      /\ ListingOK("Event", listed["Event"])
  BY <1>1, <1>2 DEF Nodes, Pods
<1>4. \A o \in Nodes \union Pods \union listed["Job"] \union listed["Event"] : ObjectOK(o, clusterClock) /\ PlacedOK(o, objects)
  BY <1>3 DEF ListingOK
<1>5. /\ \A o \in Nodes : o.kind = "Node"
      /\ \A o \in Pods : o.kind = "Pod"
      /\ \A o \in listed["Job"] : o.kind = "Job"
      /\ \A o \in listed["Event"] : o.kind = "Event"
  BY <1>3 DEF ListingOK
<1>6. \A a \in Nodes : \A b \in Nodes : a = b BY <1>3 DEF ListingOK
<1>7. IsFiniteSet(Pods) /\ IsFiniteSet(Nodes) /\ IsFiniteSet(listed["Job"]) /\ IsFiniteSet(listed["Event"])
  BY <1>3 DEF ListingOK
<1>8. IsFiniteSet(Workloads)
  <2>1. IsFiniteSet(Nodes \union Pods) BY <1>7, FS_Union
  <2>2. QED BY <1>7, <2>1, FS_Union DEF Workloads
<1>9. QED BY <1>4, <1>5, <1>6, <1>7, <1>8 DEF Workloads

LEMMA OneOfAUid ==
  ASSUME ClusterInv, DOMAIN listed = Kinds,
         NEW a \in Workloads \union listed["Event"], NEW b \in Workloads \union listed["Event"], a.uid = b.uid
  PROVE  a = b
<1>1. a.kind = b.kind
  <2>1. PlacedOK(a, objects) /\ PlacedOK(b, objects) BY Listings
  <2>2. QED BY <2>1 DEF PlacedOK
<1>2. \A k \in Kinds : ListingOK(k, listed[k]) BY DEF ClusterInv, ListedInv
<1>3. \A o \in Workloads \union listed["Event"] : \E k \in Kinds : o \in listed[k]
  BY DEF Workloads, Nodes, Pods, Kinds
<1>4. PICK k \in Kinds : a \in listed[k] BY <1>3
<1>5. PICK l \in Kinds : b \in listed[l] BY <1>3
<1>6. k = l
  <2>1. a.kind = k /\ b.kind = l BY <1>2, <1>4, <1>5 DEF ListingOK
  <2>2. QED BY <1>1, <2>1
<1>7. QED BY <1>2, <1>4, <1>5, <1>6 DEF ListingOK

LEMMA OwnerIsOlder ==
  ASSUME NEW o, NEW time, ObjectOK(o, time), OwnerUid(o) # Null
  PROVE  OwnerUid(o) \in 1..o.uid - 1
<1>1. o.owners \subseteq 1..o.uid - 1 /\ o.controller \in {Null} \union o.owners BY DEF ObjectOK
<1>2. CASE o.controller # Null BY <1>1, <1>2 DEF OwnerUid
<1>3. CASE o.controller = Null
  <2>1. Cardinality(o.owners) = 1 /\ OwnerUid(o) = CHOOSE uid \in o.owners : TRUE BY <1>3 DEF OwnerUid
  <2>2. o.owners # {} BY <2>1, FS_EmptySet
  <2>3. QED BY <1>1, <2>1, <2>2
<1>4. QED BY <1>2, <1>3

(* No cycle: the least of what is in it would have an owner that is less.  *)
LEMMA Acyclic ==
  ASSUME ClusterInv, DOMAIN listed = Kinds
  PROVE  NoOwnerCycle
<1>1. SUFFICES ASSUME NEW cycle \in SUBSET Workloads, cycle # {},
                      \A o \in cycle : \E owner \in cycle : OwnerUid(o) = owner.uid
               PROVE  FALSE
  BY DEF NoOwnerCycle
<1>2. \A o \in cycle : ObjectOK(o, clusterClock) BY Listings
<1>3. \A o \in cycle : o.uid \in Nat \ {0} BY <1>2 DEF ObjectOK, ClusterObjects
<1> DEFINE numbers == {o.uid : o \in cycle}
<1>4. numbers \in SUBSET Nat /\ numbers # {} BY <1>1, <1>3
<1>5. PICK m \in numbers : \A n \in numbers : m <= n
  <2>. HIDE DEF numbers
  <2>1. QED BY <1>4, LeastNumber
<1>6. PICK o \in cycle : o.uid = m OBVIOUS
<1>7. PICK owner \in cycle : OwnerUid(o) = owner.uid BY <1>1
<1>8. owner.uid \in 1..o.uid - 1 BY <1>2, <1>3, <1>7, OwnerIsOlder DEF Null
<1>9. m <= owner.uid /\ o.uid \in Nat BY <1>3, <1>5
<1>10. QED BY <1>6, <1>8, <1>9

LEMMA SnapshotIsAccepted ==
  ASSUME ClusterInv, DOMAIN listed = Kinds
  PROVE  ListingsAccepted
<1>1. UniqueUids BY OneOfAUid DEF UniqueUids
<1>2. UniqueNodeNames
  <2>1. CASE Nodes = {} BY <2>1, FS_EmptySet DEF UniqueNodeNames
  <2>2. CASE Nodes # {}
    <3>1. PICK node \in Nodes : Nodes = {node} BY <2>2, Listings
    <3>2. QED BY <3>1, FS_Singleton DEF UniqueNodeNames
  <2>3. QED BY <2>1, <2>2
<1>3. QED BY <1>1, <1>2, Acyclic DEF ListingsAccepted

LEMMA PodEnds ==
  ASSUME ClusterInv, DOMAIN listed = Kinds, NEW pod \in Pods, PodFinish(pod) # Null
  PROVE  /\ PodFinish(pod) \in pod.created..clusterClock - 1
         /\ \A c \in Containers : /\ pod.containers[c].state = "terminated"
                                  /\ pod.containers[c].finished \in pod.containers[c].started..PodFinish(pod)
                                  /\ pod.containers[c].finished # Null
<1>1. ObjectOK(pod, clusterClock) /\ clusterClock \in Nat BY Listings DEF Workloads, ClusterInv, ClusterTypeOK
<1>2. pod.created \in 1..clusterClock - 1 BY <1>1 DEF ObjectOK
<1> DEFINE finishes == {pod.containers[c].finished : c \in Containers}
<1>3. (\A c \in Containers : pod.containers[c].state = "terminated") /\ PodFinish(pod) = Max(finishes) BY DEF PodFinish
<1>4. ASSUME NEW c \in Containers
      PROVE  /\ pod.containers[c].started \in pod.created..clusterClock - 1
             /\ pod.containers[c].finished \in pod.containers[c].started..clusterClock - 1
  <2>1. StatusOK(pod.containers[c], pod.created, clusterClock) BY <1>1 DEF ObjectOK
  <2>2. QED BY <1>3, <2>1 DEF StatusOK
<1>5. ASSUME NEW c \in Containers
      PROVE  pod.containers[c].finished \in pod.created..clusterClock - 1 /\ pod.containers[c].finished # 0
  BY <1>1, <1>2, <1>4
<1>6. finishes \in SUBSET Nat /\ finishes # {} /\ \A f \in finishes : f <= clusterClock
  <2>1. Containers # {} BY ContainersAssumption DEF ContainersAssumption
  <2>2. \A c \in Containers : pod.containers[c].finished \in Nat /\ pod.containers[c].finished <= clusterClock
    BY <1>1, <1>2, <1>5
  <2>3. QED BY <2>1, <2>2
<1>7. Max(finishes) \in finishes /\ \A f \in finishes : f <= Max(finishes)
  <2>. HIDE DEF finishes
  <2>1. QED BY <1>1, <1>6, GreatestNumber
<1>8. PodFinish(pod) \in pod.created..clusterClock - 1 BY <1>3, <1>5, <1>7
<1>9. ASSUME NEW c \in Containers PROVE pod.containers[c].finished \in pod.containers[c].started..PodFinish(pod)
  <2>1. pod.containers[c].finished <= PodFinish(pod) BY <1>3, <1>7
  <2>2. QED BY <1>1, <1>2, <1>4, <1>8, <2>1
<1>10. QED BY <1>3, <1>5, <1>8, <1>9 DEF Null

\* What the events are made from.
Lifecycle(o) == Event(<<o.uid>>, <<o.uid>>, o.created, IF o.kind = "Pod" THEN PodFinish(o) ELSE Null)
Ran(pod, c) ==
  Event(<<pod.uid, c>>, <<pod.uid, c>>, pod.containers[c].started,
        IF pod.containers[c].state = "terminated" THEN pod.containers[c].finished ELSE Null)
Happened(e) == Event(<<e.uid>>, <<CHOOSE uid \in e.owners : TRUE>>, e.created, e.created)

LEMMA EventsAre ==
  /\ LifecycleEvents = {Lifecycle(o) : o \in Workloads}
  /\ ContainerEvents = {Ran(pod, c) : pod \in Pods, c \in Containers}
  /\ InvolvedEvents = {Happened(e) : e \in Involved}
<1>1. ASSUME NEW s
      PROVE  /\ ContainerInterval(s)[1] = s.started
             /\ ContainerInterval(s)[2] = IF s.state = "terminated" THEN s.finished ELSE Null
  BY DEF ContainerInterval
<1>2. ContainerEvents = {Ran(pod, c) : pod \in Pods, c \in Containers}
  <2> DEFINE Shown(pod, c) == Event(<<pod.uid, c>>, <<pod.uid, c>>, ContainerInterval(pod.containers[c])[1],
                                    ContainerInterval(pod.containers[c])[2])
  <2>1. ContainerEvents = {Shown(pod, c) : pod \in Pods, c \in Containers} BY DEF ContainerEvents
  <2>2. \A pod \in Pods : \A c \in Containers : Shown(pod, c) = Ran(pod, c) BY <1>1 DEF Ran
  <2>. HIDE DEF Shown
  <2>3. QED BY <2>1, <2>2
<1>3. LifecycleEvents = {Lifecycle(o) : o \in Workloads} BY DEF LifecycleEvents, Lifecycle
<1>4. InvolvedEvents = {Happened(e) : e \in Involved} BY DEF InvolvedEvents, Happened
<1>5. QED BY <1>2, <1>3, <1>4

LEMMA FieldsAre ==
  ASSUME NEW i, NEW n, NEW f, NEW t
  PROVE  /\ Event(i, n, f, t).id = i /\ Event(i, n, f, t).entity = n
         /\ Event(i, n, f, t).started = f /\ Event(i, n, f, t).finished = t
BY DEF Event

LEMMA EventTimes ==
  ASSUME ClusterInv, DOMAIN listed = Kinds, NEW e \in Events, e.started # Null
  PROVE  e.started < clusterClock /\ (e.finished # Null => e.finished \in e.started..clusterClock - 1)
<1>1. clusterClock \in Nat BY DEF ClusterInv, ClusterTypeOK
<1>2. ASSUME NEW o \in Workloads, e = Lifecycle(o)
      PROVE  e.started < clusterClock /\ (e.finished # Null => e.finished \in e.started..clusterClock - 1)
  <2>1. e.started = o.created /\ e.finished = IF o.kind = "Pod" THEN PodFinish(o) ELSE Null BY <1>2, FieldsAre DEF Lifecycle
  <2>2. o.created \in 1..clusterClock - 1 BY Listings DEF ObjectOK
  <2>3. CASE o.kind = "Pod"
    <3>1. o \in Pods BY <2>3, Listings
    <3>2. PodFinish(o) # Null => PodFinish(o) \in o.created..clusterClock - 1 BY <3>1, PodEnds
    <3>3. QED BY <1>1, <2>1, <2>2, <2>3, <3>2
  <2>4. CASE o.kind # "Pod" BY <1>1, <2>1, <2>2, <2>4
  <2>5. QED BY <2>3, <2>4
<1>3. ASSUME NEW pod \in Pods, NEW c \in Containers, e = Ran(pod, c)
      PROVE  e.started < clusterClock /\ (e.finished # Null => e.finished \in e.started..clusterClock - 1)
  <2>1. /\ e.started = pod.containers[c].started
        /\ e.finished = IF pod.containers[c].state = "terminated" THEN pod.containers[c].finished ELSE Null
    BY <1>3, FieldsAre DEF Ran
  <2>2. ObjectOK(pod, clusterClock) BY Listings DEF Workloads
  <2>3. StatusOK(pod.containers[c], pod.created, clusterClock) /\ pod.created \in 1..clusterClock - 1
    BY <2>2 DEF ObjectOK
  <2>4. pod.containers[c].started \in pod.created..clusterClock - 1 BY <2>1, <2>3 DEF StatusOK
  <2>5. pod.containers[c].state = "terminated" => pod.containers[c].finished \in pod.containers[c].started..clusterClock - 1
    BY <2>3 DEF StatusOK
  <2>6. QED BY <1>1, <2>1, <2>3, <2>4, <2>5
<1>4. ASSUME NEW x \in Involved, e = Happened(x)
      PROVE  e.started < clusterClock /\ (e.finished # Null => e.finished \in e.started..clusterClock - 1)
  <2>1. e.started = x.created /\ e.finished = x.created BY <1>4, FieldsAre DEF Happened
  <2>2. x.created \in 1..clusterClock - 1 BY Listings DEF ObjectOK, Involved
  <2>3. QED BY <1>1, <2>1, <2>2
<1>5. QED BY <1>2, <1>3, <1>4, EventsAre DEF Events

LEMMA Tuples ==
  /\ \A u, v : <<u>> = <<v>> => u = v
  /\ \A u, v, c : <<u>> # <<v, c>>
  /\ \A u, v, c, d : <<u, c>> = <<v, d>> => u = v /\ c = d
OBVIOUS

LEMMA OneOfAnId ==
  ASSUME ClusterInv, DOMAIN listed = Kinds, NEW a \in Events, NEW b \in Events, a.id = b.id
  PROVE  a = b
<1>1. \A o \in Workloads : Lifecycle(o).id = <<o.uid>> BY FieldsAre DEF Lifecycle
<1>2. \A pod \in Pods : \A c \in Containers : Ran(pod, c).id = <<pod.uid, c>> BY FieldsAre DEF Ran
<1>3. \A e \in Involved : Happened(e).id = <<e.uid>> BY FieldsAre DEF Happened
<1>4. \A e \in Events : \/ \E o \in Workloads : e = Lifecycle(o)
                        \/ \E pod \in Pods : \E c \in Containers : e = Ran(pod, c)
                        \/ \E x \in Involved : e = Happened(x)
  BY EventsAre DEF Events
<1>5. Pods \subseteq Workloads /\ Involved \subseteq listed["Event"] BY DEF Workloads, Involved
<1>6. \A x \in Workloads \union listed["Event"] : \A y \in Workloads \union listed["Event"] : x.uid = y.uid => x = y
  BY OneOfAUid
<1>7. \A o \in Workloads : o \notin listed["Event"] BY Listings
<1>8. CASE \E o \in Workloads : a = Lifecycle(o)
  <2>1. PICK o \in Workloads : a = Lifecycle(o) BY <1>8
  <2>2. ASSUME NEW p \in Workloads, b = Lifecycle(p) PROVE a = b
    <3>1. o.uid = p.uid BY <1>1, <2>1, <2>2, Tuples
    <3>2. QED BY <1>6, <2>1, <2>2, <3>1
  <2>3. ASSUME NEW pod \in Pods, NEW c \in Containers, b = Ran(pod, c) PROVE FALSE BY <1>1, <1>2, <2>1, <2>3, Tuples
  <2>4. ASSUME NEW x \in Involved, b = Happened(x) PROVE FALSE
    <3>1. o.uid = x.uid BY <1>1, <1>3, <2>1, <2>4, Tuples
    <3>2. QED BY <1>5, <1>6, <1>7, <3>1
  <2>5. QED BY <1>4, <2>2, <2>3, <2>4
<1>9. CASE \E pod \in Pods : \E c \in Containers : a = Ran(pod, c)
  <2>1. PICK pod \in Pods : \E c \in Containers : a = Ran(pod, c) BY <1>9
  <2>2. PICK c \in Containers : a = Ran(pod, c) BY <2>1
  <2>3. ASSUME NEW q \in Pods, NEW d \in Containers, b = Ran(q, d) PROVE a = b
    <3>1. pod.uid = q.uid /\ c = d BY <1>2, <2>2, <2>3, Tuples
    <3>2. pod = q BY <1>5, <1>6, <3>1
    <3>3. QED BY <2>2, <2>3, <3>1, <3>2
  <2>4. ASSUME NEW o \in Workloads, b = Lifecycle(o) PROVE FALSE BY <1>1, <1>2, <2>2, <2>4, Tuples
  <2>5. ASSUME NEW x \in Involved, b = Happened(x) PROVE FALSE BY <1>2, <1>3, <2>2, <2>5, Tuples
  <2>6. QED BY <1>4, <2>3, <2>4, <2>5
<1>10. CASE \E x \in Involved : a = Happened(x)
  <2>1. PICK x \in Involved : a = Happened(x) BY <1>10
  <2>2. ASSUME NEW y \in Involved, b = Happened(y) PROVE a = b
    <3>1. x.uid = y.uid BY <1>3, <2>1, <2>2, Tuples
    <3>2. QED BY <1>5, <1>6, <2>1, <2>2, <3>1
  <2>3. ASSUME NEW pod \in Pods, NEW c \in Containers, b = Ran(pod, c) PROVE FALSE BY <1>2, <1>3, <2>1, <2>3, Tuples
  <2>4. ASSUME NEW o \in Workloads, b = Lifecycle(o) PROVE FALSE
    <3>1. o.uid = x.uid BY <1>1, <1>3, <2>1, <2>4, Tuples
    <3>2. QED BY <1>5, <1>6, <1>7, <3>1
  <2>5. QED BY <1>4, <2>2, <2>3, <2>4
<1>11. QED BY <1>4, <1>8, <1>9, <1>10

LEMMA SameNumber ==
  ASSUME NEW S, IsFiniteSet(S), \A a \in S : \A b \in S : a.id = b.id => a = b
  PROVE  Cardinality({e.id : e \in S}) = Cardinality(S)
<1> DEFINE T == {e.id : e \in S}
           g == [e \in S |-> e.id]
<1>1. g \in Surjection(S, T) BY DEF Surjection
<1>2. g \in Injection(S, T) BY DEF Injection, IsInjective
<1>3. QED BY <1>1, <1>2, FS_Surjection

LEMMA FiniteEvents ==
  ASSUME ClusterInv, DOMAIN listed = Kinds
  PROVE  IsFiniteSet(Events)
<1>1. IsFiniteSet(LifecycleEvents)
  <2> DEFINE f == [o \in Workloads |-> Lifecycle(o)]
  <2>1. IsFiniteSet({f[o] : o \in Workloads})
    <3>. HIDE DEF f
    <3>1. QED BY Listings, FiniteImage
  <2>2. LifecycleEvents = {f[o] : o \in Workloads} BY EventsAre
  <2>3. QED BY <2>1, <2>2
<1>2. IsFiniteSet(ContainerEvents)
  <2> DEFINE P == Pods \X Containers
             f == [pc \in P |-> Ran(pc[1], pc[2])]
  <2>1. IsFiniteSet(P) BY Listings, ContainersAssumption, FS_Product DEF ContainersAssumption
  <2>2. IsFiniteSet({f[pc] : pc \in P})
    <3>. HIDE DEF f, P
    <3>1. QED BY <2>1, FiniteImage
  <2>3. ASSUME NEW pod \in Pods, NEW c \in Containers PROVE <<pod, c>> \in P /\ f[<<pod, c>>] = Ran(pod, c) OBVIOUS
  <2>4. ASSUME NEW pc \in P PROVE \E pod \in Pods : \E c \in Containers : f[pc] = Ran(pod, c) OBVIOUS
  <2>. HIDE DEF f, P
  <2>5. ContainerEvents = {f[pc] : pc \in P}
    <3>1. ContainerEvents = {Ran(pod, c) : pod \in Pods, c \in Containers} BY EventsAre
    <3>2. ASSUME NEW e \in ContainerEvents PROVE e \in {f[pc] : pc \in P}
      <4>1. PICK pod \in Pods, c \in Containers : e = Ran(pod, c) BY <3>1
      <4>2. QED BY <2>3, <4>1
    <3>3. ASSUME NEW pc \in P PROVE f[pc] \in ContainerEvents BY <2>4, <3>1
    <3>4. QED BY <3>2, <3>3
  <2>6. QED BY <2>2, <2>5
<1>3. IsFiniteSet(InvolvedEvents)
  <2> DEFINE f == [e \in Involved |-> Happened(e)]
  <2>1. IsFiniteSet(Involved)
    <3>1. IsFiniteSet(listed["Event"]) /\ Involved \in SUBSET listed["Event"] BY Listings DEF Involved
    <3>2. QED BY <3>1, FS_Subset
  <2>2. IsFiniteSet({f[e] : e \in Involved})
    <3>. HIDE DEF f
    <3>1. QED BY <2>1, FiniteImage
  <2>3. InvolvedEvents = {f[e] : e \in Involved} BY EventsAre
  <2>4. QED BY <2>2, <2>3
<1>4. IsFiniteSet(LifecycleEvents \union ContainerEvents) BY <1>1, <1>2, FS_Union
<1>5. QED BY <1>3, <1>4, FS_Union DEF Events

(* What an edge leads from and to is there.                                *)
LEMMA EdgesAreWhole ==
  ASSUME ClusterInv, DOMAIN listed = Kinds, NEW edge \in Hosts \union Owns \union Holds \union Emits
  PROVE  edge[1] \in EventIds /\ edge[2] \in EventIds
<1>1. \A o \in Workloads : <<o.uid>> \in EventIds
  <2>1. \A o \in Workloads : Lifecycle(o) \in Events BY EventsAre DEF Events
  <2>2. \A o \in Workloads : Lifecycle(o).id = <<o.uid>> BY FieldsAre DEF Lifecycle
  <2>3. QED BY <2>1, <2>2 DEF EventIds
<1>2. \A pod \in Pods : \A c \in Containers : <<pod.uid, c>> \in EventIds
  <2>1. \A pod \in Pods : \A c \in Containers : Ran(pod, c) \in Events BY EventsAre DEF Events
  <2>2. \A pod \in Pods : \A c \in Containers : Ran(pod, c).id = <<pod.uid, c>> BY FieldsAre DEF Ran
  <2>3. QED BY <2>1, <2>2 DEF EventIds
<1>3. \A e \in Involved : <<e.uid>> \in EventIds
  <2>1. \A e \in Involved : Happened(e) \in Events BY EventsAre DEF Events
  <2>2. \A e \in Involved : Happened(e).id = <<e.uid>> BY FieldsAre DEF Happened
  <2>3. QED BY <2>1, <2>2 DEF EventIds
<1>4. \A uid \in Uids : <<uid>> \in EventIds BY <1>1 DEF Uids
<1>5. \A from, to : <<from, to>>[1] = from /\ <<from, to>>[2] = to OBVIOUS
<1>6. CASE edge \in Hosts
  <2>1. PICK node \in Nodes, pod \in {p \in Pods : p.node # Null} : edge = <<<<node.uid>>, <<pod.uid>>>> BY <1>6 DEF Hosts
  <2>2. <<node.uid>> \in EventIds /\ <<pod.uid>> \in EventIds BY <1>1 DEF Workloads
  <2>3. QED BY <1>5, <2>1, <2>2
<1>7. CASE edge \in Owns
  <2>1. PICK o \in Workloads : OwnerUid(o) \in Uids /\ edge = <<<<OwnerUid(o)>>, <<o.uid>>>> BY <1>7 DEF Owns
  <2>2. <<OwnerUid(o)>> \in EventIds /\ <<o.uid>> \in EventIds BY <1>1, <1>4, <2>1
  <2>3. QED BY <1>5, <2>1, <2>2
<1>8. CASE edge \in Holds
  <2>1. PICK pod \in Pods, c \in Containers : edge = <<<<pod.uid>>, <<pod.uid, c>>>> BY <1>8 DEF Holds
  <2>2. <<pod.uid>> \in EventIds /\ <<pod.uid, c>> \in EventIds BY <1>1, <1>2 DEF Workloads
  <2>3. QED BY <1>5, <2>1, <2>2
<1>9. CASE edge \in Emits
  <2>1. PICK e \in Involved : edge = <<<<CHOOSE uid \in e.owners : TRUE>>, <<e.uid>>>> BY <1>9 DEF Emits
  <2>2. e.owners \subseteq Uids /\ e \in listed["Event"] BY DEF Involved
  <2>3. e.owners # {} BY <2>2, Listings DEF ObjectOK
  <2>4. (CHOOSE uid \in e.owners : TRUE) \in Uids BY <2>2, <2>3
  <2>5. <<CHOOSE uid \in e.owners : TRUE>> \in EventIds /\ <<e.uid>> \in EventIds BY <1>3, <1>4, <2>4
  <2>6. QED BY <1>5, <2>1, <2>5
<1>10. QED BY <1>6, <1>7, <1>8, <1>9

(* A pod that says on which node it is, is on that one if it is there.     *)
LEMMA HostIsTheNode ==
  ASSUME ClusterInv, DOMAIN listed = Kinds, NEW pod \in Pods, pod.node \in Uids
  PROVE  {e[1] : e \in {h \in Hosts : h[2] = <<pod.uid>>}} = {<<pod.node>>}
<1>1. PICK node \in Workloads : node.uid = pod.node BY DEF Uids
<1>2. ObjectOK(node, clusterClock) /\ PlacedOK(node, objects) /\ PlacedOK(pod, objects) BY Listings DEF Workloads
<1>3. pod.node # Null BY <1>1, <1>2 DEF ObjectOK, Null
<1>4. node.kind = "Node" BY <1>1, <1>2, <1>3 DEF PlacedOK
<1>5. Nodes = {node} BY <1>4, Listings
<1>6. \A from, to : <<from, to>>[1] = from /\ <<from, to>>[2] = to OBVIOUS
<1>7. Hosts = {<<<<pod.node>>, <<p.uid>>>> : p \in {q \in Pods : q.node # Null}}
  BY <1>1, <1>5 DEF Hosts
<1>8. <<<<pod.node>>, <<pod.uid>>>> \in {h \in Hosts : h[2] = <<pod.uid>>} BY <1>3, <1>6, <1>7
<1>9. \A h \in Hosts : h[1] = <<pod.node>> BY <1>6, <1>7
<1>10. QED BY <1>6, <1>8, <1>9

\* A container runs after its pod was created, and ends before the pod does.
LEMMA ContainersRanInPod ==
  ASSUME ClusterInv, DOMAIN listed = Kinds, NEW pod \in Pods,
         NEW x \in ContainerEvents, x.id[1] = pod.uid
  PROVE  /\ x.started # Null => pod.created <= x.started
         /\ PodFinish(pod) # Null => x.finished # Null /\ x.finished \in x.started..PodFinish(pod)
<1>1. PICK q \in Pods, c \in Containers : x = Ran(q, c) BY EventsAre
<1>2. /\ Ran(q, c).id = <<q.uid, c>> /\ Ran(q, c).started = q.containers[c].started
      /\ Ran(q, c).finished = IF q.containers[c].state = "terminated" THEN q.containers[c].finished ELSE Null
  BY FieldsAre DEF Ran
<1>3. x.id[1] = q.uid BY <1>1, <1>2
<1>4. q = pod BY <1>3, OneOfAUid DEF Workloads
<1>5. /\ x.started = pod.containers[c].started
      /\ x.finished = IF pod.containers[c].state = "terminated" THEN pod.containers[c].finished ELSE Null
  BY <1>1, <1>2, <1>4
<1>6. PodFinish(pod) # Null => x.finished # Null /\ x.finished \in x.started..PodFinish(pod) BY <1>5, PodEnds
<1>7. ASSUME x.started # Null PROVE pod.created <= x.started
  <2>1. ObjectOK(pod, clusterClock) /\ clusterClock \in Nat BY Listings DEF Workloads, ClusterInv, ClusterTypeOK
  <2>2. StatusOK(pod.containers[c], pod.created, clusterClock) /\ pod.created \in 1..clusterClock - 1
    BY <2>1 DEF ObjectOK
  <2>3. x.started \in pod.created..clusterClock - 1 BY <1>5, <1>7, <2>2 DEF StatusOK
  <2>4. QED BY <2>1, <2>2, <2>3
<1>8. QED BY <1>6, <1>7

(* Whatever happens between the listings, what is imported of them is      *)
(* whole and happened.                                                     *)
THEOREM TrueSnapshots == ClusterSpec => []SnapshotIsTrue
<1>1. ClusterInv => SnapshotIsTrue
  <2>1. SUFFICES ASSUME ClusterInv, DOMAIN listed = Kinds
                 PROVE  /\ ListingsAccepted
                        /\ Cardinality(EventIds) = Cardinality(Events)
                        /\ \A e \in Hosts \union Owns \union Holds \union Emits : e[1] \in EventIds /\ e[2] \in EventIds
                        /\ \A uid \in Uids : Entities[uid] \in Uids \union {Null}
                        /\ \A pod \in Pods :
                             /\ pod.node \in Uids => {e[1] : e \in {h \in Hosts : h[2] = <<pod.uid>>}} = {<<pod.node>>}
                             /\ \A e \in {x \in ContainerEvents : x.id[1] = pod.uid} :
                                  /\ e.started # Null => pod.created <= e.started
                                  /\ PodFinish(pod) # Null => e.finished # Null /\ e.finished \in e.started..PodFinish(pod)
                        /\ \A e \in Events : e.started # Null =>
                             e.started < clusterClock /\ (e.finished # Null => e.finished \in e.started..clusterClock - 1)
                        /\ EveryEventFollowsFromARoot
    BY DEF SnapshotIsTrue
  <2>2. ListingsAccepted BY <2>1, SnapshotIsAccepted
  <2>3. Cardinality(EventIds) = Cardinality(Events) BY <2>1, OneOfAnId, FiniteEvents, SameNumber DEF EventIds
  <2>4. \A e \in Hosts \union Owns \union Holds \union Emits : e[1] \in EventIds /\ e[2] \in EventIds BY <2>1, EdgesAreWhole
  <2>5. \A uid \in Uids : Entities[uid] \in Uids \union {Null} BY DEF Entities
  <2>6. ASSUME NEW pod \in Pods
        PROVE  /\ pod.node \in Uids => {e[1] : e \in {h \in Hosts : h[2] = <<pod.uid>>}} = {<<pod.node>>}
               /\ \A e \in {x \in ContainerEvents : x.id[1] = pod.uid} :
                    /\ e.started # Null => pod.created <= e.started
                    /\ PodFinish(pod) # Null => e.finished # Null /\ e.finished \in e.started..PodFinish(pod)
    <3>1. pod.node \in Uids => {e[1] : e \in {h \in Hosts : h[2] = <<pod.uid>>}} = {<<pod.node>>} BY <2>1, HostIsTheNode
    <3>2. ASSUME NEW e \in {x \in ContainerEvents : x.id[1] = pod.uid}
          PROVE  /\ e.started # Null => pod.created <= e.started
                 /\ PodFinish(pod) # Null => e.finished # Null /\ e.finished \in e.started..PodFinish(pod)
      BY <2>1, ContainersRanInPod
    <3>3. QED BY <3>1, <3>2
  <2>7. \A e \in Events : e.started # Null =>
          e.started < clusterClock /\ (e.finished # Null => e.finished \in e.started..clusterClock - 1)
    BY <2>1, EventTimes
  <2>8. QED BY <2>2, <2>3, <2>4, <2>5, <2>6, <2>7, EventsFollow
<1>2. QED BY <1>1, ClusterInductive, PTL

-----------------------------------------------------------------------------
(* The history of a workflow.                                              *)

EventTypes == {"workflow_started", "scheduled", "started", "workflow_ended"} \union Outcomes
HistoryEvents ==
  [type : EventTypes, id : Nat, name : ActivityNames \union {NoEvent}, scheduled : Nat, started : Nat, attempt : Nat]
ActivityRecords ==
  [name : ActivityNames \union {NoEvent}, began : Nat, ended : Nat, outcome : Outcomes \union {"none"}, attempt : Nat]

HistoryTypeOK ==
  /\ workflow \in Seq(HistoryEvents) /\ tasks \in [DOMAIN tasks -> ActivityRecords]
  /\ workerSpans \in Seq([name : ActivityNames, task : Nat])
  /\ \A m \in missing : m \in DOMAIN workflow /\ missing = {m}

\* What an event says is what has become of its activity.
EventOK(i, e, acts) ==
  /\ e.id = i
  /\ e.type = "workflow_started" => i = 1
  /\ e.type = "scheduled" => i \in DOMAIN acts /\ acts[i].name = e.name
  /\ e.type = "started" => /\ e.scheduled \in DOMAIN acts /\ e.scheduled < i
                           /\ acts[e.scheduled].began = i /\ acts[e.scheduled].attempt = e.attempt
  /\ e.type \in Outcomes => /\ e.scheduled \in DOMAIN acts /\ e.scheduled < i
                            /\ acts[e.scheduled].ended = i /\ acts[e.scheduled].outcome = e.type
                            /\ acts[e.scheduled].began = e.started /\ e.started < i

\* And what has become of an activity some event says.
ActivityOK(t, a, written) ==
  /\ t \in DOMAIN written /\ written[t].type = "scheduled"
  /\ IF a.began = NoEvent THEN a.attempt = NoEvent
     ELSE a.began \in DOMAIN written /\ written[a.began].type = "started" /\ written[a.began].scheduled = t
  /\ IF a.ended = NoEvent THEN a.outcome = "none"
     ELSE /\ a.ended \in DOMAIN written /\ written[a.ended].type = a.outcome /\ written[a.ended].scheduled = t
          /\ a.outcome \in Outcomes /\ (a.began = NoEvent => a.outcome \in {"timed_out", "canceled"})

WorkflowInv ==
  /\ \A i \in DOMAIN workflow : EventOK(i, workflow[i], tasks)
  /\ \A i \in DOMAIN workflow : workflow[i].type = "workflow_ended" => i = Len(workflow)
  /\ workflow # <<>> => workflow[1].type = "workflow_started"
  /\ \A t \in DOMAIN tasks : ActivityOK(t, tasks[t], workflow)

SpanInv ==
  \A i \in DOMAIN workerSpans : workerSpans[i].task # NoEvent =>
    workerSpans[i].task \in DOMAIN tasks /\ tasks[workerSpans[i].task].name = workerSpans[i].name

HistoryInv == HistoryTypeOK /\ WorkflowInv /\ SpanInv

-----------------------------------------------------------------------------
(* What is known of an activity does not change.                           *)

Grown ==
  \A t \in DOMAIN tasks :
    /\ t \in DOMAIN tasks' /\ tasks'[t].name = tasks[t].name
    /\ tasks[t].began # NoEvent => tasks'[t].began = tasks[t].began /\ tasks'[t].attempt = tasks[t].attempt
    /\ tasks[t].ended # NoEvent => /\ tasks'[t].ended = tasks[t].ended /\ tasks'[t].outcome = tasks[t].outcome
                                   /\ tasks'[t].began = tasks[t].began

LEMMA EventStays ==
  ASSUME Grown, NEW i \in Nat \ {0}, NEW e, EventOK(i, e, tasks)
  PROVE  EventOK(i, e, tasks')
BY DEF Grown, EventOK, NoEvent

LEMMA ActivityStays ==
  ASSUME NEW s \in Seq(HistoryEvents), NEW e \in HistoryEvents, NEW t, NEW a, ActivityOK(t, a, s)
  PROVE  ActivityOK(t, a, Append(s, e))
<1>1. /\ DOMAIN s = 1..Len(s) /\ DOMAIN Append(s, e) = 1..(Len(s) + 1) /\ Len(s) \in Nat
      /\ \A i \in DOMAIN s : i \in DOMAIN Append(s, e) /\ Append(s, e)[i] = s[i]
  OBVIOUS
<1>2. QED BY <1>1 DEF ActivityOK

\* The server writes an event: of an activity, it says what has become of it.
LEMMA EventWritten ==
  ASSUME HistoryInv, NEW e \in HistoryEvents, workflow' = Append(workflow, e),
         missing' = missing, workerSpans' = workerSpans, tasks' \in [DOMAIN tasks' -> ActivityRecords], Grown,
         EventOK(Len(workflow) + 1, e, tasks'), \A t \in DOMAIN tasks' : ActivityOK(t, tasks'[t], workflow'),
         IF workflow = <<>> THEN e.type = "workflow_started" ELSE Running
  PROVE  HistoryInv'
<1> DEFINE n == Len(workflow) + 1
<1>1. workflow \in Seq(HistoryEvents) /\ Len(workflow) \in Nat /\ DOMAIN workflow = 1..Len(workflow)
  BY DEF HistoryInv, HistoryTypeOK
<1>2. /\ workflow' \in Seq(HistoryEvents) /\ Len(workflow') = n /\ DOMAIN workflow' = 1..n /\ workflow'[n] = e
      /\ \A i \in DOMAIN workflow : workflow'[i] = workflow[i]
  BY <1>1
<1>3. HistoryTypeOK' BY <1>1, <1>2 DEF HistoryInv, HistoryTypeOK
<1>4. ASSUME NEW i \in DOMAIN workflow' PROVE EventOK(i, workflow'[i], tasks')
  <2>1. CASE i = n BY <1>2, <2>1
  <2>2. CASE i # n
    <3>1. i \in DOMAIN workflow /\ i \in Nat \ {0} BY <1>1, <1>2, <2>2
    <3>2. EventOK(i, workflow[i], tasks) BY <3>1 DEF HistoryInv, WorkflowInv
    <3>3. QED BY <1>2, <3>1, <3>2, EventStays
  <2>3. QED BY <2>1, <2>2
<1>5. ASSUME NEW i \in DOMAIN workflow', workflow'[i].type = "workflow_ended" PROVE i = Len(workflow')
  <2>1. SUFFICES ASSUME i # n PROVE FALSE BY <1>2
  <2>2. i \in DOMAIN workflow /\ workflow[i].type = "workflow_ended" BY <1>1, <1>2, <1>5, <2>1
  <2>3. i = Len(workflow) BY <2>2 DEF HistoryInv, WorkflowInv
  <2>4. workflow # <<>> /\ Last(workflow) = workflow[i] BY <1>1, <2>2, <2>3 DEF Last
  <2>5. QED BY <2>2, <2>4 DEF Running
<1>6. workflow'[1].type = "workflow_started"
  <2>1. CASE workflow = <<>> BY <1>1, <1>2, <2>1
  <2>2. CASE workflow # <<>>
    <3>1. 1 \in DOMAIN workflow BY <1>1, <2>2
    <3>2. QED BY <1>2, <2>2, <3>1 DEF HistoryInv, WorkflowInv
  <2>3. QED BY <2>1, <2>2
<1>7. WorkflowInv' BY <1>4, <1>5, <1>6 DEF WorkflowInv
<1>8. SpanInv' BY DEF HistoryInv, SpanInv, Grown
<1>9. QED BY <1>3, <1>7, <1>8 DEF HistoryInv

LEMMA HistoryFacts ==
  ASSUME HistoryInv
  PROVE  /\ workflow \in Seq(HistoryEvents) /\ Len(workflow) \in Nat /\ DOMAIN workflow = 1..Len(workflow)
         /\ tasks \in [DOMAIN tasks -> ActivityRecords]
         /\ \A i \in DOMAIN workflow : workflow[i] \in HistoryEvents /\ EventOK(i, workflow[i], tasks)
         /\ \A t \in DOMAIN tasks : t \in DOMAIN workflow /\ tasks[t] \in ActivityRecords /\ ActivityOK(t, tasks[t], workflow)
BY DEF HistoryInv, HistoryTypeOK, WorkflowInv, ActivityOK

\* An event of the workflow itself.
LEMMA OwnEvent ==
  ASSUME HistoryInv, NEW type \in {"workflow_started", "workflow_ended"}, Writes(NewEvent(type)),
         UNCHANGED <<tasks, missing, workerSpans>>, IF workflow = <<>> THEN type = "workflow_started" ELSE Running,
         type = "workflow_started" => workflow = <<>>
  PROVE  HistoryInv'
<1> DEFINE e == NewEvent(type)
<1>1. e \in HistoryEvents /\ e.type = type /\ e.id = Len(workflow) + 1
  BY HistoryFacts DEF HistoryEvents, NewEvent, NoEvent, EventTypes
<1>2. workflow' = Append(workflow, e) BY DEF Writes
<1>. HIDE DEF e
<1>3. EventOK(Len(workflow) + 1, e, tasks')
  <2>1. workflow = <<>> => Len(workflow) + 1 = 1 OBVIOUS
  <2>2. type \notin Outcomes BY DEF Outcomes
  <2>3. QED BY <1>1, <2>1, <2>2 DEF EventOK
<1>4. \A t \in DOMAIN tasks' : ActivityOK(t, tasks'[t], workflow') BY <1>1, <1>2, HistoryFacts, ActivityStays
<1>5. Grown BY DEF Grown
<1>6. tasks' \in [DOMAIN tasks' -> ActivityRecords] BY HistoryFacts
<1>7. QED BY <1>1, <1>2, <1>3, <1>4, <1>5, <1>6, EventWritten

LEMMA ScheduleStep ==
  ASSUME HistoryInv, NEW label \in ActivityNames, ScheduleActivity(label)
  PROVE  HistoryInv'
<1> DEFINE n == Len(workflow) + 1
           e == [NewEvent("scheduled") EXCEPT !.name = label]
           a == [name |-> label, began |-> NoEvent, ended |-> NoEvent, outcome |-> "none", attempt |-> NoEvent]
<1>1. /\ e \in HistoryEvents /\ e.type = "scheduled" /\ e.id = n /\ e.name = label /\ n \in Nat
  BY HistoryFacts DEF HistoryEvents, NewEvent, NoEvent, EventTypes
<1>2. /\ Running /\ workflow' = Append(workflow, e) /\ missing' = missing /\ workerSpans' = workerSpans
      /\ tasks' = [i \in DOMAIN tasks \union {e.id} |-> IF i \in DOMAIN tasks THEN tasks[i] ELSE a]
  BY DEF ScheduleActivity, Writes
<1>3. /\ a \in ActivityRecords /\ a.name = label /\ a.began = NoEvent /\ a.ended = NoEvent /\ a.outcome = "none"
      /\ a.attempt = NoEvent
  BY DEF ActivityRecords, NoEvent
<1>. HIDE DEF e, a
<1>4. n \notin DOMAIN tasks BY HistoryFacts
<1>. HIDE DEF n
<1>5. /\ DOMAIN tasks' = DOMAIN tasks \union {n} /\ tasks'[n] = a /\ \A t \in DOMAIN tasks : tasks'[t] = tasks[t]
      /\ tasks' \in [DOMAIN tasks' -> ActivityRecords]
  BY <1>1, <1>2, <1>3, <1>4, HistoryFacts
<1>6. Grown BY <1>5 DEF Grown
<1>7. EventOK(n, e, tasks') BY <1>1, <1>3, <1>5 DEF EventOK, Outcomes
<1>8. workflow'[n] = e /\ n \in DOMAIN workflow' BY <1>1, <1>2, HistoryFacts DEF n
<1>9. ASSUME NEW t \in DOMAIN tasks' PROVE ActivityOK(t, tasks'[t], workflow')
  <2>1. CASE t = n BY <1>1, <1>3, <1>5, <1>8, <2>1 DEF ActivityOK
  <2>2. CASE t # n
    <3>1. t \in DOMAIN tasks /\ tasks'[t] = tasks[t] BY <1>5, <2>2
    <3>2. QED BY <1>1, <1>2, <3>1, HistoryFacts, ActivityStays
  <2>3. QED BY <2>1, <2>2
<1>10. workflow # <<>> BY <1>2 DEF Running
<1>11. QED BY <1>1, <1>2, <1>5, <1>6, <1>7, <1>9, <1>10, EventWritten DEF n

LEMMA StartStep ==
  ASSUME HistoryInv, NEW t \in DOMAIN tasks, NEW attempt \in 1..2, StartActivity(t, attempt)
  PROVE  HistoryInv'
<1> DEFINE n == Len(workflow) + 1
           e == [NewEvent("started") EXCEPT !.scheduled = t, !.attempt = attempt]
           a == [tasks[t] EXCEPT !.began = n, !.attempt = attempt]
<1>1. t \in DOMAIN workflow /\ t \in 1..Len(workflow) /\ n \in Nat /\ t < n /\ n # 0 /\ tasks[t] \in ActivityRecords
  BY HistoryFacts
<1>2. e \in HistoryEvents /\ e.type = "started" /\ e.id = n /\ e.scheduled = t /\ e.attempt = attempt
  <2>1. t \in Nat /\ attempt \in Nat BY <1>1
  <2>2. QED BY <1>1, <2>1 DEF HistoryEvents, NewEvent, NoEvent, EventTypes
<1>3. /\ Running /\ workflow' = Append(workflow, e) /\ missing' = missing /\ workerSpans' = workerSpans
      /\ tasks[t].began = NoEvent /\ tasks[t].ended = NoEvent
      /\ tasks' = [tasks EXCEPT ![t].began = e.id, ![t].attempt = attempt]
  BY DEF StartActivity, Writes
<1>4. /\ a \in ActivityRecords /\ a.began = n /\ a.attempt = attempt
      /\ a.name = tasks[t].name /\ a.ended = tasks[t].ended /\ a.outcome = tasks[t].outcome
  <2>. HIDE DEF n
  <2>1. n \in Nat /\ attempt \in Nat BY <1>1
  <2>2. QED BY <1>1, <2>1 DEF ActivityRecords
<1>5. tasks' = [tasks EXCEPT ![t] = a] BY <1>2, <1>3, HistoryFacts
<1>. HIDE DEF e, a, n
<1>6. /\ DOMAIN tasks' = DOMAIN tasks /\ tasks'[t] = a /\ \A u \in DOMAIN tasks : u # t => tasks'[u] = tasks[u]
      /\ tasks' \in [DOMAIN tasks' -> ActivityRecords]
  BY <1>4, <1>5, HistoryFacts
<1>7. Grown BY <1>3, <1>4, <1>6 DEF Grown
<1>8. EventOK(n, e, tasks') BY <1>1, <1>2, <1>4, <1>6 DEF EventOK, Outcomes
<1>9. workflow'[n] = e /\ n \in DOMAIN workflow' BY <1>1, <1>2, <1>3, HistoryFacts DEF n
<1>10. \A u \in DOMAIN tasks : ActivityOK(u, tasks[u], workflow') BY <1>2, <1>3, HistoryFacts, ActivityStays
<1>11. ActivityOK(t, a, workflow')
  <2>1. ActivityOK(t, tasks[t], workflow') BY <1>10
  <2>2. QED BY <1>1, <1>2, <1>3, <1>4, <1>9, <2>1 DEF ActivityOK, NoEvent
<1>12. \A u \in DOMAIN tasks' : ActivityOK(u, tasks'[u], workflow') BY <1>6, <1>10, <1>11
<1>13. workflow # <<>> BY <1>3 DEF Running
<1>14. QED BY <1>2, <1>3, <1>6, <1>7, <1>8, <1>12, <1>13, EventWritten DEF n

LEMMA CloseStep ==
  ASSUME HistoryInv, NEW t \in DOMAIN tasks, NEW outcome \in Outcomes, CloseActivity(t, outcome)
  PROVE  HistoryInv'
<1> DEFINE n == Len(workflow) + 1
           e == [NewEvent(outcome) EXCEPT !.scheduled = t, !.started = tasks[t].began]
           a == [tasks[t] EXCEPT !.ended = n, !.outcome = outcome]
<1>1. t \in DOMAIN workflow /\ t \in 1..Len(workflow) /\ n \in Nat /\ t < n /\ n # 0 /\ tasks[t] \in ActivityRecords
  BY HistoryFacts
<1>2. e \in HistoryEvents /\ e.type = outcome /\ e.id = n /\ e.scheduled = t /\ e.started = tasks[t].began
  <2>1. t \in Nat /\ tasks[t].began \in Nat /\ outcome \in EventTypes BY <1>1 DEF ActivityRecords, EventTypes
  <2>2. QED BY <1>1, <2>1 DEF HistoryEvents, NewEvent, NoEvent
<1>3. /\ Running /\ workflow' = Append(workflow, e) /\ missing' = missing /\ workerSpans' = workerSpans
      /\ tasks[t].ended = NoEvent /\ (tasks[t].began = NoEvent => outcome \in {"timed_out", "canceled"})
      /\ tasks' = [tasks EXCEPT ![t].ended = e.id, ![t].outcome = outcome]
  BY DEF CloseActivity, Writes
<1>4. /\ a \in ActivityRecords /\ a.ended = n /\ a.outcome = outcome
      /\ a.name = tasks[t].name /\ a.began = tasks[t].began /\ a.attempt = tasks[t].attempt
  BY <1>1 DEF ActivityRecords
<1>5. tasks' = [tasks EXCEPT ![t] = a] BY <1>2, <1>3, HistoryFacts
<1>6. tasks[t].began < n
  <2>1. ActivityOK(t, tasks[t], workflow) BY HistoryFacts
  <2>2. QED BY <1>1, <2>1, HistoryFacts DEF ActivityOK, NoEvent
<1>. HIDE DEF e, a, n
<1>7. /\ DOMAIN tasks' = DOMAIN tasks /\ tasks'[t] = a /\ \A u \in DOMAIN tasks : u # t => tasks'[u] = tasks[u]
      /\ tasks' \in [DOMAIN tasks' -> ActivityRecords]
  BY <1>4, <1>5, HistoryFacts
<1>8. Grown BY <1>3, <1>4, <1>7 DEF Grown
<1>9. EventOK(n, e, tasks') BY <1>1, <1>2, <1>4, <1>6, <1>7 DEF EventOK, Outcomes
<1>10. workflow'[n] = e /\ n \in DOMAIN workflow' BY <1>1, <1>2, <1>3, HistoryFacts DEF n
<1>11. \A u \in DOMAIN tasks : ActivityOK(u, tasks[u], workflow') BY <1>2, <1>3, HistoryFacts, ActivityStays
<1>12. ActivityOK(t, a, workflow')
  <2>1. ActivityOK(t, tasks[t], workflow') BY <1>11
  <2>2. QED BY <1>1, <1>2, <1>3, <1>4, <1>10, <2>1 DEF ActivityOK, NoEvent
<1>13. \A u \in DOMAIN tasks' : ActivityOK(u, tasks'[u], workflow') BY <1>7, <1>11, <1>12
<1>14. workflow # <<>> BY <1>3 DEF Running
<1>15. QED BY <1>2, <1>3, <1>7, <1>8, <1>9, <1>13, <1>14, EventWritten DEF n

LEMMA HistoryInductive == HistorySpec => []HistoryInv
<1>1. HistoryInit => HistoryInv
  <2>1. ASSUME HistoryInit PROVE workflow = <<>> /\ DOMAIN workflow = {} /\ DOMAIN tasks = {} /\ DOMAIN workerSpans = {}
                                 /\ missing = {} /\ workflow \in Seq(HistoryEvents) /\ tasks \in [DOMAIN tasks -> ActivityRecords]
    BY <2>1 DEF HistoryInit
  <2>2. QED BY <2>1 DEF HistoryInv, HistoryTypeOK, WorkflowInv, SpanInv
<1>2. HistoryInv /\ [HistoryNext]_historyVars => HistoryInv'
  <2>1. SUFFICES ASSUME HistoryInv, [HistoryNext]_historyVars PROVE HistoryInv' OBVIOUS
  <2>2. CASE StartWorkflow BY <2>1, <2>2, OwnEvent DEF StartWorkflow
  <2>3. CASE EndWorkflow
    <3>1. Running /\ workflow # <<>> BY <2>3 DEF EndWorkflow, Running
    <3>2. QED BY <2>1, <2>3, <3>1, OwnEvent DEF EndWorkflow
  <2>4. CASE Lose
    <3>1. PICK m \in DOMAIN workflow : missing' = {m} BY <2>4 DEF Lose
    <3>2. UNCHANGED <<tasks, workflow, workerSpans>> BY <2>4 DEF Lose
    <3>3. HistoryTypeOK' BY <2>1, <3>1, <3>2 DEF HistoryInv, HistoryTypeOK
    <3>4. WorkflowInv' /\ SpanInv' BY <2>1, <3>2 DEF HistoryInv, WorkflowInv, SpanInv
    <3>5. QED BY <3>3, <3>4 DEF HistoryInv
  <2>5. ASSUME NEW label \in ActivityNames, ScheduleActivity(label) PROVE HistoryInv' BY <2>1, <2>5, ScheduleStep
  <2>6. ASSUME NEW label \in ActivityNames, NEW t \in {NoEvent} \union DOMAIN tasks, Span(label, t) PROVE HistoryInv'
    <3>1. /\ UNCHANGED <<tasks, workflow, missing>> /\ workerSpans' = Append(workerSpans, [name |-> label, task |-> t])
          /\ t # NoEvent => tasks[t].name = label
      BY <2>6 DEF Span
    <3>2. HistoryTypeOK' /\ WorkflowInv'
      <4>1. t \in Nat BY <2>1, HistoryFacts DEF NoEvent
      <4>2. workerSpans' \in Seq([name : ActivityNames, task : Nat]) BY <2>1, <3>1, <4>1 DEF HistoryInv, HistoryTypeOK
      <4>3. QED BY <2>1, <3>1, <4>2 DEF HistoryInv, HistoryTypeOK, WorkflowInv
    <3>3. SpanInv'
      <4>1. ASSUME NEW i \in DOMAIN workerSpans'
            PROVE  (i \in DOMAIN workerSpans /\ workerSpans'[i] = workerSpans[i]) \/ workerSpans'[i] = [name |-> label, task |-> t]
        BY <2>1, <3>1 DEF HistoryInv, HistoryTypeOK
      <4>2. QED BY <2>1, <3>1, <4>1 DEF HistoryInv, SpanInv
    <3>4. QED BY <3>2, <3>3 DEF HistoryInv
  <2>7. ASSUME NEW t \in DOMAIN tasks, NEW attempt \in 1..2, StartActivity(t, attempt) PROVE HistoryInv'
    BY <2>1, <2>7, StartStep
  <2>8. ASSUME NEW t \in DOMAIN tasks, NEW outcome \in Outcomes, CloseActivity(t, outcome) PROVE HistoryInv'
    BY <2>1, <2>8, CloseStep
  <2>9. CASE UNCHANGED historyVars
    BY <2>1, <2>9 DEF historyVars, HistoryInv, HistoryTypeOK, WorkflowInv, SpanInv
  <2>10. QED BY <2>1, <2>2, <2>3, <2>4, <2>5, <2>6, <2>7, <2>8, <2>9 DEF HistoryNext
<1>3. QED BY <1>1, <1>2, PTL DEF HistorySpec

-----------------------------------------------------------------------------
(* What is exported, and what it says.                                     *)

LEMMA Removed ==
  ASSUME NEW S, NEW s \in Seq(S), NEW m \in 1..Len(s)
  PROVE  /\ DOMAIN RemoveAt(s, m) = 1..Len(s) - 1
         /\ \A k \in 1..Len(s) - 1 : RemoveAt(s, m)[k] = s[IF k < m THEN k ELSE k + 1]
<1> DEFINE low == SubSeq(s, 1, m - 1)
           high == SubSeq(s, m + 1, Len(s))
<1>1. Len(s) \in Nat /\ m \in Nat /\ m <= Len(s) /\ m >= 1 /\ \A i \in 1..Len(s) : s[i] \in S OBVIOUS
<1>2. low \in Seq(S) /\ Len(low) = m - 1 /\ \A i \in 1..m - 1 : low[i] = s[i]
  <2>1. \A i \in 1..m - 1 : s[i] \in S BY <1>1
  <2>2. low \in Seq(S) /\ Len(low) = (IF 1 <= m - 1 THEN (m - 1) - 1 + 1 ELSE 0) /\ \A i \in 1..(m - 1) - 1 + 1 : low[i] = s[1 + i - 1]
    BY <1>1, <2>1, SubSeqProperties
  <2>. HIDE DEF low
  <2>3. (m - 1) - 1 + 1 = m - 1 /\ (\A i \in 1..m - 1 : 1 + i - 1 = i) /\ (~(1 <= m - 1) => m - 1 = 0) BY <1>1
  <2>4. QED BY <2>2, <2>3
<1>3. high \in Seq(S) /\ Len(high) = Len(s) - m /\ \A i \in 1..Len(s) - m : high[i] = s[m + i]
  <2>1. \A i \in m + 1..Len(s) : s[i] \in S BY <1>1
  <2>2. /\ high \in Seq(S) /\ Len(high) = (IF m + 1 <= Len(s) THEN Len(s) - (m + 1) + 1 ELSE 0)
        /\ \A i \in 1..Len(s) - (m + 1) + 1 : high[i] = s[(m + 1) + i - 1]
    BY <1>1, <2>1, SubSeqProperties
  <2>. HIDE DEF high
  <2>3. QED BY <1>1, <2>2
<1>4. RemoveAt(s, m) = low \o high BY DEF RemoveAt
<1>. HIDE DEF low, high
<1>5. /\ low \o high \in Seq(S) /\ Len(low \o high) = Len(low) + Len(high)
      /\ \A i \in 1..Len(low) + Len(high) : (low \o high)[i] = IF i <= Len(low) THEN low[i] ELSE high[i - Len(low)]
  BY <1>2, <1>3, ConcatProperties
<1>6. DOMAIN RemoveAt(s, m) = 1..Len(s) - 1 BY <1>1, <1>2, <1>3, <1>4, <1>5
<1>7. ASSUME NEW k \in 1..Len(s) - 1 PROVE RemoveAt(s, m)[k] = s[IF k < m THEN k ELSE k + 1]
  <2>1. RemoveAt(s, m)[k] = IF k <= m - 1 THEN low[k] ELSE high[k - (m - 1)] BY <1>1, <1>2, <1>3, <1>4, <1>5
  <2>2. CASE k < m BY <1>1, <1>2, <2>1, <2>2
  <2>3. CASE ~(k < m)
    <3>1. k - (m - 1) \in 1..Len(s) - m /\ m + (k - (m - 1)) = k + 1 /\ ~(k <= m - 1) BY <1>1, <2>3
    <3>2. QED BY <1>3, <2>1, <2>3, <3>1
  <2>4. QED BY <2>2, <2>3
<1>8. QED BY <1>6, <1>7

LEMMA ExportIsSequence ==
  ASSUME HistoryInv
  PROVE  \E l \in Nat : DOMAIN Exported = 1..l
<1>1. workflow \in Seq(HistoryEvents) /\ Len(workflow) \in Nat /\ DOMAIN workflow = 1..Len(workflow) BY HistoryFacts
<1>2. CASE missing = {} BY <1>1, <1>2 DEF Exported
<1>3. CASE missing # {}
  <2>1. PICK m \in missing : TRUE BY <1>3
  <2>2. m \in 1..Len(workflow) /\ missing = {m} BY <1>1, <2>1 DEF HistoryInv, HistoryTypeOK
  <2>3. Exported = RemoveAt(workflow, m)
    <3>1. (CHOOSE e \in missing : TRUE) = m BY <2>2
    <3>2. QED BY <1>3, <3>1 DEF Exported
  <2>4. DOMAIN Exported = 1..Len(workflow) - 1 /\ Len(workflow) - 1 \in Nat BY <1>1, <2>2, <2>3, Removed
  <2>5. QED BY <2>4
<1>4. QED BY <1>2, <1>3

LEMMA ExportedEvents ==
  ASSUME HistoryInv
  PROVE  /\ \A k \in DOMAIN Exported : \E i \in DOMAIN workflow : i \notin missing /\ Exported[k] = workflow[i]
         /\ \A i \in DOMAIN workflow : i \notin missing => \E k \in DOMAIN Exported : Exported[k] = workflow[i]
         /\ missing = {} => Exported = workflow
<1>1. workflow \in Seq(HistoryEvents) /\ Len(workflow) \in Nat /\ DOMAIN workflow = 1..Len(workflow) BY HistoryFacts
<1>2. CASE missing = {} BY <1>2 DEF Exported
<1>3. CASE missing # {}
  <2>1. PICK m \in missing : TRUE BY <1>3
  <2>2. m \in 1..Len(workflow) /\ missing = {m} BY <1>1, <2>1 DEF HistoryInv, HistoryTypeOK
  <2>3. Exported = RemoveAt(workflow, m)
    <3>1. (CHOOSE e \in missing : TRUE) = m BY <2>2
    <3>2. QED BY <1>3, <3>1 DEF Exported
  <2>4. DOMAIN Exported = 1..Len(workflow) - 1 BY <1>1, <2>2, <2>3, Removed
  <2>5. \A k \in 1..Len(workflow) - 1 : Exported[k] = workflow[IF k < m THEN k ELSE k + 1] BY <1>1, <2>2, <2>3, Removed
  <2>6. ASSUME NEW k \in DOMAIN Exported PROVE \E i \in DOMAIN workflow : i \notin missing /\ Exported[k] = workflow[i]
    <3>1. PICK i : i = IF k < m THEN k ELSE k + 1 OBVIOUS
    <3>2. i \in DOMAIN workflow /\ i # m BY <1>1, <2>2, <2>4, <3>1
    <3>3. QED BY <2>2, <2>4, <2>5, <3>1, <3>2
  <2>7. ASSUME NEW i \in DOMAIN workflow, i \notin missing PROVE \E k \in DOMAIN Exported : Exported[k] = workflow[i]
    <3>1. PICK k : k = IF i < m THEN i ELSE i - 1 OBVIOUS
    <3>2. k \in 1..Len(workflow) - 1 /\ i = (IF k < m THEN k ELSE k + 1) BY <1>1, <2>2, <2>7, <3>1
    <3>3. QED BY <2>4, <2>5, <3>2
  <2>8. QED BY <1>3, <2>6, <2>7
<1>4. QED BY <1>2, <1>3

(* An activity has one event of these types at most, so that it does not   *)
(* matter which is found.                                                  *)
LEMMA AboutIs ==
  ASSUME HistoryInv, NEW t \in DOMAIN tasks, NEW types, NEW n \in Nat,
         \A i \in DOMAIN workflow : workflow[i].type \in types /\ workflow[i].scheduled = t => i = n,
         n # NoEvent => n \in DOMAIN workflow /\ workflow[n].type \in types /\ workflow[n].scheduled = t
  PROVE  About(Exported, t, types) =
           IF n = NoEvent \/ n \in missing THEN [NewEvent("none") EXCEPT !.id = NoEvent] ELSE workflow[n]
<1> DEFINE own == {k \in DOMAIN Exported : Exported[k].type \in types /\ Exported[k].scheduled = t}
<1>1. \A k \in own : n # NoEvent /\ n \notin missing /\ Exported[k] = workflow[n]
  <2>1. ASSUME NEW k \in own PROVE n # NoEvent /\ n \notin missing /\ Exported[k] = workflow[n]
    <3>1. PICK i \in DOMAIN workflow : i \notin missing /\ Exported[k] = workflow[i] BY ExportedEvents
    <3>2. i = n BY <3>1
    <3>3. i # NoEvent BY HistoryFacts DEF NoEvent
    <3>4. QED BY <3>1, <3>2, <3>3
  <2>2. QED BY <2>1
<1>2. n # NoEvent /\ n \notin missing => own # {}
  <2>1. ASSUME n # NoEvent, n \notin missing PROVE own # {}
    <3>1. PICK k \in DOMAIN Exported : Exported[k] = workflow[n] BY <2>1, ExportedEvents
    <3>2. k \in own BY <2>1, <3>1
    <3>3. QED BY <3>2
  <2>2. QED BY <2>1
<1>3. About(Exported, t, types) =
        IF own = {} THEN [NewEvent("none") EXCEPT !.id = NoEvent] ELSE Exported[CHOOSE k \in own : TRUE]
  BY DEF About
<1>. HIDE DEF own
<1>4. CASE own = {} BY <1>2, <1>3, <1>4
<1>5. CASE own # {}
  <2>1. (CHOOSE k \in own : TRUE) \in own BY <1>5
  <2>2. QED BY <1>1, <1>3, <1>5, <2>1
<1>6. QED BY <1>4, <1>5

\* The events about an activity, in the history.
LEMMA EventsOfActivity ==
  ASSUME HistoryInv, NEW t \in DOMAIN tasks
  PROVE  /\ \A i \in DOMAIN workflow : workflow[i].type \in {"started"} /\ workflow[i].scheduled = t => i = tasks[t].began
         /\ tasks[t].began # NoEvent =>
              /\ tasks[t].began \in DOMAIN workflow /\ workflow[tasks[t].began].type \in {"started"}
              /\ workflow[tasks[t].began].scheduled = t
         /\ \A i \in DOMAIN workflow : workflow[i].type \in Outcomes /\ workflow[i].scheduled = t => i = tasks[t].ended
         /\ tasks[t].ended # NoEvent =>
              /\ tasks[t].ended \in DOMAIN workflow /\ workflow[tasks[t].ended].type \in Outcomes
              /\ workflow[tasks[t].ended].scheduled = t
         /\ tasks[t].began \in Nat /\ tasks[t].ended \in Nat
<1>1. \A i \in DOMAIN workflow : EventOK(i, workflow[i], tasks) BY HistoryFacts
<1>2. ActivityOK(t, tasks[t], workflow) BY HistoryFacts
<1>3. tasks[t].began \in Nat /\ tasks[t].ended \in Nat BY HistoryFacts DEF ActivityRecords
<1>4. \A i \in DOMAIN workflow : workflow[i].type = "started" /\ workflow[i].scheduled = t => i = tasks[t].began
  BY <1>1 DEF EventOK
<1>5. \A i \in DOMAIN workflow : workflow[i].type \in Outcomes /\ workflow[i].scheduled = t => i = tasks[t].ended
  BY <1>1 DEF EventOK
<1>6. QED BY <1>2, <1>3, <1>4, <1>5 DEF ActivityOK

\* What the export says of an activity: what became of it, so far as it is there.
Said(t) ==
  [id |-> t, name |-> tasks[t].name,
   began |-> IF tasks[t].began \in missing THEN NoEvent ELSE tasks[t].began,
   attempt |-> IF tasks[t].began \in missing THEN NoEvent ELSE tasks[t].attempt,
   ended |-> IF tasks[t].ended \in missing THEN NoEvent ELSE tasks[t].ended,
   outcome |-> IF tasks[t].ended \in missing THEN "none" ELSE tasks[t].outcome]

LEMMA ActivitiesAre ==
  ASSUME HistoryInv
  PROVE  Activities(Exported) = {Said(t) : t \in DOMAIN tasks \ missing}
<1> DEFINE Shown(i) ==
      LET opening == About(Exported, Exported[i].id, {"started"})
          closing == About(Exported, Exported[i].id, Outcomes) IN
      [id |-> Exported[i].id, name |-> Exported[i].name, began |-> opening.id, attempt |-> opening.attempt,
       ended |-> closing.id, outcome |-> closing.type]
<1>1. Activities(Exported) = {Shown(i) : i \in {j \in DOMAIN Exported : Exported[j].type = "scheduled"}} BY DEF Activities
<1>2. ASSUME NEW t \in DOMAIN tasks, NEW k \in DOMAIN Exported, Exported[k] = workflow[t]
      PROVE  Shown(k) = Said(t)
  <2> DEFINE nothing == [NewEvent("none") EXCEPT !.id = NoEvent]
             opening == About(Exported, t, {"started"})
             closing == About(Exported, t, Outcomes)
  <2>1. /\ nothing.id = NoEvent /\ nothing.attempt = NoEvent /\ nothing.type = "none" BY DEF NewEvent
  <2>. HIDE DEF nothing
  <2>2. opening = IF tasks[t].began = NoEvent \/ tasks[t].began \in missing THEN nothing ELSE workflow[tasks[t].began]
    <3> DEFINE types == {"started"}
    <3>1. /\ tasks[t].began \in Nat
          /\ \A i \in DOMAIN workflow : workflow[i].type \in types /\ workflow[i].scheduled = t => i = tasks[t].began
          /\ tasks[t].began # NoEvent =>
               /\ tasks[t].began \in DOMAIN workflow /\ workflow[tasks[t].began].type \in types
               /\ workflow[tasks[t].began].scheduled = t
      BY EventsOfActivity
    <3>2. opening = About(Exported, t, types) OBVIOUS
    <3>. HIDE DEF types, opening
    <3>3. About(Exported, t, types) =
            IF tasks[t].began = NoEvent \/ tasks[t].began \in missing THEN nothing ELSE workflow[tasks[t].began]
      BY <3>1, AboutIs DEF nothing
    <3>4. QED BY <3>2, <3>3
  <2>3. closing = IF tasks[t].ended = NoEvent \/ tasks[t].ended \in missing THEN nothing ELSE workflow[tasks[t].ended]
    BY EventsOfActivity, AboutIs DEF nothing
  <2>4. /\ EventOK(t, workflow[t], tasks) /\ ActivityOK(t, tasks[t], workflow) /\ workflow[t].type = "scheduled"
        /\ tasks[t].began \in DOMAIN workflow => EventOK(tasks[t].began, workflow[tasks[t].began], tasks)
        /\ tasks[t].ended \in DOMAIN workflow => EventOK(tasks[t].ended, workflow[tasks[t].ended], tasks)
    BY HistoryFacts DEF ActivityOK
  <2>5. Exported[k].id = t /\ Exported[k].name = tasks[t].name BY <1>2, <2>4 DEF EventOK
  <2>. HIDE DEF opening, closing
  <2>6. /\ opening.id = IF tasks[t].began \in missing THEN NoEvent ELSE tasks[t].began
        /\ opening.attempt = IF tasks[t].began \in missing THEN NoEvent ELSE tasks[t].attempt
    BY <2>1, <2>2, <2>4 DEF EventOK, ActivityOK
  <2>7. /\ closing.id = IF tasks[t].ended \in missing THEN NoEvent ELSE tasks[t].ended
        /\ closing.type = IF tasks[t].ended \in missing THEN "none" ELSE tasks[t].outcome
    BY <2>1, <2>3, <2>4 DEF EventOK, ActivityOK
  <2>8. Shown(k) = [id |-> t, name |-> tasks[t].name, began |-> opening.id, attempt |-> opening.attempt,
                    ended |-> closing.id, outcome |-> closing.type]
    BY <2>5 DEF opening, closing
  <2>. HIDE DEF Shown
  <2>9. QED BY <2>6, <2>7, <2>8 DEF Said
<1>. HIDE DEF Shown
<1>3. ASSUME NEW k \in DOMAIN Exported, Exported[k].type = "scheduled"
      PROVE  \E t \in DOMAIN tasks \ missing : Shown(k) = Said(t)
  <2>1. PICK i \in DOMAIN workflow : i \notin missing /\ Exported[k] = workflow[i] BY ExportedEvents
  <2>2. EventOK(i, workflow[i], tasks) BY HistoryFacts
  <2>3. i \in DOMAIN tasks BY <1>3, <2>1, <2>2 DEF EventOK
  <2>4. QED BY <1>2, <2>1, <2>3
<1>4. ASSUME NEW t \in DOMAIN tasks \ missing
      PROVE  \E k \in DOMAIN Exported : Exported[k].type = "scheduled" /\ Shown(k) = Said(t)
  <2>1. t \in DOMAIN workflow /\ workflow[t].type = "scheduled" BY HistoryFacts DEF ActivityOK
  <2>2. PICK k \in DOMAIN Exported : Exported[k] = workflow[t] BY <2>1, ExportedEvents
  <2>3. QED BY <1>2, <2>1, <2>2
<1>5. QED BY <1>1, <1>3, <1>4

(* A history that lacks nothing is accepted.                               *)
LEMMA WholeIsAccepted ==
  ASSUME HistoryInv, workflow # <<>>
  PROVE  HistoryAccepted(workflow)
<1>1. /\ workflow \in Seq(HistoryEvents) /\ Len(workflow) \in Nat /\ DOMAIN workflow = 1..Len(workflow)
      /\ \A i \in DOMAIN workflow : EventOK(i, workflow[i], tasks)
  BY HistoryFacts
<1>2. \A t \in DOMAIN tasks : t \in DOMAIN workflow /\ workflow[t].type = "scheduled" /\ ActivityOK(t, tasks[t], workflow)
  BY HistoryFacts DEF ActivityOK
<1>3. Framed(workflow) BY <1>1 DEF Framed, EventOK, HistoryInv, WorkflowInv
<1>4. ASSUME NEW i \in DOMAIN workflow, workflow[i].type = "started" \/ workflow[i].type \in Outcomes PROVE Known(workflow, i)
  <2>1. workflow[i].scheduled \in DOMAIN tasks /\ workflow[i].scheduled < i BY <1>1, <1>4 DEF EventOK
  <2>2. workflow[i].scheduled \in 1..i - 1 /\ workflow[workflow[i].scheduled].type = "scheduled" BY <1>1, <1>2, <2>1
  <2>3. workflow[workflow[i].scheduled].id = workflow[i].scheduled BY <1>1, <1>2, <2>1 DEF EventOK
  <2>4. QED BY <2>2, <2>3 DEF Known, EarlierEvents
<1>5. ASSUME NEW i \in DOMAIN workflow, NEW j \in StartedEvents(workflow, i)
      PROVE  j \in DOMAIN workflow /\ j < i /\ tasks[workflow[i].scheduled].began = j
  <2>1. j \in 1..i - 1 /\ workflow[j].type = "started" /\ workflow[j].scheduled = workflow[i].scheduled
    BY DEF StartedEvents, EarlierEvents
  <2>2. j \in DOMAIN workflow BY <1>1, <2>1
  <2>3. QED BY <1>1, <2>1, <2>2 DEF EventOK
<1>6. ASSUME NEW i \in DOMAIN workflow, workflow[i].type = "started" PROVE StartedEvents(workflow, i) = {}
  <2>1. tasks[workflow[i].scheduled].began = i BY <1>1, <1>6 DEF EventOK
  <2>2. QED BY <1>1, <1>5, <2>1
<1>7. ASSUME NEW i \in DOMAIN workflow, workflow[i].type \in Outcomes PROVE TerminalAccepted(workflow, i)
  <2> DEFINE earlier == UNION {EarlierEvents(workflow, i, outcome) : outcome \in Outcomes}
             t == workflow[i].scheduled
  <2>1. /\ t \in DOMAIN tasks /\ tasks[t].ended = i /\ tasks[t].began = workflow[i].started /\ tasks[t].outcome = workflow[i].type
        /\ workflow[i].started < i
    BY <1>1, <1>7 DEF EventOK
  <2>2. ASSUME NEW j \in earlier PROVE workflow[j].scheduled # t
    <3>1. j \in 1..i - 1 /\ workflow[j].type \in Outcomes BY DEF EarlierEvents
    <3>2. j \in DOMAIN workflow /\ j # i BY <1>1, <3>1
    <3>3. workflow[j].scheduled = t => tasks[t].ended = j BY <1>1, <3>1, <3>2 DEF EventOK
    <3>4. QED BY <2>1, <3>2, <3>3
  <2>3. ActivityOK(t, tasks[t], workflow) BY <1>2, <2>1
  <2>4. ASSUME workflow[i].started # NoEvent
        PROVE  \E j \in StartedEvents(workflow, i) : workflow[j].id = workflow[i].started
    <3> DEFINE b == workflow[i].started
    <3>1. b \in DOMAIN workflow /\ workflow[b].type = "started" /\ workflow[b].scheduled = t
      BY <2>1, <2>3, <2>4 DEF ActivityOK
    <3>2. b \in 1..i - 1 BY <1>1, <2>1, <3>1
    <3>3. workflow[b].id = b BY <1>1, <3>1 DEF EventOK
    <3>4. b \in StartedEvents(workflow, i) BY <3>1, <3>2 DEF StartedEvents, EarlierEvents
    <3>5. QED BY <3>3, <3>4
  <2>5. ASSUME workflow[i].started = NoEvent PROVE StartedEvents(workflow, i) = {} BY <1>1, <1>5, <2>1, <2>5 DEF NoEvent
  <2>6. Known(workflow, i) BY <1>4, <1>7
  <2>. HIDE DEF earlier
  <2>7. \A j \in earlier : workflow[j].scheduled # workflow[i].scheduled BY <2>2
  <2>8. QED BY <2>4, <2>5, <2>6, <2>7 DEF TerminalAccepted, earlier
<1>8. QED BY <1>3, <1>4, <1>6, <1>7 DEF HistoryAccepted

(* An end whose start is missing is refused.                               *)
LEMMA NoEndWithoutStart ==
  ASSUME HistoryInv, HistoryAccepted(Exported), NEW t \in DOMAIN tasks, tasks[t].began \in missing
  PROVE  tasks[t].ended = NoEvent \/ tasks[t].ended \in missing
<1>1. SUFFICES ASSUME tasks[t].ended # NoEvent, tasks[t].ended \notin missing PROVE FALSE OBVIOUS
<1> DEFINE b == tasks[t].began
           n == tasks[t].ended
<1>2. b \in DOMAIN workflow /\ b # NoEvent BY HistoryFacts DEF HistoryInv, HistoryTypeOK, NoEvent
<1>3. n \in DOMAIN workflow /\ workflow[n].type \in Outcomes /\ workflow[n].scheduled = t BY <1>1, EventsOfActivity
<1>4. workflow[n].started = b
  <2>1. EventOK(n, workflow[n], tasks) BY <1>3, HistoryFacts
  <2>2. QED BY <1>3, <2>1 DEF EventOK
<1>5. PICK k \in DOMAIN Exported : Exported[k] = workflow[n] BY <1>1, <1>3, ExportedEvents
<1>6. TerminalAccepted(Exported, k) BY <1>3, <1>5 DEF HistoryAccepted
<1>7. PICK j \in StartedEvents(Exported, k) : Exported[j].id = b BY <1>2, <1>4, <1>5, <1>6 DEF TerminalAccepted
<1>8. j \in DOMAIN Exported
  <2>1. j \in 1..k - 1 BY DEF StartedEvents, EarlierEvents
  <2>2. PICK l \in Nat : DOMAIN Exported = 1..l BY ExportIsSequence
  <2>3. QED BY <2>1, <2>2
<1>9. PICK i \in DOMAIN workflow : i \notin missing /\ Exported[j] = workflow[i] BY <1>8, ExportedEvents
<1>10. workflow[i].id = i BY HistoryFacts DEF EventOK
<1>11. QED BY <1>7, <1>9, <1>10

(* The span that is taken: it is one of an activity with this name, and    *)
(* another activity with this name would have been exported as well.       *)
LEMMA SpanIsOwn ==
  ASSUME HistoryInv, NEW t \in DOMAIN tasks \ missing, Normalize(Exported, Said(t)).span # NoEvent, identified
  PROVE  \/ workerSpans[Normalize(Exported, Said(t)).span].task = t
         \/ \E e \in missing : e \in DOMAIN tasks /\ tasks[e].name = Said(t).name
<1> DEFINE a == Said(t)
           candidates == {i \in DOMAIN workerSpans : workerSpans[i].name = a.name /\ (identified => workerSpans[i].task # NoEvent)}
           s == Normalize(Exported, a).span
<1>1. s = IF \A x \in Activities(Exported) : x.name = a.name => x = a THEN OtelActivityMatch(a) ELSE NoEvent
  BY DEF Normalize
<1>2. OtelActivityMatch(a) = IF Cardinality(candidates) = 1 THEN CHOOSE i \in candidates : TRUE ELSE NoEvent
  BY DEF OtelActivityMatch
<1>3. a.id = t /\ a.name = tasks[t].name BY DEF Said
<1>. HIDE DEF a, s, candidates
<1>4. (\A x \in Activities(Exported) : x.name = a.name => x = a) /\ Cardinality(candidates) = 1 /\ s = CHOOSE i \in candidates : TRUE
  BY <1>1, <1>2 DEF s, a
<1>5. candidates # {} BY <1>4, FS_EmptySet
<1>6. s \in candidates BY <1>4, <1>5
<1>7. s \in DOMAIN workerSpans /\ workerSpans[s].name = a.name /\ workerSpans[s].task # NoEvent BY <1>6 DEF candidates
<1> DEFINE u == workerSpans[s].task
<1>8. u \in DOMAIN tasks /\ tasks[u].name = a.name BY <1>7 DEF HistoryInv, SpanInv
<1>9. CASE u \in missing BY <1>8, <1>9 DEF a
<1>10. CASE u \notin missing
  <2>1. Said(u) \in Activities(Exported) BY <1>8, <1>10, ActivitiesAre
  <2>2. Said(u).id = u /\ Said(u).name = tasks[u].name BY DEF Said
  <2>3. Said(u) = a BY <1>4, <1>8, <2>1, <2>2
  <2>4. u = t BY <1>3, <2>2, <2>3
  <2>5. QED BY <2>4 DEF s, a
<1>11. QED BY <1>9, <1>10

LEMMA NormalizeIs ==
  ASSUME NEW h, NEW a
  PROVE  /\ Normalize(h, a).queued = <<a.id, IF a.began # NoEvent THEN a.began ELSE a.ended>>
         /\ Normalize(h, a).queued[2] = IF a.began # NoEvent THEN a.began ELSE a.ended
         /\ Normalize(h, a).interval # <<>> => a.began # NoEvent /\ a.ended # NoEvent /\ Normalize(h, a).interval = <<a.began, a.ended>>
         /\ a.began # NoEvent /\ a.ended # NoEvent => Normalize(h, a).execution # "none"
<1>1. Normalize(h, a).queued = <<a.id, IF a.began # NoEvent THEN a.began ELSE a.ended>> BY DEF Normalize
<1>2. Normalize(h, a).interval # <<>> => a.began # NoEvent /\ a.ended # NoEvent /\ Normalize(h, a).interval = <<a.began, a.ended>>
  BY DEF Normalize
<1>3. a.began # NoEvent /\ a.ended # NoEvent => Normalize(h, a).execution # "none" BY DEF Normalize
<1>4. \A x, y : <<x, y>>[2] = y OBVIOUS
<1>5. QED BY <1>1, <1>2, <1>3, <1>4

(* Whatever the server had written when the history was exported, and      *)
(* whichever event the export lacks, it is refused or what it says of the  *)
(* activities is true as far as it goes.                                   *)
THEOREM TrueHistories == HistorySpec => []HistoryIsTrue
<1>1. HistoryInv => HistoryIsTrue
  <2> DEFINE h == Exported
             Waited(t) == IF tasks[t].began # NoEvent THEN tasks[t].began ELSE tasks[t].ended
  <2>1. SUFFICES ASSUME HistoryInv PROVE HistoryIsTrue OBVIOUS
  <2>2. workflow # <<>> /\ missing = {} => HistoryAccepted(h) BY <2>1, ExportedEvents, WholeIsAccepted
  <2>3. {a.id : a \in Activities(h)} = DOMAIN tasks \ missing
    <3>1. Activities(h) = {Said(t) : t \in DOMAIN tasks \ missing} BY <2>1, ActivitiesAre
    <3>2. \A t \in DOMAIN tasks : Said(t).id = t BY DEF Said
    <3>3. QED BY <3>1, <3>2
  <2>4. ASSUME HistoryAccepted(h), NEW a \in Activities(h)
        PROVE  /\ a.outcome = tasks[a.id].outcome \/ (a.outcome = "none" /\ tasks[a.id].ended \in missing)
               /\ a.attempt = tasks[a.id].attempt \/ tasks[a.id].began \in missing
               /\ Normalize(h, a).queued = <<a.id, Waited(a.id)>> \/ (Normalize(h, a).queued[2] = NoEvent /\ missing # {})
               /\ Normalize(h, a).interval # <<>> => Normalize(h, a).interval = <<tasks[a.id].began, tasks[a.id].ended>>
               /\ tasks[a.id].began # NoEvent /\ tasks[a.id].ended # NoEvent /\ missing = {} => Normalize(h, a).execution # "none"
               /\ Normalize(h, a).span # NoEvent /\ identified =>
                    workerSpans[Normalize(h, a).span].task = a.id \/ \E e \in missing : e \in DOMAIN tasks /\ tasks[e].name = a.name
    <3>1. PICK t \in DOMAIN tasks \ missing : a = Said(t) BY <2>1, ActivitiesAre
    <3>2. /\ a.id = t
          /\ a.began = IF tasks[t].began \in missing THEN NoEvent ELSE tasks[t].began
          /\ a.attempt = IF tasks[t].began \in missing THEN NoEvent ELSE tasks[t].attempt
          /\ a.ended = IF tasks[t].ended \in missing THEN NoEvent ELSE tasks[t].ended
          /\ a.outcome = IF tasks[t].ended \in missing THEN "none" ELSE tasks[t].outcome
      BY <3>1 DEF Said
    <3>3. tasks[t].began \in missing => tasks[t].ended = NoEvent \/ tasks[t].ended \in missing BY <2>1, <2>4, NoEndWithoutStart
    <3>4. \A m \in missing : m # NoEvent BY <2>1, HistoryFacts DEF HistoryInv, HistoryTypeOK, NoEvent
    <3>5. Normalize(h, a).queued = <<a.id, Waited(a.id)>> \/ (Normalize(h, a).queued[2] = NoEvent /\ missing # {})
      <4> DEFINE v == IF a.began # NoEvent THEN a.began ELSE a.ended
      <4>1. Normalize(h, a).queued = <<a.id, v>> /\ Normalize(h, a).queued[2] = v BY NormalizeIs
      <4>2. v = Waited(t) \/ (v = NoEvent /\ missing # {}) BY <3>2, <3>3, <3>4
      <4>3. QED BY <3>2, <4>1, <4>2
    <3>6. Normalize(h, a).interval # <<>> => Normalize(h, a).interval = <<tasks[t].began, tasks[t].ended>> BY <3>2, NormalizeIs
    <3>7. tasks[t].began # NoEvent /\ tasks[t].ended # NoEvent /\ missing = {} => Normalize(h, a).execution # "none"
      BY <3>2, NormalizeIs
    <3>8. Normalize(h, a).span # NoEvent /\ identified =>
            workerSpans[Normalize(h, a).span].task = t \/ \E e \in missing : e \in DOMAIN tasks /\ tasks[e].name = a.name
      BY <2>1, <3>1, SpanIsOwn
    <3>9. QED BY <3>2, <3>5, <3>6, <3>7, <3>8
  <2>. HIDE DEF h
  <2>5. QED BY <2>2, <2>3, <2>4 DEF HistoryIsTrue, h
<1>2. QED BY <1>1, HistoryInductive, PTL

-----------------------------------------------------------------------------
(* The telemetry of services.                                              *)

LinkRecords == [to : Nat, kept : BOOLEAN]
SpanRecords == [service : Services, parent : Nat, links : Seq(LinkRecords), start : Nat, end : Nat]
LogRecords == [service : Services, span : Nat, time : Nat]
ImportRecords == [document : SUBSET Nat, outside : Nat, ambiguous : Nat]
PackFields ==
  {"state", "entities", "spans", "started", "finished", "parents", "links",
   "missingParents", "missingLinks", "missingLogSpans", "dropped", "logs"}

TelemetryTypeOK ==
  /\ told \in {"instance", "name", "none"} /\ telemetryClock \in Nat \ {0}
  /\ spans \in Seq(SpanRecords) /\ logs \in Seq(LogRecords) /\ imported \in Seq(ImportRecords)

\* A span has an earlier one for a parent, and ends after it has started.
TraceInv ==
  \A i \in DOMAIN spans :
    /\ spans[i].parent < i /\ spans[i].start < telemetryClock
    /\ spans[i].end # NotGiven => spans[i].end \in spans[i].start..telemetryClock

\* The runpack has spans that were recorded, and logs of documents that were imported.
PackInv ==
  \/ pack = Unwritten /\ imported = <<>>
  \/ pack.state = "refused" /\ imported = <<>>
  \/ /\ pack.state = "written" /\ DOMAIN pack = PackFields
     /\ DOMAIN pack.spans \subseteq DOMAIN spans
     /\ IsFiniteSet(pack.logs)
     /\ \A e \in pack.logs : e.log \in DOMAIN logs /\ e.number \in DOMAIN imported

TelemetryInv == TelemetryTypeOK /\ TraceInv /\ PackInv /\ TelemetryIsTrue

(* While nothing is imported there is nothing that could be wrong.         *)
LEMMA NothingImported ==
  ASSUME pack' = Unwritten, imported' = <<>>
  PROVE  PackInv' /\ TelemetryIsTrue'
<1>1. Unwritten.state = "none" /\ Unwritten' = Unwritten BY DEF Unwritten
<1>2. pack'.state # "refused" /\ pack'.state # "written" BY <1>1
<1>3. TelemetryIsTrue' BY <1>2 DEF TelemetryIsTrue
<1>4. QED BY <1>1, <1>3 DEF PackInv

LEMMA TelemetryStarts == TelemetryInit => TelemetryInv
<1> SUFFICES ASSUME TelemetryInit PROVE TelemetryInv OBVIOUS
<1>1. pack = Unwritten /\ imported = <<>> BY DEF TelemetryInit
<1>2. TelemetryTypeOK /\ TraceInv BY DEF TelemetryInit, TelemetryTypeOK, TraceInv
<1>3. pack.state # "refused" /\ pack.state # "written" BY <1>1 DEF Unwritten
<1>4. TelemetryIsTrue BY <1>3 DEF TelemetryIsTrue
<1>5. QED BY <1>1, <1>2, <1>4 DEF TelemetryInv, PackInv

LEMMA NotWritten ==
  ASSUME TelemetryInv, pack = Unwritten
  PROVE  imported = <<>>
<1>1. pack.state = "none" BY DEF Unwritten
<1>2. QED BY <1>1 DEF TelemetryInv, PackInv

LEMMA SpanFacts ==
  ASSUME TelemetryTypeOK
  PROVE  /\ DOMAIN spans = 1..Len(spans) /\ Len(spans) \in Nat /\ telemetryClock \in Nat /\ NotGiven = 0
         /\ \A i \in DOMAIN spans : /\ i \in Nat /\ spans[i] \in SpanRecords
                                    /\ spans[i].parent \in Nat /\ spans[i].links \in Seq(LinkRecords)
                                    /\ spans[i].start \in Nat /\ spans[i].end \in Nat
<1>1. spans \in Seq(SpanRecords) /\ telemetryClock \in Nat BY DEF TelemetryTypeOK
<1>2. \A i \in 1..Len(spans) : spans[i] \in SpanRecords BY <1>1
<1>3. QED BY <1>1, <1>2 DEF SpanRecords, NotGiven

-----------------------------------------------------------------------------
(* The services.                                                           *)

LEMMA StartSpanKeeps ==
  ASSUME TelemetryInv, NEW service \in Services, NEW parent \in Earlier,
         StartSpan(service, parent)
  PROVE  TelemetryInv'
<1> DEFINE new == [service |-> service, parent |-> parent, links |-> <<>>, start |-> telemetryClock, end |-> NotGiven]
<1>1. pack' = Unwritten /\ imported' = <<>> BY NotWritten DEF StartSpan, Recording, Unwritten
<1>2. PackInv' /\ TelemetryIsTrue' BY <1>1, NothingImported
<1>3. TelemetryTypeOK BY DEF TelemetryInv
<1>4. parent \in 0..Len(spans) BY <1>3, SpanFacts DEF Earlier
<1>5. new \in SpanRecords BY <1>3, <1>4, SpanFacts DEF SpanRecords
<1>6. spans' = Append(spans, new) /\ telemetryClock' = telemetryClock + 1 /\ UNCHANGED <<told, logs>> BY DEF StartSpan
<1>7. new.parent = parent /\ new.start = telemetryClock /\ new.end = NotGiven OBVIOUS
<1>. HIDE DEF new
<1>8. /\ spans' \in Seq(SpanRecords) /\ Len(spans') = Len(spans) + 1
      /\ \A i \in 1..Len(spans) : spans'[i] = spans[i]
      /\ spans'[Len(spans) + 1] = new
  BY <1>3, <1>5, <1>6, AppendProperties DEF TelemetryTypeOK
<1>9. TelemetryTypeOK' BY <1>1, <1>3, <1>6, <1>8, SpanFacts DEF TelemetryTypeOK
<1>10. ASSUME NEW i \in DOMAIN spans'
       PROVE  /\ spans'[i].parent < i /\ spans'[i].start < telemetryClock'
              /\ spans'[i].end # NotGiven => spans'[i].end \in spans'[i].start..telemetryClock'
  <2>1. i \in 1..Len(spans) + 1 /\ Len(spans) \in Nat /\ telemetryClock \in Nat BY <1>3, <1>8, SpanFacts
  <2>2. CASE i = Len(spans) + 1 BY <1>4, <1>6, <1>7, <1>8, <2>1, <2>2
  <2>3. CASE i # Len(spans) + 1
    <3>1. i \in DOMAIN spans /\ spans'[i] = spans[i] BY <1>3, <1>8, <2>1, <2>3, SpanFacts
    <3>2. /\ spans[i].parent < i /\ spans[i].start < telemetryClock
          /\ spans[i].end # NotGiven => spans[i].end \in spans[i].start..telemetryClock
      BY <3>1 DEF TelemetryInv, TraceInv
    <3>3. spans[i].start \in Nat /\ spans[i].end \in Nat BY <1>3, <3>1, SpanFacts
    <3>4. QED BY <1>6, <2>1, <3>1, <3>2, <3>3
  <2>4. QED BY <2>2, <2>3
<1>11. TraceInv' BY <1>10 DEF TraceInv, NotGiven
<1>12. QED BY <1>2, <1>9, <1>11 DEF TelemetryInv

LEMMA EndSpanKeeps ==
  ASSUME TelemetryInv, NEW i \in DOMAIN spans, EndSpan(i)
  PROVE  TelemetryInv'
<1>1. pack' = Unwritten /\ imported' = <<>> BY NotWritten DEF EndSpan, Unwritten
<1>2. PackInv' /\ TelemetryIsTrue' BY <1>1, NothingImported
<1>3. TelemetryTypeOK BY DEF TelemetryInv
<1>4. /\ spans' = [spans EXCEPT ![i].end = telemetryClock] /\ telemetryClock' = telemetryClock + 1
      /\ UNCHANGED <<told, logs>>
  BY DEF EndSpan
<1>5. telemetryClock \in Nat /\ DOMAIN spans = 1..Len(spans) BY <1>3, SpanFacts
<1>6. /\ spans' \in Seq(SpanRecords) /\ DOMAIN spans' = DOMAIN spans
      /\ \A j \in DOMAIN spans : spans'[j] = IF j = i THEN [spans[i] EXCEPT !.end = telemetryClock] ELSE spans[j]
  <2>1. [spans[i] EXCEPT !.end = telemetryClock] \in SpanRecords BY <1>3, <1>5, SpanFacts DEF SpanRecords
  <2>2. spans \in Seq(SpanRecords) BY <1>3 DEF TelemetryTypeOK
  <2>3. spans' = [spans EXCEPT ![i] = [spans[i] EXCEPT !.end = telemetryClock]] BY <1>4
  <2>4. QED BY <1>5, <2>1, <2>2, <2>3
<1>7. TelemetryTypeOK' BY <1>1, <1>3, <1>4, <1>5, <1>6 DEF TelemetryTypeOK
<1>8. ASSUME NEW j \in DOMAIN spans'
      PROVE  /\ spans'[j].parent < j /\ spans'[j].start < telemetryClock'
             /\ spans'[j].end # NotGiven => spans'[j].end \in spans'[j].start..telemetryClock'
  <2>1. /\ spans[j].parent < j /\ spans[j].start < telemetryClock
        /\ spans[j].end # NotGiven => spans[j].end \in spans[j].start..telemetryClock
    BY <1>6 DEF TelemetryInv, TraceInv
  <2>2. /\ j \in DOMAIN spans /\ spans[j] \in SpanRecords /\ spans[j].start \in Nat /\ spans[j].end \in Nat
    BY <1>3, <1>6, SpanFacts
  <2>3. /\ spans'[j].parent = spans[j].parent /\ spans'[j].start = spans[j].start
        /\ spans'[j].end = IF j = i THEN telemetryClock ELSE spans[j].end
    BY <1>6, <2>2 DEF SpanRecords
  <2>4. QED BY <1>4, <1>5, <2>1, <2>2, <2>3
<1>9. TraceInv' BY <1>8 DEF TraceInv, NotGiven
<1>10. QED BY <1>2, <1>7, <1>9 DEF TelemetryInv

LEMMA LinkSpanKeeps ==
  ASSUME TelemetryInv, NEW i \in DOMAIN spans, NEW target \in DOMAIN spans, LinkSpan(i, target)
  PROVE  TelemetryInv'
<1>1. pack' = Unwritten /\ imported' = <<>> BY NotWritten DEF LinkSpan, Recording, Unwritten
<1>2. PackInv' /\ TelemetryIsTrue' BY <1>1, NothingImported
<1>3. TelemetryTypeOK BY DEF TelemetryInv
<1>4. PICK kept \in BOOLEAN : spans' = [spans EXCEPT ![i].links = Append(@, [to |-> target, kept |-> kept])]
  BY DEF LinkSpan
<1> DEFINE longer == Append(spans[i].links, [to |-> target, kept |-> kept])
<1>5. longer \in Seq(LinkRecords)
  <2>1. target \in Nat /\ spans[i].links \in Seq(LinkRecords) BY <1>3, SpanFacts
  <2>2. [to |-> target, kept |-> kept] \in LinkRecords BY <2>1 DEF LinkRecords
  <2>3. QED BY <2>1, <2>2, AppendProperties
<1>6. spans' = [spans EXCEPT ![i] = [spans[i] EXCEPT !.links = longer]] BY <1>4
<1>. HIDE DEF longer
<1>7. UNCHANGED <<told, telemetryClock, logs>> BY DEF LinkSpan
<1>8. /\ spans' \in Seq(SpanRecords) /\ DOMAIN spans' = DOMAIN spans
      /\ \A j \in DOMAIN spans : spans'[j] = IF j = i THEN [spans[i] EXCEPT !.links = longer] ELSE spans[j]
  <2>1. [spans[i] EXCEPT !.links = longer] \in SpanRecords BY <1>3, <1>5, SpanFacts DEF SpanRecords
  <2>2. spans \in Seq(SpanRecords) /\ DOMAIN spans = 1..Len(spans) BY <1>3, SpanFacts DEF TelemetryTypeOK
  <2>3. QED BY <1>6, <2>1, <2>2
<1>9. TelemetryTypeOK' BY <1>1, <1>3, <1>7, <1>8 DEF TelemetryTypeOK
<1>10. ASSUME NEW j \in DOMAIN spans'
       PROVE  /\ spans'[j].parent = spans[j].parent /\ spans'[j].start = spans[j].start
              /\ spans'[j].end = spans[j].end
  <2>1. j \in DOMAIN spans /\ spans[j] \in SpanRecords BY <1>3, <1>8, SpanFacts
  <2>2. QED BY <1>8, <2>1 DEF SpanRecords
<1>11. TraceInv' BY <1>7, <1>8, <1>10 DEF TelemetryInv, TraceInv, NotGiven
<1>12. QED BY <1>2, <1>9, <1>11 DEF TelemetryInv

LEMMA WriteLogKeeps ==
  ASSUME TelemetryInv, NEW service \in Services, NEW s \in Earlier, WriteLog(service, s)
  PROVE  TelemetryInv'
<1>1. pack' = Unwritten /\ imported' = <<>> BY NotWritten DEF WriteLog, Recording, Unwritten
<1>2. PackInv' /\ TelemetryIsTrue' BY <1>1, NothingImported
<1>3. TelemetryTypeOK BY DEF TelemetryInv
<1>4. /\ logs' = Append(logs, [service |-> service, span |-> s, time |-> telemetryClock])
      /\ telemetryClock' = telemetryClock + 1 /\ UNCHANGED <<told, spans>>
  BY DEF WriteLog
<1>5. s \in Nat BY <1>3, SpanFacts DEF Earlier
<1>6. [service |-> service, span |-> s, time |-> telemetryClock] \in LogRecords
  BY <1>3, <1>5, SpanFacts DEF LogRecords
<1>7. logs' \in Seq(LogRecords) BY <1>3, <1>4, <1>6, AppendProperties DEF TelemetryTypeOK
<1>8. TelemetryTypeOK' BY <1>1, <1>3, <1>4, <1>7, SpanFacts DEF TelemetryTypeOK
<1>9. ASSUME NEW i \in DOMAIN spans
      PROVE  /\ spans[i].parent < i /\ spans[i].start < telemetryClock + 1
             /\ spans[i].end # NotGiven => spans[i].end \in spans[i].start..telemetryClock + 1
  <2>1. /\ spans[i].parent < i /\ spans[i].start < telemetryClock
        /\ spans[i].end # NotGiven => spans[i].end \in spans[i].start..telemetryClock
    BY DEF TelemetryInv, TraceInv
  <2>2. QED BY <1>3, <2>1, SpanFacts
<1>10. TraceInv' BY <1>4, <1>9 DEF TraceInv, NotGiven
<1>11. QED BY <1>2, <1>8, <1>10 DEF TelemetryInv

-----------------------------------------------------------------------------
(* The document of the spans.                                              *)

\* Without a span that is in it twice, a document has as many entries as spans,
\* and conversely.
LEMMA DocumentFacts ==
  ASSUME TelemetryInv, NEW document \in SUBSET ((DOMAIN spans) \X {1, 2})
  PROVE  LET exported == {item[1] : item \in document} IN
         /\ IsFiniteSet(document) /\ IsFiniteSet(exported) /\ exported \subseteq DOMAIN spans
         /\ Cardinality(exported) = Cardinality(document)
              <=> \A a, b \in document : a[1] = b[1] => a = b
<1> DEFINE exported == {item[1] : item \in document}
           first == [item \in document |-> item[1]]
<1>1. IsFiniteSet(DOMAIN spans) BY SpanFacts, FS_Interval DEF TelemetryInv
<1>2. IsFiniteSet({1, 2})
  <2>1. IsFiniteSet({1}) /\ IsFiniteSet({2}) BY FS_Singleton
  <2>2. IsFiniteSet({1} \union {2}) BY <2>1, FS_Union
  <2>3. {1, 2} = {1} \union {2} OBVIOUS
  <2>4. QED BY <2>2, <2>3
<1>3. IsFiniteSet((DOMAIN spans) \X {1, 2}) BY <1>1, <1>2, FS_Product
<1>4. IsFiniteSet(document) BY <1>3, FS_Subset
<1>5. exported \subseteq DOMAIN spans OBVIOUS
<1>6. IsFiniteSet(exported) BY <1>1, <1>5, FS_Subset
<1>7. /\ exported = {first[x] : x \in document} /\ first \in [document -> {first[x] : x \in document}]
      /\ \A a \in document : first[a] = a[1]
  OBVIOUS
<1>8. first \in Surjection(document, exported) BY DEF Surjection
<1>. HIDE DEF first, exported
<1>9. ASSUME \A a, b \in document : a[1] = b[1] => a = b PROVE Cardinality(exported) = Cardinality(document)
  <2>1. \A a, b \in document : first[a] = first[b] => a = b BY <1>7, <1>9
  <2>2. first \in [document -> {first[x] : x \in document}] BY <1>7
  <2>3. Cardinality({first[x] : x \in document}) = Cardinality(document) BY <1>4, <2>1, <2>2, ImageCount
  <2>4. QED BY <1>7, <2>3
<1>10. ASSUME Cardinality(exported) = Cardinality(document), NEW a \in document, NEW b \in document, a[1] = b[1]
       PROVE  a = b
  <2>1. first \in Injection(document, exported) BY <1>4, <1>8, <1>10, FS_SurjSameCardinalityImpliesInj
  <2>2. first[a] = first[b] BY <1>7, <1>10
  <2>3. QED BY <2>1, <2>2 DEF Injection, IsInjective
<1>11. QED BY <1>4, <1>5, <1>6, <1>9, <1>10 DEF exported

(* As many references to a parent as spans with one.                       *)
LEMMA ParentCount ==
  ASSUME NEW exported, IsFiniteSet(exported)
  PROVE  /\ IsFiniteSet(ParentReferences(exported))
         /\ Cardinality(ParentReferences(exported)) = Cardinality({i \in exported : spans[i].parent # NotGiven})
<1> DEFINE S == {i \in exported : spans[i].parent # NotGiven}
           f == [i \in S |-> <<spans[i].parent, i>>]
<1>1. IsFiniteSet(S) BY FS_Subset
<1>2. ParentReferences(exported) = {f[i] : i \in S}
  <2>1. ParentReferences(exported) = {<<spans[i].parent, i>> : i \in S} BY DEF ParentReferences
  <2>2. \A i \in S : f[i] = <<spans[i].parent, i>> OBVIOUS
  <2>. HIDE DEF f
  <2>3. QED BY <2>1, <2>2
<1>3. f \in [S -> {f[i] : i \in S}] OBVIOUS
<1>4. \A i, j \in S : f[i] = f[j] => i = j OBVIOUS
<1>. HIDE DEF f
<1>5. QED BY <1>1, <1>2, <1>3, <1>4, ImageCount

(* The links of finitely many spans are finitely many.                     *)
LEMMA LinksAreFinite ==
  ASSUME TelemetryTypeOK, NEW exported \in SUBSET (DOMAIN spans), IsFiniteSet(exported)
  PROVE  /\ IsFiniteSet(LinksOf(exported))
         /\ LinkReferences(exported) \subseteq LinksOf(exported)
         /\ KnownLinks(exported) \subseteq LinkReferences(exported)
<1>1. ASSUME NEW i \in exported PROVE IsFiniteSet({i} \X DOMAIN spans[i].links)
  <2>1. spans[i].links \in Seq(LinkRecords) BY SpanFacts
  <2>2. IsFiniteSet(DOMAIN spans[i].links)
    <3>1. DOMAIN spans[i].links = 1..Len(spans[i].links) /\ Len(spans[i].links) \in Nat BY <2>1
    <3>2. QED BY <3>1, FS_Interval
  <2>3. QED BY <2>2, FS_Singleton, FS_Product
<1> DEFINE Parts == {{i} \X DOMAIN spans[i].links : i \in exported}
<1>2. IsFiniteSet(Parts)
  <2> DEFINE f == [i \in exported |-> {i} \X DOMAIN spans[i].links]
  <2>1. f \in Surjection(exported, Parts) BY DEF Surjection
  <2>2. QED BY <2>1, FS_Surjection
<1>3. \A P \in Parts : IsFiniteSet(P) BY <1>1
<1>4. IsFiniteSet(UNION Parts) BY <1>2, <1>3, FS_UNION
<1>5. QED BY <1>4 DEF LinksOf, LinkReferences, KnownLinks

\* What is known of a link of the spans that arrived.
LEMMA LinkIs ==
  ASSUME NEW exported, NEW l
  PROVE  /\ l \in LinksOf(exported) <=>
              l = <<l[1], l[2]>> /\ l[1] \in exported /\ l[2] \in DOMAIN spans[l[1]].links
         /\ l \in KnownLinks(exported) <=>
              l \in LinksOf(exported) /\ spans[l[1]].links[l[2]].kept /\ LinkTo(l) \in exported
BY DEF LinksOf, LinkReferences, KnownLinks

(* Spans that are linked to others, and to each of them once, are accepted *)
(* as they are.                                                            *)
LEMMA LinkedOnce ==
  ASSUME NEW exported, \A i \in exported : ~LinksTwice(i, exported) /\ ~LinksItself(i)
  PROVE  ValidLinks(exported)
<1>1. ASSUME NEW l \in KnownLinks(exported) PROVE LinkTo(l) # l[1]
  <2>1. l[1] \in exported /\ l[2] \in DOMAIN spans[l[1]].links /\ spans[l[1]].links[l[2]].kept BY LinkIs
  <2>2. QED BY <2>1 DEF LinksItself, LinkTo
<1>2. ASSUME NEW l \in KnownLinks(exported), NEW k \in KnownLinks(exported), k[1] = l[1], LinkTo(k) = LinkTo(l)
      PROVE  k = l
  <2>1. /\ l = <<l[1], l[2]>> /\ l[1] \in exported /\ l[2] \in DOMAIN spans[l[1]].links
        /\ spans[l[1]].links[l[2]].kept /\ LinkTo(l) \in exported
    BY LinkIs
  <2>2. k = <<k[1], k[2]>> /\ k[2] \in DOMAIN spans[k[1]].links /\ spans[k[1]].links[k[2]].kept BY LinkIs
  <2>3. k[2] = l[2] BY <1>2, <2>1, <2>2 DEF LinksTwice, LinkTo
  <2>4. QED BY <1>2, <2>1, <2>2, <2>3
<1>3. QED BY <1>1, <1>2 DEF ValidLinks

(* What a span that is linked twice to another or to itself makes of a     *)
(* true export, a span that is in it twice, and its size: nothing else is  *)
(* refused.  The parent of a span is an earlier one, so that no set of     *)
(* spans has all its parents.                                              *)
LEMMA TrueTrace ==
  ASSUME TelemetryInv, NEW document \in SUBSET ((DOMAIN spans) \X {1, 2}), NEW limit \in SizeLimits,
         ~Unreadable(document, limit)
  PROVE  TraceAccepted(document, limit)
<1> DEFINE exported == {item[1] : item \in document}
           parents == {r \in ParentReferences(exported) : r[1] \in exported}
<1>1. TelemetryTypeOK /\ TraceInv BY DEF TelemetryInv
<1>0. /\ document # {} /\ \A item \in document : <<item[1], 3 - item[2]>> \notin document
      /\ \A i \in exported : ~LinksTwice(i, exported) /\ ~LinksItself(i)
      /\ ~(Cardinality(document) > limit.spans) /\ ~(Cardinality(LinkReferences(exported)) > limit.links)
  BY DEF Unreadable, Twice
<1>2. exported \subseteq DOMAIN spans /\ exported # {} BY <1>0
<1>3. \A i \in exported : /\ i \in Nat /\ spans[i].parent < i
                          /\ spans[i].end # NotGiven => spans[i].start <= spans[i].end
  BY <1>1, <1>2, SpanFacts DEF TraceInv
<1>4. ASSUME NEW a \in document, NEW b \in document, a[1] = b[1] PROVE a = b
  <2>1. a = <<a[1], a[2]>> /\ b = <<b[1], b[2]>> /\ a[2] \in {1, 2} /\ b[2] \in {1, 2} OBVIOUS
  <2>2. a[2] # b[2] => b[2] = 3 - a[2] BY <2>1
  <2>3. <<a[1], 3 - a[2]>> \notin document BY <1>0
  <2>4. QED BY <1>4, <2>1, <2>2, <2>3
<1>5. Cardinality(exported) = Cardinality(document) BY <1>4, DocumentFacts
<1>6. \A r \in ParentReferences(exported) : r[2] \in exported /\ r[1] < r[2] /\ r = <<r[1], r[2]>>
  BY <1>3 DEF ParentReferences
<1>7. ValidLinks(exported) BY <1>0, LinkedOnce
<1>s. Cardinality(document) <= limit.spans /\ Cardinality(LinkReferences(exported)) <= limit.links
  <2>1. limit.spans \in Nat /\ limit.links \in Nat BY SizeAssumption DEF SizeAssumption
  <2>2. IsFiniteSet(document) /\ IsFiniteSet(exported) BY DocumentFacts
  <2>3. IsFiniteSet(LinkReferences(exported)) BY <1>1, <1>2, <2>2, LinksAreFinite, FS_Subset
  <2>4. Cardinality(document) \in Nat /\ Cardinality(LinkReferences(exported)) \in Nat
    BY <2>2, <2>3, FS_CardinalityType
  <2>5. QED BY <1>0, <2>1, <2>4
<1>8. ASSUME NEW cycle \in SUBSET {e[2] : e \in parents}, cycle # {},
             \A child \in cycle : \E e \in parents : e[2] = child /\ e[1] \in cycle
      PROVE  FALSE
  <2>1. cycle \subseteq exported
    <3>1. \A child \in cycle : \E e \in parents : e[2] = child BY <1>8
    <3>2. \A e \in parents : e[2] \in exported BY <1>6
    <3>3. QED BY <3>1, <3>2
  <2>2. cycle \in SUBSET Nat BY <1>3, <2>1
  <2>3. PICK first \in cycle : \A i \in cycle : first <= i BY <1>8, <2>2, LeastNumber
  <2>4. PICK e \in parents : e[2] = first /\ e[1] \in cycle BY <1>8
  <2>5. e[1] < first BY <1>6, <2>4
  <2>6. first <= e[1] /\ first \in Nat /\ e[1] \in Nat BY <2>2, <2>3, <2>4
  <2>7. QED BY <2>5, <2>6
<1>9. ValidParentHierarchy(parents) BY <1>8 DEF ValidParentHierarchy
<1>10. QED BY <1>2, <1>3, <1>5, <1>7, <1>9, <1>s DEF TraceAccepted

(* Every link that was made is an edge, or counted as missing.             *)
LEMMA LinkCount ==
  ASSUME TelemetryTypeOK, NEW exported \in SUBSET (DOMAIN spans), IsFiniteSet(exported), ValidLinks(exported)
  PROVE  Cardinality({<<LinkTo(l), l[1]>> : l \in KnownLinks(exported)})
           + (Cardinality(LinksOf(exported) \ LinkReferences(exported))
                + Cardinality(LinkReferences(exported) \ KnownLinks(exported)))
           = Cardinality(LinksOf(exported))
<1> DEFINE made == LinksOf(exported)
           sent == LinkReferences(exported)
           known == KnownLinks(exported)
           f == [l \in known |-> <<LinkTo(l), l[1]>>]
<1>1. IsFiniteSet(made) /\ sent \subseteq made /\ known \subseteq sent BY LinksAreFinite
<1>2. \A l, k \in known : f[l] = f[k] => l = k BY DEF ValidLinks
<1>3. {<<LinkTo(l), l[1]>> : l \in known} = {f[l] : l \in known} /\ f \in [known -> {f[l] : l \in known}]
  OBVIOUS
<1>. HIDE DEF made, sent, known, f
<1>4. IsFiniteSet(sent) /\ IsFiniteSet(known) /\ IsFiniteSet(made \ sent) /\ IsFiniteSet(sent \ known)
  BY <1>1, FS_Subset, FS_Difference
<1>5. Cardinality({<<LinkTo(l), l[1]>> : l \in known}) = Cardinality(known) BY <1>2, <1>3, <1>4, ImageCount
<1>6. Cardinality(sent) = Cardinality(known) + Cardinality(sent \ known)
  <2>1. known \intersect (sent \ known) = {} /\ known \union (sent \ known) = sent BY <1>1
  <2>2. QED BY <1>4, <2>1, DisjointCount
<1>7. Cardinality(made) = Cardinality(sent) + Cardinality(made \ sent)
  <2>1. sent \intersect (made \ sent) = {} /\ sent \union (made \ sent) = made BY <1>1
  <2>2. QED BY <1>4, <2>1, DisjointCount
<1>8. /\ Cardinality(known) \in Nat /\ Cardinality(sent) \in Nat /\ Cardinality(made) \in Nat
      /\ Cardinality(made \ sent) \in Nat /\ Cardinality(sent \ known) \in Nat
  BY <1>1, <1>4, FS_CardinalityType
<1>9. Cardinality({<<LinkTo(l), l[1]>> : l \in known}) + (Cardinality(made \ sent) + Cardinality(sent \ known))
        = Cardinality(made)
  BY <1>5, <1>6, <1>7, <1>8
<1>10. QED BY <1>9 DEF made, sent, known

(* An execution that is over is as long as its spans.                      *)
LEMMA SpansInside ==
  ASSUME TelemetryInv, NEW exported \in SUBSET (DOMAIN spans), exported # {}, TimingComplete(exported)
  PROVE  \A i \in exported :
           spans[i].end \in Min({spans[j].start : j \in exported})..Max({spans[j].end : j \in exported})
<1> DEFINE starts == {spans[j].start : j \in exported}
           ends == {spans[j].end : j \in exported}
<1>1. TelemetryTypeOK /\ TraceInv BY DEF TelemetryInv
<1>2. \A i \in exported : /\ spans[i].start \in Nat /\ spans[i].end \in Nat
                          /\ spans[i].start <= spans[i].end /\ spans[i].end <= telemetryClock
  BY <1>1, SpanFacts DEF TraceInv, TimingComplete
<1>3. starts \in SUBSET Nat /\ starts # {} /\ ends \in SUBSET Nat /\ ends # {} BY <1>2
<1>4. telemetryClock \in Nat /\ \A n \in ends : n <= telemetryClock BY <1>1, <1>2, SpanFacts
<1>. HIDE DEF starts, ends
<1>5. Max(ends) \in ends /\ \A n \in ends : n <= Max(ends) BY <1>3, <1>4, GreatestNumber
<1>6. Min(starts) \in starts /\ \A n \in starts : Min(starts) <= n
  <2>1. \E x \in starts : \A y \in starts : x <= y BY <1>3, LeastNumber
  <2>2. QED BY <2>1 DEF Min
<1>7. ASSUME NEW i \in exported PROVE spans[i].end \in Min(starts)..Max(ends)
  <2>1. spans[i].start \in starts /\ spans[i].end \in ends BY DEF starts, ends
  <2>2. Min(starts) \in Nat /\ Max(ends) \in Nat BY <1>3, <1>5, <1>6
  <2>3. Min(starts) <= spans[i].start /\ spans[i].end <= Max(ends) BY <1>5, <1>6, <2>1
  <2>4. QED BY <1>2, <2>2, <2>3
<1>8. QED BY <1>7 DEF starts, ends

LEMMA ImportTraceKeeps ==
  ASSUME TelemetryInv, NEW document \in SUBSET ((DOMAIN spans) \X {1, 2}), ImportTrace(document)
  PROVE  TelemetryInv'
<1>1. imported = <<>> /\ imported' = <<>> /\ UNCHANGED <<told, telemetryClock, spans, logs>>
  BY NotWritten DEF ImportTrace
<1>2. TelemetryTypeOK' /\ TraceInv' BY <1>1 DEF TelemetryInv, TelemetryTypeOK, TraceInv, NotGiven
<1>l. PICK limit \in SizeLimits :
        pack' = IF TraceAccepted(document, limit) THEN Normalized(document) ELSE RefusedTrace(document, limit)
  BY DEF ImportTrace
<1>u. Unreadable(document, limit)' <=> Unreadable(document, limit)
  BY <1>1 DEF Unreadable, Twice, LinksTwice, LinksItself, LinkReferences, LinksOf
<1>3. ASSUME ~TraceAccepted(document, limit) PROVE PackInv' /\ TelemetryIsTrue'
  <2>1. pack' = RefusedTrace(document, limit) BY <1>3, <1>l
  <2>2. /\ pack'.state = "refused" /\ pack'.state # "written"
        /\ pack'.document = document /\ pack'.limit = limit
    BY <2>1 DEF RefusedTrace
  <2>3. Unreadable(document, limit)' BY <1>3, <1>u, TrueTrace
  <2>4. TelemetryIsTrue' BY <2>2, <2>3 DEF TelemetryIsTrue, Unreadable
  <2>5. QED BY <1>1, <2>2, <2>4 DEF PackInv
<1>4. ASSUME TraceAccepted(document, limit) PROVE PackInv' /\ TelemetryIsTrue'
  <2> DEFINE exported == {item[1] : item \in document}
             all == ParentReferences(exported)
             known == {r \in all : r[1] \in exported}
             Entity(item) == [service |-> spans[item[1]].service, origin |-> <<"spans", item[2]>>]
             entitiesNow == {Entity(item) : item \in document}
  <2>1. pack' = Normalized(document) BY <1>4, <1>l
  <2>2. exported # {} /\ Cardinality(exported) = Cardinality(document) /\ ValidLinks(exported)
    BY <1>4 DEF TraceAccepted
  <2>3. IsFiniteSet(exported) /\ exported \in SUBSET (DOMAIN spans) /\ \A a, b \in document : a[1] = b[1] => a = b
    BY <2>2, DocumentFacts
  <2>4. /\ pack'.state = "written" /\ DOMAIN pack' = PackFields
        /\ pack'.entities = entitiesNow
        /\ pack'.spans = [i \in exported |-> Entity(CHOOSE item \in document : item[1] = i)]
        /\ pack'.started = Min({spans[i].start : i \in exported})
        /\ pack'.finished = IF TimingComplete(exported) THEN Max({spans[i].end : i \in exported}) ELSE NotGiven
        /\ pack'.parents = known /\ pack'.missingParents = Cardinality(all \ known)
        /\ pack'.links = {<<LinkTo(l), l[1]>> : l \in KnownLinks(exported)}
        /\ pack'.missingLinks = Cardinality(LinksOf(exported) \ LinkReferences(exported))
                                  + Cardinality(LinkReferences(exported) \ KnownLinks(exported))
        /\ pack'.missingLogSpans = 0 /\ pack'.logs = {}
    BY <2>1 DEF Normalized, PackFields
  <2>. HIDE DEF exported
  <2>5. Cardinality(known) + Cardinality(all \ known) = Cardinality({i \in exported : spans[i].parent # NotGiven})
    <3>1. IsFiniteSet(all) /\ Cardinality(all) = Cardinality({i \in exported : spans[i].parent # NotGiven})
      BY <2>3, ParentCount
    <3>2. IsFiniteSet(known) /\ IsFiniteSet(all \ known) BY <3>1, FS_Subset
    <3>3. known \intersect (all \ known) = {} /\ known \union (all \ known) = all OBVIOUS
    <3>4. QED BY <3>1, <3>2, <3>3, DisjointCount
  <2>6. \A i \in exported : \A k \in DOMAIN spans[i].links :
          spans[i].links[k].kept /\ spans[i].links[k].to \in exported => <<spans[i].links[k].to, i>> \in pack'.links
    <3>1. ASSUME NEW i \in exported, NEW k \in DOMAIN spans[i].links,
                 spans[i].links[k].kept, spans[i].links[k].to \in exported
          PROVE  <<spans[i].links[k].to, i>> \in pack'.links
      <4>1. LinkTo(<<i, k>>) = spans[i].links[k].to BY DEF LinkTo
      <4>2. <<i, k>> \in KnownLinks(exported) BY <3>1, <4>1, LinkIs
      <4>3. QED BY <2>4, <4>1, <4>2
    <3>2. QED BY <3>1
  <2>k. Cardinality(pack'.links) + pack'.missingLinks = Cardinality(LinksOf(exported))
    <3>1. TelemetryTypeOK BY DEF TelemetryInv
    <3>2. QED BY <2>2, <2>3, <2>4, <3>1, LinkCount
  <2>7. pack'.finished # NotGiven => \A i \in exported : spans[i].end \in pack'.started..pack'.finished
    BY <2>2, <2>3, <2>4, SpansInside
  <2>8. {pack'.spans[i] : i \in exported} = entitiesNow
    <3>1. \A item \in document : item[1] \in exported /\ pack'.spans[item[1]] = Entity(item)
      <4>1. ASSUME NEW item \in document PROVE (CHOOSE x \in document : x[1] = item[1]) = item BY <2>3
      <4>2. \A item \in document : item[1] \in exported BY DEF exported
      <4>3. QED BY <2>4, <4>1, <4>2
    <3>2. \A i \in exported : \E item \in document : item[1] = i BY DEF exported
    <3>. HIDE DEF Entity
    <3>3. QED BY <3>1, <3>2
  <2>9. DOMAIN pack'.spans = exported BY <2>4
  <2>10. Cardinality({}) = 0 BY FS_EmptySet
  <2>. HIDE DEF all, known, entitiesNow, Entity
  <2>11. TelemetryIsTrue'
    <3>1. pack'.state # "refused" BY <2>4
    <3>2. \A event \in pack'.logs : OwnLog(event)' BY <2>4
    <3>3. \A i \in DOMAIN imported' : FALSE BY <1>1
    <3>4. pack'.missingLogSpans = Cardinality({e \in pack'.logs : e.span = NotGiven /\ logs'[e.log].span # NotGiven})
      BY <2>4, <2>10
    <3>5. pack'.entities = {pack'.spans[i] : i \in exported} \union {e.entity : e \in pack'.logs} BY <2>4, <2>8
    <3>6. Cardinality(pack'.parents) + pack'.missingParents = Cardinality({i \in exported : spans'[i].parent # NotGiven})
      BY <1>1, <2>4, <2>5
    <3>7. Cardinality(pack'.links) + pack'.missingLinks = Cardinality(LinksOf(exported)')
      BY <1>1, <2>k DEF LinksOf
    <3>8. QED BY <1>1, <2>6, <2>7, <2>9, <3>1, <3>2, <3>3, <3>4, <3>5, <3>6, <3>7 DEF TelemetryIsTrue, NotGiven, LinksOf
  <2>12. PackInv' BY <1>1, <2>3, <2>4, <2>9, FS_EmptySet DEF PackInv
  <2>13. QED BY <2>11, <2>12
<1>5. QED BY <1>2, <1>3, <1>4 DEF TelemetryInv

-----------------------------------------------------------------------------
(* A document of logs.                                                     *)

\* What becomes of the log l of the document with that number.
OwnerOf(l, number) == IF Linked(logs[l]) THEN pack.spans[logs[l].span] ELSE LogEntity(logs[l].service, number)
LogEvent(l, number) ==
  [log |-> l, number |-> number, entity |-> OwnerOf(l, number),
   span |-> IF Linked(logs[l]) THEN logs[l].span ELSE NotGiven]

Kept(document) == {l \in document : InWindow(logs[l])}
Users(L, number) == {logs[l].service : l \in {k \in L : OwnerOf(k, number) = LogEntity(logs[k].service, number)}}

LEMMA EventsAdded ==
  ASSUME NEW document, NEW n
  PROVE  PlanLogs(document, n).logs = {LogEvent(l, n) : l \in Kept(document)}
BY DEF PlanLogs, LogEvent, OwnerOf, Kept

LEMMA PlanIs ==
  ASSUME NEW document, NEW n
  PROVE  /\ PlanLogs(document, n).outside = Cardinality(document \ Kept(document))
         /\ PlanLogs(document, n).missing
              = Cardinality({l \in Kept(document) : logs[l].span # NotGiven /\ ~Linked(logs[l])})
         /\ PlanLogs(document, n).entities
              = {LogEntity(service, n) : service \in Users(Kept(document), n)} \ pack.entities
         /\ PlanLogs(document, n).ambiguous
              = Cardinality({service \in Users(Kept(document), n) : Ambiguous(service)})
BY DEF PlanLogs, LogEvent, OwnerOf, Kept, Users

LEMMA LogEventIs ==
  ASSUME NEW l, NEW n
  PROVE  /\ LogEvent(l, n).log = l /\ LogEvent(l, n).number = n /\ LogEvent(l, n).entity = OwnerOf(l, n)
         /\ LogEvent(l, n).span = IF Linked(logs[l]) THEN logs[l].span ELSE NotGiven
BY DEF LogEvent

(* As many events as logs that they are about.                             *)
LEMMA EventCount ==
  ASSUME NEW L, IsFiniteSet(L), NEW n
  PROVE  /\ IsFiniteSet({LogEvent(l, n) : l \in L})
         /\ Cardinality({LogEvent(l, n) : l \in L}) = Cardinality(L)
<1> DEFINE f == [l \in L |-> LogEvent(l, n)]
<1>1. {LogEvent(l, n) : l \in L} = {f[l] : l \in L} OBVIOUS
<1>2. f \in [L -> {f[l] : l \in L}] OBVIOUS
<1>3. ASSUME NEW l \in L, NEW k \in L, f[l] = f[k] PROVE l = k
  <2>1. LogEvent(l, n) = LogEvent(k, n) BY <1>3
  <2>2. QED BY <2>1, LogEventIs
<1>. HIDE DEF f
<1>4. QED BY <1>1, <1>2, <1>3, ImageCount

(* A log without a span that arrived is given to an entity of its own      *)
(* service, or to one of its name.                                         *)
LEMMA OwnerIsOwn ==
  ASSUME told \in {"instance", "name", "none"}, NEW service, NEW number
  PROVE  LogEntity(service, number).service = service \/ told = "name"
<1>1. CASE Matching(service) = {} BY <1>1 DEF LogEntity
<1>2. CASE Matching(service) # {}
  <2>1. Matching(service) = MatchesOf(service) BY <1>2 DEF Matching
  <2>2. LogEntity(service, number) \in MatchesOf(service) BY <1>2, <2>1 DEF LogEntity
  <2>3. MatchesOf(service) \subseteq Namesakes /\ (told = "instance" => \A e \in MatchesOf(service) : e.service = service)
    BY DEF MatchesOf
  <2>4. told # "none" BY <2>2, <2>3 DEF Namesakes
  <2>5. QED BY <2>2, <2>3, <2>4
<1>3. QED BY <1>1, <1>2

LEMMA ImportLogsKeeps ==
  ASSUME TelemetryInv, NEW document \in SUBSET (DOMAIN logs), ImportLogs(document)
  PROVE  TelemetryInv'
<1>0. PICK number : number = Len(imported) + 1 OBVIOUS
<1> DEFINE plan == PlanLogs(document, number)
           kept == Kept(document)
           users == Users(kept, number)
           new == {LogEvent(l, number) : l \in kept}
           report == [document |-> document, outside |-> plan.outside, ambiguous |-> plan.ambiguous]
<1>1. /\ pack.state = "written" /\ DOMAIN pack = PackFields
      /\ DOMAIN pack.spans \subseteq DOMAIN spans /\ IsFiniteSet(pack.logs)
      /\ \A e \in pack.logs : e.log \in DOMAIN logs /\ e.number \in DOMAIN imported
  BY DEF TelemetryInv, PackInv, ImportLogs, Unwritten
<1>2. TelemetryTypeOK BY DEF TelemetryInv
<1>3. /\ Len(imported) \in Nat /\ DOMAIN imported = 1..Len(imported) /\ DOMAIN logs = 1..Len(logs) /\ Len(logs) \in Nat
     /\ number = Len(imported) + 1
  BY <1>0, <1>2 DEF TelemetryTypeOK
<1>4. \A l \in DOMAIN logs : logs[l] \in LogRecords /\ logs[l].span \in Nat
  <2>1. \A l \in 1..Len(logs) : logs[l] \in LogRecords BY <1>2 DEF TelemetryTypeOK
  <2>2. QED BY <1>3, <2>1 DEF LogRecords
<1>5. IsFiniteSet(document)
  <2>1. IsFiniteSet(DOMAIN logs) BY <1>3, FS_Interval
  <2>2. QED BY <2>1, FS_Subset
<1>6. IsFiniteSet(kept) /\ IsFiniteSet(document \ kept) /\ kept \subseteq document BY <1>5, FS_Subset DEF Kept
<1>. HIDE DEF kept, users, new
<1>7. /\ plan.logs = new /\ plan.outside = Cardinality(document \ kept)
      /\ plan.missing = Cardinality({l \in kept : logs[l].span # NotGiven /\ ~Linked(logs[l])})
  <2>1. plan.logs = {LogEvent(l, number) : l \in kept} BY EventsAdded DEF kept
  <2>2. plan.outside = Cardinality(document \ kept) BY PlanIs, Zenon DEF kept
  <2>3. plan.missing = Cardinality({l \in kept : logs[l].span # NotGiven /\ ~Linked(logs[l])}) BY PlanIs, Zenon DEF kept
  <2>4. QED BY <2>1, <2>2, <2>3 DEF new
<1>8. /\ plan.entities = {LogEntity(service, number) : service \in users} \ pack.entities
      /\ plan.ambiguous = Cardinality({service \in users : Ambiguous(service)})
      /\ users = {logs[l].service : l \in {k \in kept : OwnerOf(k, number) = LogEntity(logs[k].service, number)}}
  <2>1. plan.entities = {LogEntity(service, number) : service \in users} \ pack.entities BY PlanIs, Zenon DEF kept, users
  <2>2. plan.ambiguous = Cardinality({service \in users : Ambiguous(service)}) BY PlanIs, Zenon DEF kept, users
  <2>3. users = {logs[l].service : l \in {k \in kept : OwnerOf(k, number) = LogEntity(logs[k].service, number)}}
    BY DEF users, Users
  <2>4. QED BY <2>1, <2>2, <2>3
<1>9. /\ pack' = [pack EXCEPT !.entities = @ \union plan.entities, !.logs = @ \union plan.logs,
                              !.missingLogSpans = @ + plan.missing, !.dropped = @ + plan.dropped]
      /\ imported' = Append(imported, report)
      /\ UNCHANGED <<told, telemetryClock, spans, logs>>
  BY <1>0 DEF ImportLogs
<1>10. report \in ImportRecords
  <2>1. plan.outside \in Nat BY <1>6, <1>7, FS_CardinalityType
  <2>2. IsFiniteSet({service \in users : Ambiguous(service)})
    <3> DEFINE f == [l \in kept |-> logs[l].service]
    <3>1. {logs[l].service : l \in kept} = {f[l] : l \in kept} OBVIOUS
    <3>. HIDE DEF f
    <3>2. IsFiniteSet({f[l] : l \in kept}) BY <1>6, FiniteImage
    <3>3. {service \in users : Ambiguous(service)} \in SUBSET {logs[l].service : l \in kept} BY <1>8
    <3>4. QED BY <3>1, <3>2, <3>3, FS_Subset
  <2>3. plan.ambiguous \in Nat BY <1>8, <2>2, FS_CardinalityType
  <2>4. document \in SUBSET Nat BY <1>3
  <2>. HIDE DEF plan
  <2>5. QED BY <2>1, <2>3, <2>4 DEF ImportRecords
<1>11. report.document = document /\ report.outside = plan.outside OBVIOUS
<1>. HIDE DEF report
<1>12. /\ imported' \in Seq(ImportRecords) /\ Len(imported') = number /\ DOMAIN imported' = 1..number
       /\ \A i \in DOMAIN imported : imported'[i] = imported[i]
       /\ imported'[number] = report
  BY <1>2, <1>3, <1>9, <1>10, AppendProperties DEF TelemetryTypeOK
<1>13. TelemetryTypeOK' /\ TraceInv' BY <1>2, <1>9, <1>12 DEF TelemetryInv, TelemetryTypeOK, TraceInv, NotGiven
<1>. HIDE DEF plan
<1>14. /\ pack'.state = "written" /\ DOMAIN pack' = PackFields /\ pack'.spans = pack.spans
       /\ pack'.parents = pack.parents /\ pack'.missingParents = pack.missingParents /\ pack'.links = pack.links
       /\ pack'.missingLinks = pack.missingLinks
       /\ pack'.started = pack.started /\ pack'.finished = pack.finished
       /\ pack'.logs = pack.logs \union new /\ pack'.entities = pack.entities \union plan.entities
       /\ pack'.missingLogSpans = pack.missingLogSpans + plan.missing
  BY <1>1, <1>7, <1>9 DEF PackFields
<1>15. IsFiniteSet(new) /\ Cardinality(new) = Cardinality(kept) BY <1>6, EventCount DEF new
<1>16. \A e \in new : \E l \in kept : e = LogEvent(l, number) BY DEF new
<1>17. \A l \in kept : LogEvent(l, number) \in new BY DEF new
<1>18. \A e \in new : e.log \in kept /\ e.number = number /\ e = LogEvent(e.log, number) BY <1>16, LogEventIs
<1>19. pack.logs \intersect new = {} /\ \A e \in pack.logs : e.number # number BY <1>1, <1>3, <1>18
<1>20. PackInv'
  <2>1. IsFiniteSet(pack.logs \union new) BY <1>1, <1>15, FS_Union
  <2>2. \A e \in pack'.logs : e.log \in DOMAIN logs /\ e.number \in 1..number BY <1>1, <1>3, <1>6, <1>14, <1>18
  <2>3. QED BY <1>1, <1>9, <1>12, <1>14, <2>1, <2>2 DEF PackInv
<1>21. /\ Cardinality(pack.parents) + pack.missingParents
            = Cardinality({i \in DOMAIN pack.spans : spans[i].parent # NotGiven})
       /\ Cardinality(pack.links) + pack.missingLinks = Cardinality(LinksOf(DOMAIN pack.spans))
       /\ \A i \in DOMAIN pack.spans : \A k \in DOMAIN spans[i].links :
            spans[i].links[k].kept /\ spans[i].links[k].to \in DOMAIN pack.spans
              => <<spans[i].links[k].to, i>> \in pack.links
       /\ pack.finished # NotGiven => \A i \in DOMAIN pack.spans : spans[i].end \in pack.started..pack.finished
       /\ \A event \in pack.logs : OwnLog(event)
       /\ \A i \in DOMAIN imported :
            Cardinality(imported[i].document) = imported[i].outside + Cardinality({e \in pack.logs : e.number = i})
       /\ pack.missingLogSpans = Cardinality({e \in pack.logs : e.span = NotGiven /\ logs[e.log].span # NotGiven})
       /\ pack.entities = {pack.spans[i] : i \in DOMAIN pack.spans} \union {e.entity : e \in pack.logs}
  BY <1>1 DEF TelemetryInv, TelemetryIsTrue
<1>22. \A e \in pack'.logs : OwnLog(e)'
  <2>1. ASSUME NEW e \in pack.logs PROVE OwnLog(e)' BY <1>9, <1>14, <1>21 DEF OwnLog, NotGiven
  <2>2. ASSUME NEW e \in new PROVE OwnLog(e)'
    <3>1. PICK l \in kept : e = LogEvent(l, number) BY <1>16
    <3>2. e.log = l /\ e.entity = OwnerOf(l, number) /\ e.span = IF Linked(logs[l]) THEN logs[l].span ELSE NotGiven
      BY <3>1, LogEventIs
    <3>3. CASE Linked(logs[l])
      <4>1. e.entity = pack.spans[logs[l].span] /\ e.span = logs[l].span BY <3>2, <3>3 DEF OwnerOf
      <4>2. e.span \in DOMAIN pack.spans BY <3>3, <4>1 DEF Linked
      <4>3. e.span # NotGiven BY <1>1, <1>2, <4>2, SpanFacts
      <4>4. QED BY <1>14, <4>1, <4>3 DEF OwnLog, NotGiven
    <3>4. CASE ~Linked(logs[l])
      <4>1. e.entity = LogEntity(logs[l].service, number) /\ e.span = NotGiven BY <3>2, <3>4 DEF OwnerOf
      <4>2. e.entity.service = logs[l].service \/ told = "name" BY <1>2, <4>1, OwnerIsOwn DEF TelemetryTypeOK
      <4>3. QED BY <1>9, <3>2, <4>1, <4>2 DEF OwnLog, NotGiven
    <3>5. QED BY <3>3, <3>4
  <2>3. QED BY <1>14, <2>1, <2>2
<1>23. ASSUME NEW i \in DOMAIN imported'
       PROVE  Cardinality(imported'[i].document)
                = imported'[i].outside + Cardinality({e \in pack'.logs : e.number = i})
  <2>1. CASE i \in DOMAIN imported
    <3>1. i # number BY <1>3, <2>1
    <3>2. {e \in pack'.logs : e.number = i} = {e \in pack.logs : e.number = i} BY <1>14, <1>18, <3>1
    <3>3. QED BY <1>12, <1>21, <2>1, <3>2
  <2>2. CASE i = number
    <3>1. {e \in pack'.logs : e.number = i} = new BY <1>14, <1>18, <1>19, <2>2
    <3>2. Cardinality(document) = Cardinality(document \ kept) + Cardinality(kept)
      <4>1. (document \ kept) \union kept = document /\ (document \ kept) \intersect kept = {} BY <1>6
      <4>2. QED BY <1>6, <4>1, DisjointCount
    <3>3. QED BY <1>7, <1>11, <1>12, <1>15, <2>2, <3>1, <3>2
  <2>3. QED BY <1>3, <1>12, <2>1, <2>2
<1>24. pack'.missingLogSpans = Cardinality({e \in pack'.logs : e.span = NotGiven /\ logs[e.log].span # NotGiven})
  <2> DEFINE old == {e \in pack.logs : e.span = NotGiven /\ logs[e.log].span # NotGiven}
             lost == {l \in kept : logs[l].span # NotGiven /\ ~Linked(logs[l])}
             further == {LogEvent(l, number) : l \in lost}
  <2>1. IsFiniteSet(old) /\ IsFiniteSet(lost) BY <1>1, <1>6, FS_Subset
  <2>2. IsFiniteSet(further) /\ Cardinality(further) = Cardinality(lost) BY <2>1, EventCount
  <2>3. {e \in new : e.span = NotGiven /\ logs[e.log].span # NotGiven} = further
    <3>1. \A l \in kept : (LogEvent(l, number).span = NotGiven /\ logs[l].span # NotGiven) <=> l \in lost
      BY LogEventIs
    <3>2. further \subseteq new BY <1>17
    <3>3. \A l \in kept : LogEvent(l, number).log = l BY LogEventIs
    <3>. HIDE DEF lost
    <3>4. ASSUME NEW e \in new, e.span = NotGiven, logs[e.log].span # NotGiven PROVE e \in further
      <4>1. e.log \in kept /\ e = LogEvent(e.log, number) BY <1>18
      <4>2. e.log \in lost BY <3>1, <3>4, <4>1
      <4>3. QED BY <4>1, <4>2
    <3>5. ASSUME NEW e \in further PROVE e.span = NotGiven /\ logs[e.log].span # NotGiven
      <4>1. PICK l \in lost : e = LogEvent(l, number) OBVIOUS
      <4>2. l \in kept BY DEF lost
      <4>3. QED BY <3>1, <3>3, <4>1, <4>2
    <3>6. QED BY <3>2, <3>4, <3>5
  <2>4. {e \in pack'.logs : e.span = NotGiven /\ logs[e.log].span # NotGiven}
          = old \union {e \in new : e.span = NotGiven /\ logs[e.log].span # NotGiven}
    BY <1>14
  <2>5. further \subseteq new BY <2>3
  <2>6. old \intersect further = {} BY <1>19, <2>5
  <2>7. plan.missing = Cardinality(lost) /\ pack.missingLogSpans = Cardinality(old) BY <1>7, <1>21
  <2>. HIDE DEF old, lost, further
  <2>8. Cardinality(old \union further) = Cardinality(old) + Cardinality(further) BY <2>1, <2>2, <2>6, DisjointCount
  <2>9. QED BY <1>14, <2>2, <2>3, <2>4, <2>7, <2>8
<1>25. pack'.entities = {pack'.spans[i] : i \in DOMAIN pack'.spans} \union {e.entity : e \in pack'.logs}
  <2> DEFINE spanned == {pack.spans[i] : i \in DOMAIN pack.spans}
             logged == {e.entity : e \in new}
  <2>1. pack.entities \union plan.entities = pack.entities \union {LogEntity(service, number) : service \in users}
    BY <1>8
  <2>2. \A service \in users : LogEntity(service, number) \in logged
    <3>1. ASSUME NEW service \in users PROVE LogEntity(service, number) \in logged
      <4>1. PICK l \in kept : OwnerOf(l, number) = LogEntity(logs[l].service, number) /\ logs[l].service = service BY <1>8
      <4>2. LogEvent(l, number).entity = LogEntity(service, number) BY <4>1, LogEventIs
      <4>3. QED BY <1>17, <4>2
    <3>2. QED BY <3>1
  <2>3. ASSUME NEW e \in new PROVE e.entity \in spanned \/ \E service \in users : e.entity = LogEntity(service, number)
    <3>1. PICK l \in kept : e = LogEvent(l, number) BY <1>16
    <3>2. e.entity = OwnerOf(l, number) BY <3>1, LogEventIs
    <3>3. CASE Linked(logs[l]) BY <3>2, <3>3 DEF OwnerOf, Linked
    <3>4. CASE ~Linked(logs[l])
      <4>1. OwnerOf(l, number) = LogEntity(logs[l].service, number) BY <3>4 DEF OwnerOf
      <4>2. logs[l].service \in users BY <1>8, <4>1
      <4>3. QED BY <3>2, <4>1, <4>2
    <3>5. QED BY <3>3, <3>4
  <2>4. {e.entity : e \in pack'.logs} = {e.entity : e \in pack.logs} \union logged BY <1>14
  <2>5. pack.entities = spanned \union {e.entity : e \in pack.logs} BY <1>21
  <2>6. \A x \in logged : x \in spanned \/ \E service \in users : x = LogEntity(service, number) BY <2>3
  <2>7. {pack'.spans[i] : i \in DOMAIN pack'.spans} = spanned BY <1>14
  <2>. HIDE DEF spanned, logged
  <2>8. QED BY <1>14, <2>1, <2>2, <2>4, <2>5, <2>6, <2>7
<1>26. TelemetryIsTrue'
  <2>1. pack'.state # "refused" BY <1>14
  <2>2. Cardinality(pack'.parents) + pack'.missingParents
          = Cardinality({i \in DOMAIN pack'.spans : spans'[i].parent # NotGiven})
    BY <1>9, <1>14, <1>21
  <2>3. /\ Cardinality(pack'.links) + pack'.missingLinks = Cardinality(LinksOf(DOMAIN pack.spans)')
        /\ \A i \in DOMAIN pack'.spans : \A k \in DOMAIN spans'[i].links :
             spans'[i].links[k].kept /\ spans'[i].links[k].to \in DOMAIN pack'.spans
               => <<spans'[i].links[k].to, i>> \in pack'.links
        /\ pack'.finished # NotGiven => \A i \in DOMAIN pack'.spans : spans'[i].end \in pack'.started..pack'.finished
    BY <1>9, <1>14, <1>21 DEF LinksOf
  <2>4. pack'.missingLogSpans = Cardinality({e \in pack'.logs : e.span = NotGiven /\ logs'[e.log].span # NotGiven})
    BY <1>9, <1>24
  <2>5. QED BY <1>22, <1>23, <1>25, <2>1, <2>2, <2>3, <2>4 DEF TelemetryIsTrue, NotGiven
<1>27. QED BY <1>13, <1>20, <1>26 DEF TelemetryInv

(* What is imported of spans and logs is what the services recorded: the   *)
(* import of the spans refuses a true export only for a repeated span, for *)
(* a span that links to itself or twice to another, and for its size; and  *)
(* no import of logs makes anything wrong that was imported before.        *)
THEOREM TrueTelemetry == TelemetrySpec => []TelemetryIsTrue
<1>1. TelemetryInit => TelemetryInv BY TelemetryStarts
<1>2. TelemetryInv /\ [TelemetryNext]_telemetryVars => TelemetryInv'
  <2> SUFFICES ASSUME TelemetryInv, [TelemetryNext]_telemetryVars PROVE TelemetryInv' OBVIOUS
  <2>1. ASSUME NEW service \in Services, NEW parent \in Earlier, StartSpan(service, parent)
        PROVE  TelemetryInv'
    BY <2>1, StartSpanKeeps
  <2>2. ASSUME NEW i \in DOMAIN spans, EndSpan(i) PROVE TelemetryInv' BY <2>2, EndSpanKeeps
  <2>3. ASSUME NEW service \in Services, NEW s \in Earlier, WriteLog(service, s) PROVE TelemetryInv'
    BY <2>3, WriteLogKeeps
  <2>4. ASSUME NEW document \in SUBSET ((DOMAIN spans) \X {1, 2}), ImportTrace(document) PROVE TelemetryInv'
    BY <2>4, ImportTraceKeeps
  <2>5. ASSUME NEW document \in SUBSET DOMAIN logs, ImportLogs(document) PROVE TelemetryInv' BY <2>5, ImportLogsKeeps
  <2>8. ASSUME NEW i \in DOMAIN spans, NEW target \in DOMAIN spans, LinkSpan(i, target) PROVE TelemetryInv'
    BY <2>8, LinkSpanKeeps
  <2>6. CASE UNCHANGED telemetryVars
    <3>1. UNCHANGED <<told, telemetryClock, spans, logs, pack, imported>> BY <2>6 DEF telemetryVars
    <3>2. TelemetryTypeOK' /\ TraceInv' BY <3>1 DEF TelemetryInv, TelemetryTypeOK, TraceInv, NotGiven
    <3>3. PackInv' BY <3>1 DEF TelemetryInv, PackInv, Unwritten
    <3>4. TelemetryIsTrue'
      <4>1. TelemetryIsTrue BY DEF TelemetryInv
      <4>2. Unreadable(pack.document, pack.limit)' <=> Unreadable(pack.document, pack.limit)
        BY <3>1, Zenon DEF Unreadable, Twice, LinksTwice, LinksItself, LinkReferences, LinksOf
      <4>3. CASE pack.state = "refused"
        <5>1. pack'.state # "written" /\ Unreadable(pack.document, pack.limit)'
          BY <3>1, <4>1, <4>2, <4>3 DEF TelemetryIsTrue
        <5>2. QED BY <5>1 DEF TelemetryIsTrue
      <4>4. CASE pack.state # "refused"
        <5>1. pack'.state # "refused" BY <3>1, <4>4
        <5>2. QED BY <3>1, <4>1, <5>1 DEF TelemetryIsTrue, OwnLog, NotGiven, LinksOf
      <4>5. QED BY <4>3, <4>4
    <3>5. QED BY <3>2, <3>3, <3>4 DEF TelemetryInv
  <2>7. QED BY <2>1, <2>2, <2>3, <2>4, <2>5, <2>6, <2>8 DEF TelemetryNext
<1>3. TelemetryInv => TelemetryIsTrue BY DEF TelemetryInv
<1>4. QED BY <1>1, <1>2, <1>3, PTL DEF TelemetrySpec

-----------------------------------------------------------------------------
(* The store.                                                              *)

BatchRows == [id : RowIds, parent : RowIds \union {Unset}]
Graph == [source : RowIds, target : RowIds]
Executions == [start : Nat, finish : Nat]

StoreTypeOK ==
  /\ execution \in Executions
  /\ entities \in SUBSET BatchRows /\ events \in SUBSET EventRows /\ edges \in SUBSET Graph
  /\ IsFiniteSet(entities) /\ IsFiniteSet(events) /\ IsFiniteSet(edges)

StoreInv == StoreTypeOK /\ StoredIsReadable

(* A function may be defined by what follows from one argument to the      *)
(* next: there is one.                                                     *)
Iterates(f, N, S, base, step) ==
  f \in [0..N -> S] /\ \A n \in 0..N : f[n] = IF n = 0 THEN base ELSE step[f[n - 1]]

LEMMA Iterated ==
  ASSUME NEW N \in Nat, NEW S, NEW base \in S, NEW step \in [S -> S]
  PROVE  \E f : Iterates(f, N, S, base, step)
<1>. USE DEF Iterates
<1> DEFINE Upto(f, m) == Iterates(f, m, S, base, step)
           Without == {m \in Nat : ~\E f : Upto(f, m)}
<1>1. SUFFICES ASSUME Without # {} PROVE FALSE OBVIOUS
<1>2. PICK m \in Without : \A n \in Without : m <= n
  <2>1. Without \in SUBSET Nat OBVIOUS
  <2>. HIDE DEF Without
  <2>2. QED BY <1>1, <2>1, LeastNumber
<1>3. CASE m = 0
  <2>1. Upto([n \in 0..0 |-> base], 0) OBVIOUS
  <2>2. QED BY <1>2, <1>3, <2>1
<1>4. CASE m # 0
  <2>1. m \in Nat /\ m - 1 \in Nat /\ m - 1 \notin Without
    <3>1. m \in Nat BY <1>2
    <3>2. m - 1 \in Nat /\ ~(m <= m - 1) BY <1>4, <3>1
    <3>. HIDE DEF Without
    <3>3. QED BY <1>2, <3>1, <3>2
  <2>2. PICK g : Upto(g, m - 1) BY <2>1
  <2> DEFINE f == [n \in 0..m |-> IF n = m THEN step[g[m - 1]] ELSE g[n]]
  <2>3. g[m - 1] \in S /\ step[g[m - 1]] \in S BY <2>1, <2>2
  <2>4. f \in [0..m -> S] BY <2>1, <2>2, <2>3
  <2>5. ASSUME NEW n \in 0..m PROVE f[n] = IF n = 0 THEN base ELSE step[f[n - 1]]
    <3>1. CASE n = m
      <4>1. f[n] = step[g[m - 1]] /\ n # 0 /\ f[n - 1] = g[m - 1] BY <1>4, <2>1, <3>1
      <4>2. QED BY <4>1
    <3>2. CASE n # m
      <4>1. n \in 0..m - 1 /\ f[n] = g[n] BY <2>1, <3>2
      <4>2. n # 0 => f[n - 1] = g[n - 1] BY <2>1, <4>1
      <4>3. QED BY <2>2, <4>1, <4>2
    <3>3. QED BY <3>1, <3>2
  <2>6. Upto(f, m) BY <2>4, <2>5
  <2>. HIDE DEF f
  <2>7. QED BY <1>2, <2>6
<1>5. QED BY <1>3, <1>4

(* What the rounds are.                                                    *)
LEMMA RoundsAre ==
  ASSUME NEW N \in Nat, NEW batch \in [1..N -> BatchRows]
  PROVE  LET rounds == Rounds(batch)
             Ids == {batch[i].id : i \in 1..N} IN
         /\ Len(batch) = N /\ ToSet(batch) = {batch[i] : i \in 1..N} /\ RowKeys(ToSet(batch)) = Ids
         /\ rounds \in [0..N -> SUBSET (1..N)]
         /\ rounds[0] = {i \in 1..N : batch[i].parent \notin Ids}
         /\ \A n \in 1..N : rounds[n] = rounds[n - 1] \union {i \in 1..N : \E j \in rounds[n - 1] : batch[j].id = batch[i].parent}
<1> DEFINE D == 1..N
           Ids == {batch[i].id : i \in D}
           base == {i \in D : batch[i].parent \notin Ids}
           step == [T \in SUBSET D |-> T \union {i \in D : \E j \in T : batch[j].id = batch[i].parent}]
<1>1. batch \in Seq(BatchRows) /\ Len(batch) = N /\ DOMAIN batch = D OBVIOUS
<1>2. ToSet(batch) = {batch[i] : i \in D} BY <1>1 DEF ToSet
<1>3. RowKeys(ToSet(batch)) = Ids BY <1>2 DEF RowKeys
<1>4. base \in SUBSET D /\ step \in [SUBSET D -> SUBSET D] OBVIOUS
<1>5. PICK f \in [0..N -> SUBSET D] : \A n \in 0..N : f[n] = IF n = 0 THEN base ELSE step[f[n - 1]]
  <2> DEFINE sets == SUBSET D
  <2>1. base \in sets /\ step \in [sets -> sets] BY <1>4
  <2>. HIDE DEF base, step, sets
  <2>2. \E f : Iterates(f, N, sets, base, step) BY <2>1, Iterated
  <2>3. QED BY <2>2 DEF sets, Iterates
<1> DEFINE Ready(g) == g = [n \in 0..N |-> IF n = 0 THEN base ELSE g[n - 1] \union {i \in D : \E j \in g[n - 1] : batch[j].id = batch[i].parent}]
<1>6. ASSUME NEW n \in 0..N, n # 0 PROVE step[f[n - 1]] = f[n - 1] \union {i \in D : \E j \in f[n - 1] : batch[j].id = batch[i].parent}
  <2>1. f[n - 1] \in SUBSET D BY <1>5, <1>6
  <2>2. QED BY <2>1
<1>7. Ready(f)
  <2>. HIDE DEF base, step
  <2>1. QED BY <1>5, <1>6
<1>8. Rounds(batch) = CHOOSE g : Ready(g) BY <1>1, <1>3 DEF Rounds
<1>9. Ready(Rounds(batch))
  <2>. HIDE DEF Ready
  <2>1. \E g : Ready(g) BY <1>7
  <2>2. Ready(CHOOSE g : Ready(g)) BY <2>1, Zenon
  <2>3. QED BY <1>8, <2>2, Zenon
<1> DEFINE rounds == Rounds(batch)
<1>. HIDE DEF rounds
<1>10. /\ DOMAIN rounds = 0..N /\ rounds[0] = base
       /\ \A n \in 1..N : rounds[n] = rounds[n - 1] \union {i \in D : \E j \in rounds[n - 1] : batch[j].id = batch[i].parent}
  <2>1. Ready(rounds) BY <1>9 DEF rounds
  <2>. HIDE DEF base
  <2>2. rounds = [n \in 0..N |-> IF n = 0 THEN base ELSE rounds[n - 1] \union {i \in D : \E j \in rounds[n - 1] : batch[j].id = batch[i].parent}]
    BY <2>1
  <2>3. DOMAIN rounds = 0..N BY <2>2
  <2>4. rounds[0] = base
    <3>1. 0 \in 0..N OBVIOUS
    <3>2. QED BY <2>2, <3>1
  <2>5. ASSUME NEW n \in 1..N
        PROVE  rounds[n] = rounds[n - 1] \union {i \in D : \E j \in rounds[n - 1] : batch[j].id = batch[i].parent}
    <3>1. n \in 0..N /\ n # 0 OBVIOUS
    <3>2. QED BY <2>2, <3>1
  <2>6. QED BY <2>3, <2>4, <2>5
<1>11. \A n \in 0..N : rounds[n] \in SUBSET D
  <2> DEFINE Outside == {n \in 0..N : rounds[n] \notin SUBSET D}
  <2>1. SUFFICES ASSUME Outside # {} PROVE FALSE OBVIOUS
  <2>2. PICK n \in Outside : \A m \in Outside : n <= m
    <3>1. Outside \in SUBSET Nat OBVIOUS
    <3>. HIDE DEF Outside
    <3>2. QED BY <2>1, <3>1, LeastNumber
  <2>3. n # 0 BY <1>4, <1>10, <2>2
  <2>4. n \in 1..N /\ n - 1 \in 0..N /\ n - 1 \notin Outside BY <2>2, <2>3
  <2>5. rounds[n - 1] \in SUBSET D BY <2>4
  <2>6. rounds[n] \in SUBSET D BY <1>10, <2>4, <2>5
  <2>7. QED BY <2>2, <2>6
<1>12. rounds \in [0..N -> SUBSET D]
  <2>1. rounds = [n \in 0..N |-> rounds[n]]
    <3>1. Ready(rounds) BY <1>9 DEF rounds
    <3>2. QED BY <1>10, <3>1
  <2>2. QED BY <1>11, <2>1
<1>13. QED BY <1>1, <1>2, <1>3, <1>10, <1>12 DEF rounds

(* A batch without a cycle is taken whole: as long as there are rows that  *)
(* are not ready, another one gets ready.                                  *)
LEMMA AllReady ==
  ASSUME NEW N \in Nat, NEW batch \in [1..N -> BatchRows], ~HasCycle(ToSet(batch))
  PROVE  Rounds(batch)[N] = 1..N
<1> DEFINE D == 1..N
           Ids == {batch[i].id : i \in D}
           rounds == Rounds(batch)
           More(T) == {i \in D : \E j \in T : batch[j].id = batch[i].parent}
<1>1. /\ ToSet(batch) = {batch[i] : i \in D} /\ RowKeys(ToSet(batch)) = Ids
      /\ rounds \in [0..N -> SUBSET D]
      /\ rounds[0] = {i \in D : batch[i].parent \notin Ids}
      /\ \A n \in 1..N : rounds[n] = rounds[n - 1] \union More(rounds[n - 1])
  BY RoundsAre
<1>. HIDE DEF rounds
\* A cycle is where no round gets.
<1>2. ASSUME NEW T \in SUBSET D, T # D, rounds[0] \subseteq T, More(T) \subseteq T
      PROVE  FALSE
  <2> DEFINE S == {batch[i].id : i \in D \ T}
  <2>1. S \in SUBSET Ids /\ S # {} BY <1>2
  <2>2. ASSUME NEW id \in S PROVE \E row \in ToSet(batch) : row.id = id /\ row.parent \in S
    <3>1. PICK i \in D \ T : id = batch[i].id OBVIOUS
    <3>2. batch[i].parent \in Ids BY <1>1, <1>2, <3>1
    <3>3. PICK k \in D : batch[k].id = batch[i].parent BY <3>2
    <3>4. k \notin T BY <1>2, <3>1, <3>3
    <3>5. batch[i].parent \in S /\ batch[i] \in ToSet(batch) BY <1>1, <3>1, <3>3, <3>4
    <3>6. QED BY <3>1, <3>5
  <2>. HIDE DEF S, Ids
  <2>3. HasCycle(ToSet(batch)) BY <1>1, <2>1, <2>2 DEF HasCycle
  <2>4. QED BY <2>3
<1>3. SUFFICES ASSUME rounds[N] # D PROVE FALSE BY DEF rounds
<1> DEFINE Late == {n \in 0..N : ~(Cardinality(rounds[n]) > n /\ rounds[0] \subseteq rounds[n] /\ rounds[n] \subseteq D)}
<1>4. ASSUME NEW n \in 0..N PROVE IsFiniteSet(rounds[n]) /\ Cardinality(rounds[n]) \in Nat /\ Cardinality(rounds[n]) <= N
  <2>1. IsFiniteSet(D) /\ Cardinality(D) = N BY FS_Interval
  <2>2. rounds[n] \in SUBSET D BY <1>1
  <2>3. QED BY <2>1, <2>2, FS_Subset, FS_CardinalityType
<1>5. Late = {}
  <2>1. SUFFICES ASSUME Late # {} PROVE FALSE OBVIOUS
  <2>2. PICK n \in Late : \A m \in Late : n <= m
    <3>1. Late \in SUBSET Nat OBVIOUS
    <3>. HIDE DEF Late
    <3>2. QED BY <2>1, <3>1, LeastNumber
  <2>3. n \in 0..N /\ rounds[n] \subseteq D BY <1>1, <2>2
  <2>4. CASE n = 0
    <3>1. rounds[0] # {}
      <4>1. SUFFICES ASSUME rounds[0] = {} PROVE FALSE OBVIOUS
      <4>2. More({}) = {} OBVIOUS
      <4>3. {} # D
        <5>1. N \in 0..N OBVIOUS
        <5>2. rounds[N] \subseteq D BY <1>1, <5>1
        <5>3. QED BY <1>3, <5>2
      <4>. HIDE DEF More, D
      <4>4. QED BY <1>2, <4>1, <4>2, <4>3
    <3>2. Cardinality(rounds[0]) # 0 /\ Cardinality(rounds[0]) \in Nat BY <1>4, <2>3, <2>4, <3>1, FS_EmptySet
    <3>3. QED BY <2>2, <2>3, <2>4, <3>2
  <2>5. CASE n # 0
    <3>1. n \in 1..N /\ n - 1 \in 0..N BY <2>3, <2>5
    <3>2. n - 1 \notin Late
      <4>1. ~(n <= n - 1) BY <3>1
      <4>. HIDE DEF Late
      <4>2. QED BY <2>2, <4>1
    <3>3. Cardinality(rounds[n - 1]) > n - 1 /\ rounds[0] \subseteq rounds[n - 1] /\ rounds[n - 1] \subseteq D BY <3>1, <3>2
    <3>4. rounds[n] = rounds[n - 1] \union More(rounds[n - 1]) BY <1>1, <3>1
    <3>5. ~(More(rounds[n - 1]) \subseteq rounds[n - 1])
      <4>1. SUFFICES ASSUME More(rounds[n - 1]) \subseteq rounds[n - 1] PROVE FALSE OBVIOUS
      <4>2. CASE rounds[n - 1] # D
        <5>. HIDE DEF More, D
        <5>1. QED BY <1>2, <3>3, <4>1, <4>2
      <4>3. CASE rounds[n - 1] = D
        <5> DEFINE Short == {m \in 0..N : m >= n - 1 /\ rounds[m] # D}
        <5>1. Short # {} BY <1>3, <3>1
        <5>2. PICK m \in Short : \A k \in Short : m <= k
          <6>1. Short \in SUBSET Nat OBVIOUS
          <6>. HIDE DEF Short
          <6>2. QED BY <5>1, <6>1, LeastNumber
        <5>3. m \in 1..N /\ m - 1 \in 0..N /\ m - 1 >= n - 1 /\ m - 1 \notin Short
          <6>1. m # n - 1 BY <4>3, <5>2
          <6>2. m \in 1..N /\ m - 1 \in 0..N /\ m - 1 >= n - 1 /\ ~(m <= m - 1) BY <3>1, <5>2, <6>1
          <6>. HIDE DEF Short
          <6>3. QED BY <5>2, <6>2
        <5>4. rounds[m - 1] = D BY <5>3
        <5>5. rounds[m] = D
          <6>1. rounds[m] = rounds[m - 1] \union More(rounds[m - 1]) BY <1>1, <5>3
          <6>2. QED BY <5>4, <6>1
        <5>6. QED BY <5>2, <5>5
      <4>4. QED BY <4>2, <4>3
    <3>6. rounds[n - 1] \subseteq rounds[n] /\ rounds[n - 1] # rounds[n] BY <3>4, <3>5
    <3>7. Cardinality(rounds[n - 1]) < Cardinality(rounds[n])
      <4>1. IsFiniteSet(rounds[n]) /\ Cardinality(rounds[n]) \in Nat /\ Cardinality(rounds[n - 1]) \in Nat BY <1>4, <2>3, <3>1
      <4>. HIDE DEF More, D
      <4>2. rounds[n - 1] \in SUBSET rounds[n] BY <3>6
      <4>3. Cardinality(rounds[n - 1]) <= Cardinality(rounds[n]) /\ Cardinality(rounds[n - 1]) # Cardinality(rounds[n])
        BY <3>6, <4>1, <4>2, FS_Subset
      <4>4. QED BY <4>1, <4>3
    <3>8. Cardinality(rounds[n]) > n BY <1>4, <2>3, <3>1, <3>3, <3>7
    <3>9. QED BY <2>2, <2>3, <3>3, <3>6, <3>8
  <2>6. QED BY <2>4, <2>5
<1>6. N \in 0..N /\ N \notin Late BY <1>5
<1>7. Cardinality(rounds[N]) > N BY <1>6
<1>8. QED BY <1>4, <1>6, <1>7

(* When a batch is accepted: not a word of the order in which its rows are *)
(* listed.                                                                 *)
LEMMA AcceptedIs ==
  ASSUME NEW N \in Nat, NEW batch \in [1..N -> BatchRows]
  PROVE  AcceptedBatch(batch) <=>
           /\ \A i, j \in 1..N : batch[i].id = batch[j].id => i = j
           /\ \A i \in 1..N : batch[i].id \notin RowKeys(entities)
           /\ \A i \in 1..N : batch[i].parent \in {Unset} \union RowKeys(entities) \union RowKeys(ToSet(batch))
           /\ ~HasCycle(ToSet(batch))
<1> DEFINE D == 1..N
           Ids == {batch[i].id : i \in D}
           rounds == Rounds(batch)
           known == RowKeys(entities)
           Before(i) == {batch[j].id : j \in {k \in D : ParentFirst(rounds, k, i)}}
<1>1. /\ Len(batch) = N /\ DOMAIN batch = D /\ ToSet(batch) = {batch[i] : i \in D} /\ RowKeys(ToSet(batch)) = Ids
      /\ rounds \in [0..N -> SUBSET D] /\ DOMAIN rounds = 0..N
      /\ rounds[0] = {i \in D : batch[i].parent \notin Ids}
      /\ \A n \in 1..N : rounds[n] = rounds[n - 1] \union {i \in D : \E j \in rounds[n - 1] : batch[j].id = batch[i].parent}
  BY RoundsAre
<1>2. ~HasCycle(ToSet(batch)) => rounds[N] = D BY AllReady
<1>. HIDE DEF rounds
<1>3. AcceptedBatch(batch) <=>
        /\ \A i \in D : batch[i].id # batch[i].parent
        /\ ~HasCycle(ToSet(batch)) /\ rounds[N] = D
        /\ \A i \in D : batch[i].id \notin known \union Before(i) /\ batch[i].parent \in {Unset} \union known \union Before(i)
  BY <1>1 DEF AcceptedBatch, InsertEntities, rounds
\* Of two rows one is inserted before the other.
<1>4. ASSUME NEW i \in D, NEW j \in D, i # j PROVE ParentFirst(rounds, i, j) \/ ParentFirst(rounds, j, i)
  <2>1. CASE \A n \in DOMAIN rounds : j \in rounds[n] <=> i \in rounds[n]
    <3>1. i < j \/ j < i BY <1>4
    <3>2. QED BY <2>1, <3>1 DEF ParentFirst
  <2>2. CASE ~\A n \in DOMAIN rounds : j \in rounds[n] <=> i \in rounds[n] BY <2>2 DEF ParentFirst
  <2>3. QED BY <2>1, <2>2
<1>5. ASSUME NEW i \in D PROVE ~ParentFirst(rounds, i, i) BY DEF ParentFirst
<1>6. ASSUME AcceptedBatch(batch), NEW i \in D, NEW j \in D, batch[i].id = batch[j].id PROVE i = j
  <2>1. SUFFICES ASSUME i # j PROVE FALSE OBVIOUS
  <2>2. batch[i].id \in Before(j) \/ batch[j].id \in Before(i) BY <1>4, <2>1
  <2>. HIDE DEF Before
  <2>3. QED BY <1>3, <1>6, <2>2
<1>7. \A i \in D : Before(i) \subseteq Ids OBVIOUS
\* A row is ready after a row that has its parent's id.
<1>8. ASSUME rounds[N] = D, NEW i \in D, batch[i].parent \in Ids PROVE batch[i].parent \in Before(i)
  <2> DEFINE Ready == {n \in 0..N : i \in rounds[n]}
  <2>1. Ready # {} BY <1>8
  <2>2. PICK n \in Ready : \A m \in Ready : n <= m
    <3>1. Ready \in SUBSET Nat OBVIOUS
    <3>. HIDE DEF Ready
    <3>2. QED BY <2>1, <3>1, LeastNumber
  <2>3. n # 0 BY <1>1, <1>8, <2>2
  <2>4. n \in 1..N /\ n - 1 \in 0..N /\ ~(n <= n - 1) BY <2>2, <2>3
  <2>5. i \notin rounds[n - 1]
    <3>1. n - 1 \notin Ready
      <4>. HIDE DEF Ready
      <4>1. QED BY <2>2, <2>4
    <3>2. QED BY <2>4, <3>1
  <2>6. PICK j \in rounds[n - 1] : batch[j].id = batch[i].parent BY <1>1, <2>2, <2>4, <2>5
  <2>7. j \in D /\ ParentFirst(rounds, j, i) BY <1>1, <2>4, <2>5, <2>6 DEF ParentFirst
  <2>8. QED BY <2>6, <2>7
<1>9. ASSUME ~HasCycle(ToSet(batch)), NEW i \in D PROVE batch[i].id # batch[i].parent
  <2>1. SUFFICES ASSUME batch[i].id = batch[i].parent PROVE FALSE OBVIOUS
  <2> DEFINE S == {batch[i].id}
  <2>2. S \in SUBSET RowKeys(ToSet(batch)) /\ batch[i] \in ToSet(batch) BY <1>1
  <2>3. HasCycle(ToSet(batch)) BY <2>1, <2>2 DEF HasCycle
  <2>4. QED BY <1>9, <2>3
<1>10. ASSUME AcceptedBatch(batch)
       PROVE  /\ \A i \in D : batch[i].id \notin known /\ batch[i].parent \in {Unset} \union known \union Ids
              /\ ~HasCycle(ToSet(batch))
  <2>. HIDE DEF Before, Ids, known
  <2>1. QED BY <1>3, <1>7, <1>10
<1>11. ASSUME \A i, j \in D : batch[i].id = batch[j].id => i = j,
              \A i \in D : batch[i].id \notin known /\ batch[i].parent \in {Unset} \union known \union Ids,
              ~HasCycle(ToSet(batch))
       PROVE  AcceptedBatch(batch)
  <2>1. rounds[N] = D BY <1>2, <1>11
  <2>2. ASSUME NEW i \in D PROVE batch[i].id \notin Before(i) BY <1>5, <1>11
  <2>3. ASSUME NEW i \in D, batch[i].parent \in Ids PROVE batch[i].parent \in Before(i) BY <1>8, <2>1, <2>3
  <2>4. \A i \in D : batch[i].id # batch[i].parent BY <1>9, <1>11
  <2>. HIDE DEF Before, Ids, known
  <2>5. QED BY <1>3, <1>11, <2>1, <2>2, <2>3, <2>4
<1>12. (\A i, j \in 1..N : batch[i].id = batch[j].id => i = j) <=> (\A i, j \in D : batch[i].id = batch[j].id => i = j) OBVIOUS
<1>. HIDE DEF Before
<1>13. QED BY <1>1, <1>6, <1>10, <1>11

(* As many ids as rows, when no two have the same.                         *)
LEMMA DifferentIds ==
  ASSUME NEW N \in Nat, NEW batch \in [1..N -> BatchRows]
  PROVE  Cardinality({batch[i].id : i \in 1..N}) = N <=> \A i, j \in 1..N : batch[i].id = batch[j].id => i = j
<1> DEFINE D == 1..N
           Ids == {batch[i].id : i \in D}
           f == [i \in D |-> batch[i].id]
<1>1. IsFiniteSet(D) /\ Cardinality(D) = N BY FS_Interval
<1>2. f \in Surjection(D, Ids) BY DEF Surjection
<1>3. Cardinality(Ids) = N <=> f \in Injection(D, Ids)
  <2>. HIDE DEF D, Ids, f
  <2>1. QED BY <1>1, <1>2, FS_Surjection
<1>4. f \in [D -> Ids] OBVIOUS
<1>5. f \in Injection(D, Ids) <=> \A i, j \in D : f[i] = f[j] => i = j
  <2>. HIDE DEF D, Ids, f
  <2>1. QED BY <1>4 DEF Injection, IsInjective
<1>6. QED BY <1>3, <1>5

(* An empty batch is not refused.                                          *)
LEMMA NothingRefused ==
  /\ last = NoBatch => OrderOfEntitiesIsFree
  /\ last' = NoBatch => OrderOfEntitiesIsFree'
<1>1. NoBatch.batch = <<>> /\ NoBatch.known = {} /\ NoBatch.accepted = TRUE BY DEF NoBatch
<1>2. ToSet(<<>>) = {} /\ Len(<<>>) = 0 BY DEF ToSet
<1>3. RowKeys({}) = {} /\ ~HasCycle({}) BY DEF RowKeys, HasCycle
<1>4. Cardinality({}) = 0 BY FS_EmptySet
<1>5. QED BY <1>1, <1>2, <1>3, <1>4 DEF OrderOfEntitiesIsFree

(* What holds of tables that did not change.                               *)
LEMMA TablesStay ==
  ASSUME StoreInv, UNCHANGED <<entities, events, edges>>, last' = NoBatch, StoreTypeOK', ReadExecution'
  PROVE  StoreInv'
<1>1. ForeignKeysHold' /\ ReadEntities' /\ ReadEvents' /\ ReadCausalEdges'
  BY DEF StoreInv, StoredIsReadable, WrittenIsReadable, ForeignKeysHold, ReadEntities, ReadEvents, ReadCausalEdges
<1>2. OrderOfEntitiesIsFree' BY NothingRefused
<1>3. QED BY <1>1, <1>2 DEF StoreInv, StoredIsReadable, WrittenIsReadable

(* While the writer is at work, what the reader will check is so.          *)
LEMMA StoreStarts == StoreInit => StoreInv
<1> SUFFICES ASSUME StoreInit PROVE StoreInv OBVIOUS
<1>1. /\ execution = NoExecution /\ entities = {} /\ events = {} /\ edges = {} /\ last = NoBatch BY DEF StoreInit
<1>2. StoreTypeOK BY <1>1, FS_EmptySet DEF StoreTypeOK, Executions, NoExecution, Unset
<1>3. WrittenIsReadable
  BY <1>1 DEF WrittenIsReadable, ForeignKeysHold, ReadExecution, ReadEntities, ReadEvents, ReadCausalEdges, HasCycle, RowKeys
<1>4. OrderOfEntitiesIsFree BY <1>1, NothingRefused
<1>5. QED BY <1>2, <1>3, <1>4 DEF StoreInv, StoredIsReadable

LEMMA AddExecutionKeeps == ASSUME StoreInv, AddExecution PROVE StoreInv'
<1>1. PICK start \in 1..MaxInstant, finish \in Instants :
        Interval(start, finish) /\ execution' = [start |-> start, finish |-> finish]
  BY DEF AddExecution
<1>2. UNCHANGED <<entities, events, edges>> /\ last' = NoBatch BY DEF AddExecution
<1>3. StoreTypeOK' BY <1>1, <1>2, StoreAssumption DEF StoreInv, StoreTypeOK, Executions, Instants
<1>4. ReadExecution' BY <1>1 DEF ReadExecution
<1>5. QED BY <1>2, <1>3, <1>4, TablesStay

(* New rows whose parents are new or old make no cycle with the old ones.  *)
LEMMA NoNewCycle ==
  ASSUME NEW old \in SUBSET BatchRows, NEW new \in SUBSET BatchRows, ~HasCycle(old), ~HasCycle(new),
         \A row \in old : row.parent \in {Unset} \union RowKeys(old),
         \A row \in new : row.id \notin RowKeys(old)
  PROVE  ~HasCycle(old \union new)
<1>1. SUFFICES ASSUME NEW S \in SUBSET RowKeys(old \union new), S # {},
                      \A id \in S : \E row \in old \union new : row.id = id /\ row.parent \in S
               PROVE  FALSE
  BY DEF HasCycle
<1> DEFINE T == S \intersect RowKeys(old)
<1>2. \A id \in S : id # Unset
  <2>1. \A row \in old \union new : row.id \in RowIds BY DEF BatchRows
  <2>2. QED BY <2>1, StoreAssumption DEF RowKeys, Unset
<1>3. CASE T # {}
  <2>1. ASSUME NEW id \in T PROVE \E row \in old : row.id = id /\ row.parent \in T
    <3>1. PICK row \in old \union new : row.id = id /\ row.parent \in S BY <1>1
    <3>2. row \in old BY <3>1
    <3>3. row.parent \in RowKeys(old) BY <1>2, <3>1, <3>2
    <3>4. QED BY <3>1, <3>2, <3>3
  <2>2. T \in SUBSET RowKeys(old) OBVIOUS
  <2>. HIDE DEF T
  <2>3. QED BY <1>3, <2>1, <2>2 DEF HasCycle
<1>4. CASE T = {}
  <2>1. ASSUME NEW id \in S PROVE \E row \in new : row.id = id /\ row.parent \in S
    <3>1. PICK row \in old \union new : row.id = id /\ row.parent \in S BY <1>1
    <3>2. row \notin old BY <1>4, <3>1 DEF RowKeys
    <3>3. QED BY <3>1, <3>2
  <2>2. S \in SUBSET RowKeys(new) BY <2>1 DEF RowKeys
  <2>3. QED BY <1>1, <2>1, <2>2 DEF HasCycle
<1>5. QED BY <1>3, <1>4

LEMMA AddEntitiesKeeps == ASSUME StoreInv, AddEntities PROVE StoreInv'
<1>1. PICK n \in 1..RowsLeft : \E batch \in [1..n -> [id : RowIds, parent : RowIds \union {Unset}]] :
        /\ last' = [batch |-> batch, known |-> RowKeys(entities), accepted |-> AcceptedBatch(batch)]
        /\ entities' = IF last'.accepted THEN entities \union ToSet(batch) ELSE entities
  BY DEF AddEntities
<1>2. PICK batch \in [1..n -> BatchRows] :
        /\ last' = [batch |-> batch, known |-> RowKeys(entities), accepted |-> AcceptedBatch(batch)]
        /\ entities' = IF last'.accepted THEN entities \union ToSet(batch) ELSE entities
  BY <1>1 DEF BatchRows
<1>3. n \in Nat OBVIOUS
<1>4. UNCHANGED <<execution, events, edges>> BY DEF AddEntities
<1>5. /\ Len(batch) = n /\ ToSet(batch) = {batch[i] : i \in 1..n}
      /\ RowKeys(ToSet(batch)) = {batch[i].id : i \in 1..n}
  BY <1>3, RoundsAre
<1> DEFINE new == ToSet(batch)
<1>6. new \in SUBSET BatchRows /\ IsFiniteSet(new)
  <2>1. IsFiniteSet(1..n) BY <1>3, FS_Interval
  <2>2. IsFiniteSet({batch[i] : i \in 1..n})
    <3> DEFINE D == 1..n
    <3>. HIDE DEF D
    <3>1. IsFiniteSet({batch[i] : i \in D}) BY <2>1, FiniteImage DEF D
    <3>2. QED BY <3>1 DEF D
  <2>3. QED BY <1>5, <2>2
<1>7. AcceptedBatch(batch) <=>
        /\ \A i, j \in 1..n : batch[i].id = batch[j].id => i = j
        /\ \A i \in 1..n : batch[i].id \notin RowKeys(entities)
        /\ \A i \in 1..n : batch[i].parent \in {Unset} \union RowKeys(entities) \union RowKeys(new)
        /\ ~HasCycle(new)
  BY <1>3, AcceptedIs
<1>8. Cardinality(RowKeys(new)) = n <=> \A i, j \in 1..n : batch[i].id = batch[j].id => i = j
  BY <1>3, <1>5, DifferentIds
<1>9. /\ \A row \in new : \E i \in 1..n : row = batch[i]
      /\ \A i \in 1..n : batch[i] \in new /\ batch[i].id \in RowKeys(new)
      /\ \A id \in RowKeys(new) : \E i \in 1..n : id = batch[i].id
  BY <1>5
<1>10. OrderOfEntitiesIsFree'
  <2>1. /\ last'.batch = batch /\ last'.known = RowKeys(entities)
        /\ last'.accepted = AcceptedBatch(batch) /\ AcceptedBatch(batch) \in BOOLEAN
    BY <1>2 DEF AcceptedBatch
  <2>2. RowKeys(new) \intersect RowKeys(entities) = {} <=> \A i \in 1..n : batch[i].id \notin RowKeys(entities)
    <3>. HIDE DEF new
    <3>1. QED BY <1>9
  <2>3. (\A row \in new : row.parent \in {Unset} \union RowKeys(new) \union RowKeys(entities))
          <=> \A i \in 1..n : batch[i].parent \in {Unset} \union RowKeys(entities) \union RowKeys(new)
    <3>. HIDE DEF new
    <3>1. QED BY <1>9
  <2>4. AcceptedBatch(batch) <=>
          /\ Cardinality(RowKeys(new)) = Len(batch) /\ RowKeys(new) \intersect RowKeys(entities) = {}
          /\ \A row \in new : row.parent \in {Unset} \union RowKeys(new) \union RowKeys(entities)
          /\ ~HasCycle(new)
    <3>. HIDE DEF new
    <3>1. QED BY <1>5, <1>7, <1>8, <2>2, <2>3
  <2>. HIDE DEF new
  <2>5. QED BY <2>1, <2>4 DEF OrderOfEntitiesIsFree, new
<1>11. CASE ~AcceptedBatch(batch)
  <2>1. entities' = entities BY <1>2, <1>11
  <2>2. QED BY <1>4, <1>10, <2>1 DEF StoreInv, StoreTypeOK, StoredIsReadable, WrittenIsReadable, ForeignKeysHold,
          ReadExecution, ReadEntities, ReadEvents, ReadCausalEdges
<1>12. CASE AcceptedBatch(batch)
  <2>1. entities' = entities \union new BY <1>2, <1>12
  <2>2. RowKeys(entities') = RowKeys(entities) \union RowKeys(new) BY <2>1 DEF RowKeys
  <2>3. /\ \A row \in new : row.id \notin RowKeys(entities)
        /\ \A row \in new : row.parent \in {Unset} \union RowKeys(entities) \union RowKeys(new)
        /\ \A row \in new : row.id # row.parent
        /\ ~HasCycle(new)
    <3>1. \A i \in 1..n : batch[i].id # batch[i].parent BY <1>5, <1>12 DEF AcceptedBatch
    <3>. HIDE DEF new
    <3>2. QED BY <1>7, <1>9, <1>12, <3>1
  <2>. HIDE DEF new
  <2>4. StoreTypeOK' BY <1>4, <1>6, <2>1, FS_Union DEF StoreInv, StoreTypeOK
  <2>5. ForeignKeysHold' BY <1>4, <2>1, <2>2, <2>3 DEF StoreInv, StoredIsReadable, WrittenIsReadable, ForeignKeysHold
  <2>6. ~HasCycle(entities \union new)
    BY <1>6, <2>3, NoNewCycle DEF StoreInv, StoreTypeOK, StoredIsReadable, WrittenIsReadable, ForeignKeysHold, ReadEntities
  <2>7. ReadEntities' BY <2>1, <2>3, <2>6 DEF StoreInv, StoredIsReadable, WrittenIsReadable, ReadEntities
  <2>8. ReadExecution' /\ ReadEvents' /\ ReadCausalEdges'
    BY <1>4 DEF StoreInv, StoredIsReadable, WrittenIsReadable, ReadExecution, ReadEvents, ReadCausalEdges
  <2>9. QED BY <1>10, <2>4, <2>5, <2>7, <2>8 DEF StoreInv, StoredIsReadable, WrittenIsReadable
<1>13. QED BY <1>11, <1>12

LEMMA AddEventGraphKeeps == ASSUME StoreInv, AddEventGraph PROVE StoreInv'
<1>1. PICK row \in EventRows, new \in {{}} \union {{edge} : edge \in Graph} :
        /\ EventValues(row) /\ row.id \notin RowKeys(events) /\ row.entity \in {Unset} \union RowKeys(entities)
        /\ events' = events \union {row}
        /\ \A edge \in new : EdgeValues(edge) /\ {edge.source, edge.target} \subseteq RowKeys(events') /\ edge \notin edges
        /\ edges' = edges \union new
  BY DEF AddEventGraph, Graph
<1>2. UNCHANGED <<execution, entities>> /\ last' = NoBatch BY DEF AddEventGraph
<1>3. new \in SUBSET Graph /\ IsFiniteSet(new)
  <2>1. CASE new = {} BY <2>1, FS_EmptySet
  <2>2. CASE new # {}
    <3>1. PICK edge \in Graph : new = {edge} BY <1>1, <2>2
    <3>2. QED BY <3>1, FS_Singleton
  <2>3. QED BY <2>1, <2>2
<1>4. IsFiniteSet({row}) BY FS_Singleton
<1>5. StoreTypeOK' BY <1>1, <1>2, <1>3, <1>4, FS_Union DEF StoreInv, StoreTypeOK
<1>6. RowKeys(events) \subseteq RowKeys(events') BY <1>1 DEF RowKeys
<1>7. ForeignKeysHold' BY <1>1, <1>2, <1>6 DEF StoreInv, StoredIsReadable, WrittenIsReadable, ForeignKeysHold
<1>8. ReadEvents' BY <1>1 DEF StoreInv, StoredIsReadable, WrittenIsReadable, ReadEvents, EventValues, Interval
<1>9. ReadCausalEdges' BY <1>1 DEF StoreInv, StoredIsReadable, WrittenIsReadable, ReadCausalEdges, EdgeValues
<1>10. ReadExecution' /\ ReadEntities' BY <1>2 DEF StoreInv, StoredIsReadable, WrittenIsReadable, ReadExecution, ReadEntities
<1>11. QED BY <1>2, <1>5, <1>7, <1>8, <1>9, <1>10, NothingRefused DEF StoreInv, StoredIsReadable, WrittenIsReadable

LEMMA ExpandExecutionBoundsKeeps == ASSUME StoreInv, ExpandExecutionBounds PROVE StoreInv'
<1>1. PICK start \in 1..MaxInstant, finish \in Instants : Interval(start, finish) /\ execution' = ExpandedBounds(start, finish)
  BY DEF ExpandExecutionBounds
<1>2. UNCHANGED <<entities, events, edges>> /\ last' = NoBatch BY DEF ExpandExecutionBounds
<1>3. execution.start \in Nat /\ execution.finish \in Nat /\ start \in Nat /\ finish \in Nat
  BY StoreAssumption DEF StoreInv, StoreTypeOK, Executions, Instants
<1>4. Interval(execution.start, execution.finish)
  BY DEF ExpandExecutionBounds, StoreInv, StoredIsReadable, WrittenIsReadable, ReadExecution
<1>5. execution'.start \in Nat /\ execution'.finish \in Nat /\ execution' = [start |-> execution'.start, finish |-> execution'.finish]
  BY <1>1, <1>3 DEF ExpandedBounds
<1>6. Interval(execution'.start, execution'.finish) BY <1>1, <1>3, <1>4 DEF ExpandedBounds, Interval, Unset
<1>7. StoreTypeOK' BY <1>2, <1>5 DEF StoreInv, StoreTypeOK, Executions
<1>8. ReadExecution' BY <1>6 DEF ReadExecution
<1>9. QED BY <1>2, <1>7, <1>8, TablesStay

LEMMA FinishExecutionKeeps == ASSUME StoreInv, FinishExecution PROVE StoreInv'
<1>1. PICK finish \in 1..MaxInstant, row \in EventRows :
        /\ Interval(execution.start, finish) /\ row.entity = Unset /\ EventValues(row) /\ row.id \notin RowKeys(events)
        /\ execution' = [execution EXCEPT !.finish = finish] /\ events' = events \union {row}
  BY DEF FinishExecution
<1>2. UNCHANGED <<entities, edges>> /\ last' = NoBatch BY DEF FinishExecution
<1>3. finish \in Nat BY StoreAssumption
<1>4. IsFiniteSet({row}) BY FS_Singleton
<1>5. StoreTypeOK' BY <1>1, <1>2, <1>3, <1>4, FS_Union DEF StoreInv, StoreTypeOK, Executions
<1>6. ReadExecution' BY <1>1, <1>3 DEF StoreInv, StoreTypeOK, Executions, ReadExecution
<1>7. RowKeys(events) \subseteq RowKeys(events') BY <1>1 DEF RowKeys
<1>8. ForeignKeysHold' BY <1>1, <1>2, <1>7 DEF StoreInv, StoredIsReadable, WrittenIsReadable, ForeignKeysHold
<1>9. ReadEvents' BY <1>1 DEF StoreInv, StoredIsReadable, WrittenIsReadable, ReadEvents, EventValues, Interval
<1>10. ReadCausalEdges' /\ ReadEntities' BY <1>2 DEF StoreInv, StoredIsReadable, WrittenIsReadable, ReadCausalEdges, ReadEntities
<1>11. QED BY <1>2, <1>5, <1>6, <1>8, <1>9, <1>10, NothingRefused DEF StoreInv, StoredIsReadable, WrittenIsReadable

(* Whatever RunpackWriter commits, in whatever order its operations are    *)
(* called, RunpackReader accepts; and a batch of entities is refused for   *)
(* what is in it, never for the order in which it is listed: for any ids,  *)
(* any number of rows and any times.                                       *)
THEOREM WrittenIsAccepted == StoreSpec => []StoredIsReadable
<1>1. StoreInv /\ UNCHANGED storeVars => StoreInv'
  BY DEF StoreInv, StoreTypeOK, StoredIsReadable, WrittenIsReadable, ForeignKeysHold, ReadExecution, ReadEntities,
    ReadEvents, ReadCausalEdges, OrderOfEntitiesIsFree, storeVars
<1>2. StoreInv /\ [StoreNext]_storeVars => StoreInv'
  BY <1>1, AddExecutionKeeps, AddEntitiesKeeps, AddEventGraphKeeps, ExpandExecutionBoundsKeeps, FinishExecutionKeeps
  DEF StoreNext
<1>3. StoreInv => StoredIsReadable BY DEF StoreInv
<1>4. QED BY StoreStarts, <1>2, <1>3, PTL DEF StoreSpec
=============================================================================
