--------------------------- MODULE KubernetesSnapshot ---------------------------
(***************************************************************************)
(* What a Kubernetes cluster runs is listed, one kind of object after the  *)
(* other, and added to a runpack.  In the meantime the cluster goes on:    *)
(* objects come and go between two listings, containers end and start      *)
(* again, and a node may return under the name of one that is gone.  A     *)
(* Deployment or ReplicaSet is here what a Job is, apart from the finish;  *)
(* every node that there is at a time has the same name, and every pod the *)
(* same containers.                                                        *)
(***************************************************************************)
EXTENDS Naturals, Sequences, SequencesExt, FiniteSets, FiniteSetsExt

CONSTANTS
  Containers,
  MaxObjects,  \* bound: objects that are ever created
  MaxSteps     \* bound: what happens in the cluster

\* A pod has containers.
ContainersAssumption == IsFiniteSet(Containers) /\ Containers # {}
ASSUME ContainersAssumption

VARIABLES
  clusterClock,
  objects,  \* every object that was created; its number is its uid
  existing,    \* those that still exist
  listed    \* the kinds that were listed, and the objects as they were then

clusterVars == <<clusterClock, objects, existing, listed>>

Null == 0
Kinds == {"Node", "Job", "Pod", "Event"}

ClusterInit == clusterClock = 1 /\ objects = <<>> /\ existing = {} /\ listed = <<>>

-----------------------------------------------------------------------------
(* The cluster.                                                            *)

Passes == clusterClock <= MaxSteps /\ clusterClock' = clusterClock + 1 /\ UNCHANGED listed

Absent == [state |-> "none", started |-> Null, finished |-> Null]
Living(kind) == {uid \in existing : objects[uid].kind = kind}

\* What an Event is about, it has for its owner here.
Create(kind, owners, controller) ==
  /\ Passes /\ Len(objects) < MaxObjects
  /\ kind = "Node" => Living("Node") = {}
  /\ objects' = Append(objects,
       [uid |-> Len(objects) + 1, kind |-> kind, owners |-> owners, controller |-> controller,
        node |-> Null, created |-> clusterClock, containers |-> [c \in Containers |-> Absent]])
  /\ existing' = existing \union {Len(objects) + 1}

Creation ==
  \/ \E kind \in {"Node", "Job"} : Create(kind, {}, Null)
  \/ \E owners \in SUBSET Living("Job") : \E controller \in {Null} \union owners : Create("Pod", owners, controller)
  \/ \E uid \in existing \ Living("Event") : Create("Event", {uid}, Null)

Bind(pod) ==
  /\ Passes /\ objects[pod].node = Null
  /\ \E node \in Living("Node") : objects' = [objects EXCEPT ![pod].node = node]
  /\ UNCHANGED existing

Status(pod, c) == objects[pod].containers[c]

Report(pod, c, status) ==
  /\ Passes /\ objects[pod].node # Null
  /\ objects' = [objects EXCEPT ![pod].containers[c] = status]
  /\ UNCHANGED existing

ContainerWaits(pod, c) ==
  /\ Status(pod, c).state \in {"none", "terminated"}
  /\ Report(pod, c, [Absent EXCEPT !.state = "waiting"])
ContainerStarts(pod, c) ==
  /\ Status(pod, c).state \in {"none", "waiting"}
  /\ Report(pod, c, [Absent EXCEPT !.state = "running", !.started = clusterClock])
ContainerEnds(pod, c) ==
  /\ Status(pod, c).state = "running"
  /\ Report(pod, c, [Status(pod, c) EXCEPT !.state = "terminated", !.finished = clusterClock])

Delete(uid) == Passes /\ existing' = existing \ {uid} /\ UNCHANGED objects

List(kind) ==
  /\ kind \notin DOMAIN listed
  /\ listed' = [k \in DOMAIN listed \union {kind} |->
                 IF k = kind THEN {objects[uid] : uid \in Living(kind)} ELSE listed[k]]
  /\ UNCHANGED <<clusterClock, objects, existing>>

ClusterNext ==
  \/ Creation
  \/ \E pod \in Living("Pod") : Bind(pod) \/ \E c \in Containers : ContainerWaits(pod, c) \/ ContainerStarts(pod, c) \/ ContainerEnds(pod, c)
  \/ \E uid \in existing : Delete(uid)
  \/ \E kind \in Kinds : List(kind)

ClusterSpec == ClusterInit /\ [][ClusterNext]_clusterVars

-----------------------------------------------------------------------------
(* import_kubernetes_snapshot                                              *)

Pods == listed["Pod"]
Nodes == listed["Node"]
Workloads == Nodes \union Pods \union listed["Job"]
Uids == {o.uid : o \in Workloads}

UniqueUids == \A a, b \in Workloads \union listed["Event"] : a.uid = b.uid => a = b
UniqueNodeNames == Cardinality(Nodes) <= 1

OwnerUid(o) ==
  IF o.controller # Null THEN o.controller
  ELSE IF Cardinality(o.owners) = 1 THEN CHOOSE uid \in o.owners : TRUE ELSE Null

NoOwnerCycle ==
  ~\E cycle \in SUBSET Workloads : cycle # {} /\ \A o \in cycle : \E owner \in cycle : OwnerUid(o) = owner.uid

ListingsAccepted == UniqueUids /\ UniqueNodeNames /\ NoOwnerCycle

PodFinish(pod) ==
  IF \E c \in Containers : pod.containers[c].state # "terminated" THEN Null
  ELSE Max({pod.containers[c].finished : c \in Containers})

ContainerInterval(status) == <<status.started, IF status.state = "terminated" THEN status.finished ELSE Null>>

Event(id, entity, started, finished) == [id |-> id, entity |-> entity, started |-> started, finished |-> finished]

\* Seeded fault: an owner is a parent whether or not it was listed.
EntitiesOfAnyOwner == [uid \in Uids |-> OwnerUid(CHOOSE w \in Workloads : w.uid = uid)]

Entities ==
  [uid \in Uids |->
     LET o == CHOOSE w \in Workloads : w.uid = uid IN IF OwnerUid(o) \in Uids THEN OwnerUid(o) ELSE Null]

LifecycleEvents ==
  {Event(<<o.uid>>, <<o.uid>>, o.created, IF o.kind = "Pod" THEN PodFinish(o) ELSE Null) : o \in Workloads}

ContainerEvents ==
  {LET interval == ContainerInterval(pod.containers[c]) IN
   Event(<<pod.uid, c>>, <<pod.uid, c>>, interval[1], interval[2]) : pod \in Pods, c \in Containers}

Involved == {e \in listed["Event"] : e.owners \subseteq Uids}
InvolvedEvents == {Event(<<e.uid>>, <<CHOOSE uid \in e.owners : TRUE>>, e.created, e.created) : e \in Involved}

Events == LifecycleEvents \union ContainerEvents \union InvolvedEvents

\* By the name of the node, which is that of every node.
Hosts == {<<<<node.uid>>, <<pod.uid>>>> : node \in Nodes, pod \in {p \in Pods : p.node # Null}}

Owns == {<<<<OwnerUid(o)>>, <<o.uid>>>> : o \in {w \in Workloads : OwnerUid(w) \in Uids}}
Holds == {<<<<pod.uid>>, <<pod.uid, c>>>> : pod \in Pods, c \in Containers}
Emits == {<<<<CHOOSE uid \in e.owners : TRUE>>, <<e.uid>>>> : e \in Involved}

\* The bounds of the execution are expanded to these.
Timestamps == UNION {{e.started, e.finished} : e \in Events} \ {Null}

-----------------------------------------------------------------------------
(* _correlations: a trace of three events, each of one of two processes of *)
(* a pod, and called by an earlier one or by nobody.                       *)

Traces == {trace \in [process : [1..3 -> {1, 2}], caller : [1..3 -> 0..2]] :
             \A e \in 1..3 : trace.caller[e] < e}

Inside(trace, e) == trace.caller[e] # Null /\ trace.process[trace.caller[e]] = trace.process[e]
RootsOf(trace) == {e \in 1..3 : ~Inside(trace, e)}

-----------------------------------------------------------------------------

\* The event that e follows from in the same process, two calls up at most.
Above(trace, e) == IF Inside(trace, e) THEN trace.caller[e] ELSE e
RootOf(trace, e) == Above(trace, Above(trace, e))

EveryEventFollowsFromARoot ==
  \A trace \in Traces : \A e \in 1..3 :
    RootOf(trace, e) \in RootsOf(trace) /\ trace.process[RootOf(trace, e)] = trace.process[e]

EventIds == {e.id : e \in Events}

(* Whatever happens between the listings, they are accepted, and the graph *)
(* they make is whole: what it refers to is in it, nothing is its own      *)
(* ancestor, and no two events share an identity.  A pod that was listed   *)
(* with its node is hosted by that one and by no other.  A pod only ends   *)
(* after the containers that were listed with it, and none of these goes   *)
(* on; each of them ran after the pod was created.  No event is of a time  *)
(* that is still to come, and none ends before it starts.  And of every    *)
(* small trace, whatever was listed: an event of a process in a pod        *)
(* follows from a root of that process, which the pod is correlated with.  *)
SnapshotIsTrue ==
  DOMAIN listed = Kinds =>
    /\ ListingsAccepted
    /\ Cardinality(EventIds) = Cardinality(Events)
    /\ \A e \in Hosts \union Owns \union Holds \union Emits : e[1] \in EventIds /\ e[2] \in EventIds
    /\ \A uid \in Uids : Entities[uid] \in Uids \union {Null}
    /\ \A pod \in Pods :
         /\ pod.node \in Uids => {e[1] : e \in {h \in Hosts : h[2] = <<pod.uid>>}} = {<<pod.node>>}
         /\ \A e \in {x \in ContainerEvents : x.id[1] = pod.uid} :
              /\ e.started # Null => pod.created <= e.started
              /\ PodFinish(pod) # Null => e.finished # Null /\ e.finished \in e.started..PodFinish(pod)
    /\ \A e \in Events : e.started # Null =>
          e.started < clusterClock /\ (e.finished # Null => e.finished \in e.started..clusterClock - 1)
    /\ EveryEventFollowsFromARoot
=================================================================================
