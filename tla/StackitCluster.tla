--------------------------- MODULE StackitCluster ---------------------------
(***************************************************************************)
(* The StackitCluster reconciler: one StackitCluster object, the controller*)
(* that reconciles it, and the cluster-wide STACKIT resources it owns: the *)
(* managed network, the API server load balancer, the bastion (security    *)
(* group, server, public IP) and the node SSH security group.              *)
(*                                                                         *)
(* Reconciles of the object are sequential.  The user, the informer, the   *)
(* cloud, the machine reconcilers, failed calls and crashes interleave     *)
(* with the calls of a reconcile.  A find-then-create of one resource is   *)
(* one step, because nobody else creates resources with the cluster's tags *)
(* (the node SSH group, which the machine reconcilers create, is only      *)
(* deleted here).  The target pool of the load balancer is abstracted to   *)
(* the outcome of its update.                                              *)
(***************************************************************************)
EXTENDS Integers, FiniteSets

CONSTANTS
  MaxIDs,            \* bound on the incarnations of a resource
  LabelSets,         \* values of spec.additionalLabels: sets of key-value pairs
  InitialLabels,     \* spec.additionalLabels as created
  Contents,          \* documents the cloudInitRef object may hold
  InitialContent,    \* the document it holds at first
  Modes,             \* the clusters and surroundings considered, see ModeType
  BastionAtStart,    \* spec.bastion.enabled as created
  StaleReads,        \* reads may be served from an informer that lags
  WithMachines       \* the cluster gets Machines

\* What the user and others do besides creating and deleting the cluster: switch
\* the bastion on and off, edit the cloudInitRef object or
\* spec.additionalLabels, or delete resources behind the provider's back.
Disturbances == {"switch", "content", "labels", "portal"}

\* The network and the endpoint are the provider's or the user's (managed,
\* balanced); faults bounds the failed calls, unmet preconditions, crashes and
\* deletes in the portal, edits the edits, by the kinds of disturbance that
\* occur.
ModeType ==
  [managed : BOOLEAN, balanced : BOOLEAN, faults : Nat, edits : Nat,
   kinds : SUBSET Disturbances]

ASSUME ClusterAssumption ==
  /\ MaxIDs \in Nat \ {0}
  /\ InitialLabels \in LabelSets
  /\ InitialContent \in Contents
  /\ Modes \subseteq ModeType
  /\ {BastionAtStart, StaleReads, WithMachines} \subseteq BOOLEAN

VARIABLES
  api,       \* the StackitCluster in the API server
  cache,     \* the informer's copy, which reconciles read
  queued,    \* the work queue holds the object's key
  pc,        \* the next call of the running reconcile, "idle" when none
  mem,       \* the working copy of the running reconcile
  before,    \* the snapshot its patch helper compares mem with
  resume,    \* where the running PatchObject returns to
  ids,       \* bastion resources the running Ensure- or DeleteBastion resolved
  why,       \* why DeleteBastion runs
  userData,  \* the cloud-init document the running reconcile resolved
  content,   \* the document in the referenced ConfigMap or Secret
  state,     \* state of every resource, "none" until it is created
  tags,      \* labels of every resource
  bootData,  \* the cloud-init document every bastion server booted with
  groups,    \* the security groups attached to every bastion server
  machines,  \* whether the cluster has Machines
  mode,      \* the member of Modes this behaviour is about
  faults,    \* faults so far
  edits,     \* edits so far
  outcome,   \* history: how the last reconcile ended, if it did
  skipped    \* history: a CleanupSkipped event was recorded

objectVars == <<api, cache, queued>>
callVars == <<ids, why, userData>>
reconcileVars == <<pc, mem, before, resume, callVars>>
cloudVars == <<state, tags, bootData, groups>>
worldVars == <<content, machines, edits, mode>>
vars == <<objectVars, reconcileVars, cloudVars, worldVars, faults, outcome, skipped>>

-----------------------------------------------------------------------------
(* The object.  Failure domains, addresses and messages are left out; so   *)
(* are the conditions nothing reads back (CredentialsReady, NetworkReady,  *)
(* Paused).                                                                *)

\* spec.network.id is empty.
ManagedNetwork == mode.managed

\* spec.apiServerLoadBalancer.enabled.
LoadBalancer == mode.balanced

IDs == 1..MaxIDs

NoID == 0

\* A load balancer is identified by its name, which is the cluster's.
LoadBalancerID == 1

\* The network that spec.network.id names.
ByoNetworkID == 1

Kinds == {"network", "lb", "sg", "server", "ip", "nodeSG"}

Resources == Kinds \X IDs

\* bastionCloudInitHash: injective, and empty for no bastion.
NoHash == <<>>

CloudInitHash(c) == <<"sha256", c>>

ConditionStatus == {"Unknown", "True", "False", "Skipped"}

Objects ==
  [exists : BOOLEAN, deleting : BOOLEAN, finalizer : BOOLEAN,    \* metadata
   labels : LabelSets, enabled : BOOLEAN, endpoint : BOOLEAN,    \* spec
   network : IDs \cup {NoID}, lbID : IDs \cup {NoID},            \* status
   server : IDs \cup {NoID}, ip : IDs \cup {NoID}, sg : IDs \cup {NoID},
   hash : {NoHash} \cup {CloudInitHash(c) : c \in Contents},
   ready : BOOLEAN, provisioned : BOOLEAN,
   lbReady : ConditionStatus, bastionReady : ConditionStatus,    \* conditions
   readyCond : ConditionStatus]

NewObject ==
  [exists |-> TRUE, deleting |-> FALSE, finalizer |-> FALSE,
   labels |-> InitialLabels, enabled |-> BastionAtStart,
   endpoint |-> ~LoadBalancer,
   network |-> NoID, lbID |-> NoID,
   server |-> NoID, ip |-> NoID, sg |-> NoID, hash |-> NoHash,
   ready |-> FALSE, provisioned |-> FALSE,
   lbReady |-> "Unknown", bastionReady |-> "Unknown", readyCond |-> "Unknown"]

NoObject == [NewObject EXCEPT !.exists = FALSE, !.endpoint = FALSE]

NoIDs == [server |-> NoID, ip |-> NoID, sg |-> NoID, active |-> FALSE]

\* "pending" is a load balancer without an address or a server that is not
\* active.
States == {"none", "pending", "up", "deleting", "gone"}

\* Resources that the get and list calls report.
Present(k, i) == i \in IDs /\ state[<<k, i>>] \in {"pending", "up", "deleting"}

\* Resources that stay until somebody deletes them.
Live == {r \in Resources : state[r] \in {"pending", "up"}}

\* What the provider created; a network named by spec.network.id is not its own.
Owned == {r \in Live : ManagedNetwork \/ r[1] # "network"}

\* The type invariant: IDs and hashes on record are well formed, and the
\* controller is always between two known calls.
TypeOK ==
  /\ api \in Objects /\ cache \in Objects /\ mem \in Objects /\ before \in Objects
  /\ queued \in BOOLEAN /\ skipped \in BOOLEAN
  /\ pc \in {"idle", "zones", "network", "loadBalancer", "targets", "bastion",
             "ensureSG", "ensureServer", "ensureIP",
             "machines", "deleteLB", "dropNodeSSH", "resolveBastion",
             "dropServer", "dropIP", "dropSG", "deleteNetwork",
             "patchConditions", "patchSpec", "patchStatus", "patchDone"}
  /\ resume \in {"zones", "deferred", "idle"}
  /\ ids \in [server : IDs \cup {NoID}, ip : IDs \cup {NoID},
              sg : IDs \cup {NoID}, active : BOOLEAN]
  /\ why \in {"none", "disable", "recreate", "delete"}
  /\ userData \in Contents /\ content \in Contents
  /\ state \in [Resources -> States]
  /\ tags \in [Resources -> LabelSets]
  /\ bootData \in [IDs -> Contents]
  /\ groups \in [IDs -> SUBSET IDs]
  /\ machines \in {"none", "present", "gone"}
  /\ faults \in 0..mode.faults
  /\ edits \in 0..mode.edits
  /\ mode \in Modes
  /\ outcome \in {"none", "retry", "settled", "waiting", "paused", "orphaned"}

Init ==
  /\ mode \in Modes
  /\ api = NewObject
  /\ cache = NewObject
  /\ queued = TRUE
  /\ pc = "idle"
  /\ mem = NoObject
  /\ before = NoObject
  /\ resume = "idle"
  /\ ids = NoIDs
  /\ why = "none"
  /\ userData = InitialContent
  /\ content = InitialContent
  /\ state = [r \in Resources |->
                IF ~ManagedNetwork /\ r = <<"network", ByoNetworkID>>
                  THEN "up" ELSE "none"]
  /\ tags = [r \in Resources |-> InitialLabels]
  /\ bootData = [i \in IDs |-> InitialContent]
  /\ groups = [i \in IDs |-> {}]
  /\ machines = "none"
  /\ faults = 0
  /\ edits = 0
  /\ outcome = "none"
  /\ skipped = FALSE

Fault ==
  /\ faults < mode.faults
  /\ faults' = faults + 1

NoFault == faults' = faults

-----------------------------------------------------------------------------
(* Reconcile.                                                              *)

\* Mutant of Return: the result's RequeueAfter is dropped.
ReturnWithoutRequeue(m, how) ==
  /\ mem' = m
  /\ pc' = "patchConditions"
  /\ resume' = "idle"
  /\ outcome' = how
  /\ UNCHANGED queued

\* The handler returns with working copy m; the deferred PatchObject is next.
Return(m, how) ==
  /\ mem' = m
  /\ pc' = "patchConditions"
  /\ resume' = "idle"
  /\ queued' = (queued \/ how = "retry")
  /\ outcome' = how

\* The reconcile goes on with its next call.
Continue(m, next) ==
  /\ mem' = m
  /\ pc' = next
  /\ UNCHANGED <<resume, queued, outcome>>

Dequeue ==
  /\ pc = "idle"
  /\ queued
  /\ StaleReads \/ cache = api
  /\ UNCHANGED <<api, cache, callVars, cloudVars, worldVars, skipped>>

\* The object is gone, it has no owner, the object is paused, or a read failed.
\* Only the Paused condition, which is left out, would be patched.
ReconcileNothing ==
  /\ Dequeue
  /\ \/ ~cache.exists /\ NoFault /\ queued' = FALSE /\ outcome' = "settled"
     \/ cache.exists /\ Fault /\ queued' = FALSE /\ outcome' \in {"orphaned", "paused"}
     \/ Fault /\ queued' = TRUE /\ outcome' = "retry"
  /\ UNCHANGED <<pc, mem, before, resume>>

\* Dispatch to reconcileDelete or reconcileNormal; the latter persists the
\* finalizer with a PatchObject of its own first.
ReconcileActive ==
  /\ Dequeue
  /\ cache.exists
  /\ NoFault
  /\ queued' = FALSE
  /\ before' = cache
  /\ \/ /\ cache.deleting
        /\ mem' = cache /\ pc' = "machines" /\ resume' = "idle"
     \/ /\ ~cache.deleting /\ ~cache.finalizer
        /\ mem' = [cache EXCEPT !.finalizer = TRUE]
        /\ pc' = "patchConditions" /\ resume' = "zones"
     \/ /\ ~cache.deleting /\ cache.finalizer
        /\ mem' = cache /\ pc' = "zones" /\ resume' = "idle"
  /\ outcome' = "none"

-----------------------------------------------------------------------------
(* Cloud calls.                                                            *)

\* The resources of a kind whose labels contain the tags of the working copy.
Matching(k) == {i \in IDs : Present(k, i) /\ mem.labels \subseteq tags[<<k, i>>]}

\* The bastion's group is attached to its server, new or found.
Attach(k, i) ==
  groups' = IF k = "server" THEN [groups EXCEPT ![i] = @ \cup {ids.sg}] ELSE groups

\* Load balancers and servers take a while to come up; the other resources are
\* there at once.
Create(k, i) ==
  /\ state' = [state EXCEPT ![<<k, i>>] =
                 IF k \in {"lb", "server"} THEN "pending" ELSE "up"]
  /\ tags' = [tags EXCEPT ![<<k, i>>] = mem.labels]
  /\ bootData' = IF k = "server" THEN [bootData EXCEPT ![i] = userData] ELSE bootData
  /\ Attach(k, i)

\* A new ID, except for the load balancer, which is created again by its name.
Available(k, i) ==
  IF k = "lb" THEN i = LoadBalancerID /\ ~Present(k, i)
  ELSE state[<<k, i>>] = "none" /\ \A j \in IDs : j < i => state[<<k, j>>] # "none"

Errors == {"retryable", "permanent"}

\* Mutant of Ensure: the lookup by tags before the create is dropped.
EnsureBlindly(k, id, err) ==
  \/ /\ err = "none"
     /\ NoFault
     /\ Available(k, id) /\ Create(k, id)
  \/ /\ err \in Errors /\ id = NoID
     /\ Fault
     /\ \/ UNCHANGED cloudVars
        \/ \E i \in IDs : Available(k, i) /\ Create(k, i)

\* Find by tags, and create when nothing is found.  Several matches and a load
\* balancer of that name with other tags are conflicts, which are retryable.  A
\* failed call may have created the resource.
Ensure(k, id, err) ==
  \/ /\ err = "none" /\ Matching(k) = {id}
     /\ NoFault /\ Attach(k, id) /\ UNCHANGED <<state, tags, bootData>>
  \/ /\ err = "none" /\ Matching(k) = {}
     /\ Available(k, id) /\ Create(k, id)
     /\ NoFault
  \/ /\ err = "retryable" /\ id = NoID
     /\ \/ Cardinality(Matching(k)) > 1
        \/ k = "lb" /\ Matching(k) = {} /\ Present(k, LoadBalancerID)
     /\ NoFault /\ UNCHANGED cloudVars
  \/ /\ err \in Errors /\ id = NoID
     /\ Fault
     /\ \/ UNCHANGED cloudVars
        \/ Matching(k) = {} /\ \E i \in IDs : Available(k, i) /\ Create(k, i)

\* A delete of resource i; NotFound is success, and so is a second delete.
Deleted(k, i) ==
  IF i # NoID /\ <<k, i>> \in Live
    THEN [state EXCEPT ![<<k, i>>] = IF k \in {"lb", "server"} THEN "deleting" ELSE "gone"]
    ELSE state

\* CloudFailureResult after SetNotReady: retryable errors are requeued, the
\* others wait for an event.
CloudFails(m, err) ==
  Return([m EXCEPT !.ready = FALSE, !.readyCond = "False"],
         IF err = "retryable" THEN "retry" ELSE "waiting")

\* SetReady.
SetReady(m) ==
  Return([m EXCEPT !.ready = TRUE, !.provisioned = TRUE, !.readyCond = "True"],
         "settled")

-----------------------------------------------------------------------------
(* reconcileNormal.                                                        *)

\* BuildCloudClient and ListAvailabilityZones; every failure is retried.
CheckZones ==
  /\ pc = "zones"
  /\ \/ NoFault /\ Continue(mem, "network")
     \/ Fault /\ CloudFails(mem, "retryable")
  /\ UNCHANGED <<api, cache, before, callVars, cloudVars, worldVars, skipped>>

\* ensureNetwork: the network of the spec, or the managed network by its ID,
\* or else by CreateNetwork, which looks for the tags first.
EnsureNetwork ==
  /\ pc = "network"
  /\ \/ /\ ~ManagedNetwork
        /\ \/ NoFault /\ Continue([mem EXCEPT !.network = ByoNetworkID], "loadBalancer")
           \/ Fault /\ \E err \in Errors : CloudFails(mem, err)
        /\ UNCHANGED cloudVars
     \/ /\ ManagedNetwork
        /\ Present("network", mem.network)
        /\ \/ NoFault /\ Continue(mem, "loadBalancer")
           \/ Fault /\ \E err \in Errors : CloudFails(mem, err)
        /\ UNCHANGED cloudVars
     \/ /\ ManagedNetwork
        /\ ~Present("network", mem.network)
        /\ \/ \E id \in IDs :
                /\ Ensure("network", id, "none")
                /\ Continue([mem EXCEPT !.network = id], "loadBalancer")
           \/ \E err \in Errors :
                Ensure("network", NoID, err) /\ CloudFails(mem, err)
  /\ UNCHANGED <<api, cache, before, callVars, worldVars, skipped>>

\* The Machines are listed, the load balancer is ensured, and its address is
\* awaited.  Listing failures leave status.ready alone.  Without a load
\* balancer the webhook requires spec.controlPlaneEndpoint, so the endpoint is
\* there.
EnsureLoadBalancer ==
  /\ pc = "loadBalancer"
  /\ \/ /\ LoadBalancer
        /\ Fault
        /\ Return([mem EXCEPT !.lbReady = "False"], "retry")
        /\ UNCHANGED cloudVars
     \/ /\ LoadBalancer
        /\ Ensure("lb", LoadBalancerID, "none")
        /\ LET found == [mem EXCEPT !.lbID = LoadBalancerID] IN
           \/ /\ state'[<<"lb", LoadBalancerID>>] = "pending"
              /\ CloudFails([found EXCEPT !.lbReady = "False"], "retryable")
           \/ /\ state'[<<"lb", LoadBalancerID>>] # "pending"
              /\ Continue([found EXCEPT !.endpoint = TRUE], "targets")
     \/ /\ LoadBalancer
        /\ \E err \in Errors :
             /\ Ensure("lb", NoID, err)
             /\ CloudFails([mem EXCEPT !.lbReady = "False"], err)
     \/ /\ ~LoadBalancer
        /\ NoFault
        /\ Continue([mem EXCEPT !.lbReady = "Skipped"], "bastion")
        /\ UNCHANGED cloudVars
  /\ UNCHANGED <<api, cache, before, callVars, worldVars, skipped>>

\* SetAPIServerLoadBalancerTargets, unless no control plane machine has an
\* address yet.  A failure concerns only the load balancer condition.
SetTargets ==
  /\ pc = "targets"
  /\ \/ /\ NoFault
        /\ Continue([mem EXCEPT !.lbReady = "True"], "bastion")
     \/ /\ machines = "present"
        /\ IF Present("lb", LoadBalancerID) THEN Fault ELSE NoFault
        /\ Return([mem EXCEPT !.lbReady = "False"], "retry")
  /\ UNCHANGED <<api, cache, before, callVars, cloudVars, worldVars, skipped>>

HasBastionStatus(m) == \E f \in {"server", "ip", "sg"} : m[f] # NoID

NeedsRecreate(m, c) == HasBastionStatus(m) /\ m.hash # CloudInitHash(c)

\* Mutant of CleanupDone: the condition status is read instead of its reason.
CleanupDoneIfReady(m) == m.bastionReady \in {"True", "Skipped"}

\* The reason that says a disabled bastion was cleaned up.
CleanupDone(m) == m.bastionReady = "Skipped"

\* reconcileBastion up to its first cloud call.
ReconcileBastion ==
  /\ pc = "bastion"
  /\ \/ /\ ~mem.enabled /\ CleanupDone(mem)
        /\ NoFault
        /\ SetReady([mem EXCEPT !.bastionReady = "Skipped"])
        /\ UNCHANGED <<why, userData>>
     \/ /\ ~mem.enabled /\ ~CleanupDone(mem)
        /\ NoFault
        /\ Continue(mem, "dropNodeSSH")
        /\ why' = "disable"
        /\ UNCHANGED userData
     \/ /\ mem.enabled                 \* the spec or the reference is invalid
        /\ Fault
        /\ CloudFails([mem EXCEPT !.bastionReady = "False"], "permanent")
        /\ UNCHANGED <<why, userData>>
     \/ /\ mem.enabled /\ NeedsRecreate(mem, content)
        /\ NoFault
        /\ Continue(mem, "dropNodeSSH")
        /\ why' = "recreate"
        /\ userData' = content
     \/ /\ mem.enabled /\ ~NeedsRecreate(mem, content)
        /\ NoFault
        /\ Continue(mem, "ensureSG")
        /\ userData' = content
        /\ UNCHANGED why
  /\ UNCHANGED <<api, cache, before, ids, cloudVars, worldVars, skipped>>

BastionFails(err) == CloudFails([mem EXCEPT !.bastionReady = "False"], err)

\* EnsureBastion: the security group and its rules,
EnsureSecurityGroup ==
  /\ pc = "ensureSG"
  /\ \/ \E id \in IDs :
          /\ Ensure("sg", id, "none")
          /\ ids' = [NoIDs EXCEPT !.sg = id]
          /\ Continue(mem, "ensureServer")
     \/ \E err \in Errors :
          Ensure("sg", NoID, err) /\ BastionFails(err) /\ UNCHANGED ids
  /\ UNCHANGED <<api, cache, before, why, userData, worldVars, skipped>>

\* the server, to which the group is attached (a create response may carry no
\* state, which counts as active),
EnsureServer ==
  /\ pc = "ensureServer"
  /\ \/ \E id \in IDs, active \in BOOLEAN :
          /\ Ensure("server", id, "none")
          /\ Present("server", id) => active = (state[<<"server", id>>] = "up")
          /\ ids' = [ids EXCEPT !.server = id, !.active = active]
          /\ Continue(mem, "ensureIP")
     \/ \E err \in Errors :
          Ensure("server", NoID, err) /\ BastionFails(err) /\ UNCHANGED ids
  /\ UNCHANGED <<api, cache, before, why, userData, worldVars, skipped>>

\* Mutant of WithBastion: the document is recorded instead of its hash.
WithBareContent(id) ==
  [mem EXCEPT !.server = ids.server, !.ip = id, !.sg = ids.sg, !.hash = <<userData>>]

\* SetBastionStatus.
WithBastion(id) ==
  [mem EXCEPT !.server = ids.server, !.ip = id, !.sg = ids.sg,
              !.hash = CloudInitHash(userData)]

\* and the public IP, which is attached to the server.  The result is recorded,
\* and the server awaited.
EnsurePublicIP ==
  /\ pc = "ensureIP"
  /\ \/ \E id \in IDs :
          /\ Ensure("ip", id, "none")
          /\ IF ids.active
               THEN SetReady([WithBastion(id) EXCEPT !.bastionReady = "True"])
               ELSE CloudFails([WithBastion(id) EXCEPT !.bastionReady = "False"],
                               "retryable")
     \/ \E err \in Errors : Ensure("ip", NoID, err) /\ BastionFails(err)
  /\ UNCHANGED <<api, cache, before, callVars, worldVars, skipped>>

-----------------------------------------------------------------------------
(* DeleteNodeSSHAccess and DeleteBastion, which run when the bastion is    *)
(* disabled, before it is recreated, and when the cluster is deleted.      *)

\* Errors are returned to reconcileBastion or to reconcileDelete, which
\* retries all of them.
DropFails(err) ==
  IF why = "delete" THEN Return(mem, "retry") ELSE BastionFails(err)

\* Several resources have the tags, and none is on record: a conflict.
Ambiguous(k, recorded) == recorded = NoID /\ Cardinality(Matching(k)) > 1

\* A lookup ends in a conflict, or it fails.
LookupFails(ambiguous) ==
  \E err \in Errors :
    /\ \/ ambiguous /\ err = "retryable" /\ NoFault
       \/ Fault
    /\ DropFails(err)

\* The node SSH group is found by its tags alone.
DropNodeSSH ==
  /\ pc = "dropNodeSSH"
  /\ \/ /\ LookupFails(Ambiguous("nodeSG", NoID))
        /\ UNCHANGED state
     \/ /\ NoFault
        /\ Matching("nodeSG") = {}
        /\ Continue(mem, "resolveBastion")
        /\ UNCHANGED state
     \/ \E i \in IDs :
          /\ Matching("nodeSG") = {i}
          /\ state' = Deleted("nodeSG", i)
          /\ \/ NoFault /\ Continue(mem, "resolveBastion")
             \/ Fault /\ \E err \in Errors : DropFails(err)
  /\ UNCHANGED <<api, cache, before, callVars, tags, bootData, groups, worldVars, skipped>>

\* The ID on record, else the one resource with the tags, else none.
Resolved(k, recorded, id) ==
  \/ recorded # NoID /\ id = recorded
  \/ recorded = NoID /\ Matching(k) = {} /\ id = NoID
  \/ recorded = NoID /\ Matching(k) = {id}

ResolveBastion ==
  /\ pc = "resolveBastion"
  /\ \/ /\ NoFault
        /\ \E s, p, g \in IDs \cup {NoID} :
             /\ Resolved("server", mem.server, s)
             /\ Resolved("ip", mem.ip, p)
             /\ Resolved("sg", mem.sg, g)
             /\ ids' = [server |-> s, ip |-> p, sg |-> g, active |-> FALSE]
        /\ Continue(mem, "dropServer")
     \/ /\ LookupFails(\E k \in {"server", "ip", "sg"} : Ambiguous(k, mem[k]))
        /\ UNCHANGED ids
  /\ UNCHANGED <<api, cache, before, why, userData, cloudVars, worldVars, skipped>>

\* Mutant of Drop: a failed delete counts as done.
DropOnce(k, id, next) ==
  \/ /\ NoFault
     /\ state' = Deleted(k, id)
     /\ Continue(mem, next)
  \/ /\ Fault
     /\ state' \in {state, Deleted(k, id)}
     /\ Continue(mem, next)

\* One delete call; when it fails it may have taken effect.
Drop(k, id, next) ==
  \/ /\ NoFault
     /\ state' = Deleted(k, id)
     /\ Continue(mem, next)
  \/ /\ Fault
     /\ state' \in {state, Deleted(k, id)}
     /\ \E err \in Errors : DropFails(err)

\* The address and the group are detached, then the server is deleted.
DropServer ==
  LET detached == [i \in IDs |->
                     IF i = ids.server THEN groups[i] \ {ids.sg} ELSE groups[i]] IN
  /\ pc = "dropServer"
  /\ Drop("server", ids.server, "dropIP")
  /\ groups' \in {groups, detached}
  /\ pc' = "dropIP" \/ state' # state => groups' = detached
  /\ UNCHANGED <<api, cache, before, callVars, tags, bootData, worldVars, skipped>>

DropIP ==
  /\ pc = "dropIP"
  /\ Drop("ip", ids.ip, "dropSG")
  /\ UNCHANGED <<api, cache, before, callVars, tags, bootData, groups, worldVars, skipped>>

\* The cloud refuses to delete a group that is attached to a server.
AttachedGroup(g) == \E i \in IDs : Present("server", i) /\ g \in groups[i]

GroupInUse == AttachedGroup(ids.sg)

\* ClearBastionStatus.
WithoutBastion(m) ==
  [m EXCEPT !.server = NoID, !.ip = NoID, !.sg = NoID, !.hash = NoHash]

\* DeleteBastion returned without an error.
BastionDropped ==
  \/ /\ why = "disable"
     /\ SetReady([WithoutBastion(mem) EXCEPT !.bastionReady = "Skipped"])
  \/ /\ why = "recreate"
     /\ CloudFails([WithoutBastion(mem) EXCEPT !.bastionReady = "False"], "retryable")
  \/ /\ why = "delete"
     /\ Continue(WithoutBastion(mem), "deleteNetwork")

DropSG ==
  /\ pc = "dropSG"
  /\ \/ /\ NoFault
        /\ ~GroupInUse
        /\ state' = Deleted("sg", ids.sg)
        /\ BastionDropped
     \/ /\ NoFault
        /\ GroupInUse
        /\ DropFails("retryable")
        /\ UNCHANGED state
     \/ /\ Fault
        /\ state' \in {state} \cup IF GroupInUse THEN {} ELSE {Deleted("sg", ids.sg)}
        /\ \E err \in Errors : DropFails(err)
  /\ UNCHANGED <<api, cache, before, callVars, tags, bootData, groups, worldVars, skipped>>

-----------------------------------------------------------------------------
(* reconcileDelete.                                                        *)

\* Mutant of MachinesRemain: the teardown does not wait for the Machines.
MachinesIgnored == FALSE

MachinesRemain == machines = "present"

\* The Machines go first; then the credentials are read.  A missing Secret
\* finalizes without cleanup; all other failures are retried.
AwaitMachines ==
  /\ pc = "machines"
  /\ \/ /\ NoFault /\ MachinesRemain
        /\ Return(mem, "retry")
        /\ UNCHANGED skipped
     \/ /\ Fault
        /\ Return(mem, "retry")
        /\ UNCHANGED skipped
     \/ /\ Fault /\ ~MachinesRemain
        /\ Return([mem EXCEPT !.finalizer = FALSE], "settled")
        /\ skipped' = TRUE
     \/ /\ NoFault /\ ~MachinesRemain
        /\ Continue(mem, "deleteLB")
        /\ UNCHANGED skipped
  /\ UNCHANGED <<api, cache, before, callVars, cloudVars, worldVars>>

\* ResolveID and DeleteAPIServerLoadBalancer; the ID is cleared on success.
DeleteLoadBalancer ==
  /\ pc = "deleteLB"
  /\ \E id \in IDs \cup {NoID} :
       /\ Resolved("lb", mem.lbID, id)
       /\ \/ /\ NoFault
             /\ state' = Deleted("lb", id)
             /\ Continue([mem EXCEPT !.lbID = NoID], "dropNodeSSH")
             /\ why' = "delete"
          \/ /\ Fault
             /\ state' \in {state, Deleted("lb", id)}
             /\ Return(mem, "retry")
             /\ UNCHANGED why
  /\ UNCHANGED <<api, cache, before, ids, userData, tags, bootData, groups, worldVars,
                 skipped>>

\* The cloud refuses to delete a network with something attached.
NetworkInUse ==
  \/ \E i \in IDs : Present("lb", i) \/ Present("server", i)
  \/ machines = "present"

\* Mutant of ManagedNetworkID: the ID in the status is taken for a managed one.
RecordedNetworkID(id) == Resolved("network", mem.network, id)

\* ResolveManagedNetworkID: never the network that the spec names.
ManagedNetworkID(id) ==
  \/ ~ManagedNetwork /\ id = NoID
  \/ ManagedNetwork /\ Resolved("network", mem.network, id)

\* DeleteNetwork, then RemoveFinalizer.  A network in use and several networks
\* with the tags are conflicts, which are retried.
DeleteNetwork ==
  LET conflict(id) == Present("network", id) /\ NetworkInUse
      several == ManagedNetwork /\ Ambiguous("network", mem.network) IN
  /\ pc = "deleteNetwork"
  /\ \/ \E id \in IDs \cup {NoID} :
          /\ ManagedNetworkID(id)
          /\ ~conflict(id)
          /\ state' = Deleted("network", id)
          /\ \/ /\ NoFault
                /\ Return([mem EXCEPT !.finalizer = FALSE,
                                      !.network = IF id = NoID THEN @ ELSE NoID],
                          "settled")
             \/ Fault /\ Return(mem, "retry")
     \/ /\ \/ /\ several \/ \E id \in IDs : ManagedNetworkID(id) /\ conflict(id)
              /\ NoFault
           \/ Fault
        /\ UNCHANGED state
        /\ Return(mem, "retry")
  /\ UNCHANGED <<api, cache, before, callVars, tags, bootData, groups, worldVars, skipped>>

-----------------------------------------------------------------------------
(* PatchObject: conditions, then metadata and spec, then the rest of the   *)
(* status, each only if it differs from the snapshot; a failed part does   *)
(* not stop the next one.                                                  *)

Merged(f) == IF mem[f] # before[f] THEN mem[f] ELSE api[f]

Changed(fields) == \E f \in fields : mem[f] # before[f]

Patched(fields) == [f \in DOMAIN api |-> IF f \in fields THEN Merged(f) ELSE api[f]]

\* A deleted object disappears with its last finalizer.
Collected(o) == IF o.deleting /\ ~o.finalizer THEN NoObject ELSE o

\* Mutant of Send: the error of a failed request is dropped.
SendOnce(fields, admitted, tolerated) ==
  \/ /\ Changed(fields) /\ api.exists /\ admitted
     /\ NoFault
     /\ api' = Collected(Patched(fields))
     /\ UNCHANGED <<queued, resume>>
  \/ /\ IF Changed(fields) /\ api.exists /\ admitted THEN Fault ELSE NoFault
     /\ UNCHANGED <<api, queued, resume>>

\* One request of the patch helper.
Send(fields, admitted, tolerated) ==
  \/ /\ ~Changed(fields)
     /\ NoFault
     /\ UNCHANGED <<api, queued, resume>>
  \/ /\ Changed(fields) /\ api.exists /\ admitted
     /\ NoFault
     /\ api' = Collected(Patched(fields))
     /\ UNCHANGED <<queued, resume>>
  \/ /\ Changed(fields) /\ ~api.exists /\ tolerated
     /\ NoFault
     /\ UNCHANGED <<api, queued, resume>>
  \/ /\ Changed(fields)
     /\ IF api.exists /\ admitted THEN Fault ELSE ~(~api.exists /\ tolerated) /\ NoFault
     /\ queued' = TRUE
     /\ resume' = IF resume = "zones" THEN "deferred" ELSE resume
     /\ UNCHANGED api

\* BastionReady is not among the owned conditions: a change of it conflicts
\* with any other change since the snapshot.
BastionReadyAdmitted ==
  \/ mem.bastionReady = before.bastionReady
  \/ api.bastionReady \in {before.bastionReady, mem.bastionReady}

PatchConditions ==
  /\ pc = "patchConditions"
  /\ Send({"lbReady", "bastionReady", "readyCond"}, BastionReadyAdmitted, FALSE)
  /\ pc' = "patchSpec"
  /\ UNCHANGED <<cache, mem, before, callVars, cloudVars, worldVars, outcome, skipped>>

PatchSpec ==
  /\ pc = "patchSpec"
  /\ Send({"finalizer", "endpoint"}, TRUE, FALSE)
  /\ pc' = "patchStatus"
  /\ UNCHANGED <<cache, mem, before, callVars, cloudVars, worldVars, outcome, skipped>>

PatchStatus ==
  /\ pc = "patchStatus"
  /\ Send({"network", "lbID", "server", "ip", "sg", "hash", "ready", "provisioned"},
          TRUE, mem.deleting /\ ~mem.finalizer)
  /\ pc' = "patchDone"
  /\ UNCHANGED <<cache, mem, before, callVars, cloudVars, worldVars, outcome, skipped>>

\* Mutant of PatchDone: reconcileNormal goes on although the finalizer was not
\* persisted.
PatchDoneIgnoringErrors ==
  /\ pc = "patchDone"
  /\ \/ /\ resume \in {"zones", "deferred"}
        /\ pc' = "zones"
        /\ UNCHANGED <<mem, before, callVars, outcome>>
     \/ /\ resume = "idle"
        /\ pc' = "idle"
        /\ mem' = NoObject /\ before' = NoObject
        /\ ids' = NoIDs /\ why' = "none" /\ userData' = InitialContent
        /\ UNCHANGED outcome
  /\ resume' = "idle"
  /\ UNCHANGED <<objectVars, cloudVars, worldVars, faults, skipped>>

\* PatchObject returns: into reconcileNormal once the finalizer is persisted,
\* into the deferred PatchObject when persisting it failed, or out of Reconcile.
PatchDone ==
  /\ pc = "patchDone"
  /\ \/ /\ resume = "zones"
        /\ pc' = "zones"
        /\ UNCHANGED <<mem, before, callVars, outcome>>
     \/ /\ resume = "deferred"
        /\ pc' = "patchConditions"
        /\ outcome' = "retry"
        /\ UNCHANGED <<mem, before, callVars>>
     \/ /\ resume = "idle"
        /\ pc' = "idle"
        /\ mem' = NoObject /\ before' = NoObject
        /\ ids' = NoIDs /\ why' = "none" /\ userData' = InitialContent
        /\ UNCHANGED outcome
  /\ resume' = "idle"
  /\ UNCHANGED <<objectVars, cloudVars, worldVars, faults, skipped>>

-----------------------------------------------------------------------------
(* Everybody else.                                                         *)

\* Mutant of Observe: the event is filtered out.
ObserveSilently ==
  /\ cache # api
  /\ cache' = api
  /\ UNCHANGED <<api, queued, reconcileVars, cloudVars, worldVars, faults, outcome, skipped>>

\* The informer catches up and hands the controller an event.
Observe ==
  /\ cache # api
  /\ cache' = api
  /\ queued' = TRUE
  /\ UNCHANGED <<api, reconcileVars, cloudVars, worldVars, faults, outcome, skipped>>

\* An event of the Cluster or of a control plane Machine.
WatchEvent ==
  /\ ~queued
  /\ cache.exists
  /\ queued' = TRUE
  /\ UNCHANGED <<api, cache, reconcileVars, cloudVars, worldVars, faults, outcome, skipped>>

DeleteObject ==
  /\ api.exists
  /\ ~api.deleting
  /\ api' = Collected([api EXCEPT !.deleting = TRUE])
  /\ UNCHANGED <<cache, queued, reconcileVars, cloudVars, worldVars, faults, outcome, skipped>>

Edit(kind) ==
  /\ kind \in mode.kinds
  /\ edits < mode.edits
  /\ edits' = edits + 1
  /\ UNCHANGED <<cache, reconcileVars, cloudVars, machines, mode, faults, outcome,
                 skipped>>

\* spec.bastion.enabled may be changed at any time.
ToggleBastion ==
  /\ Edit("switch")
  /\ api.exists
  /\ api' = [api EXCEPT !.enabled = ~@]
  /\ UNCHANGED <<queued, content>>

\* So may spec.additionalLabels, which the webhook does not compare.
EditLabels ==
  /\ Edit("labels")
  /\ api.exists
  /\ \E l \in LabelSets \ {api.labels} : api' = [api EXCEPT !.labels = l]
  /\ UNCHANGED <<queued, content>>

\* Mutant of EditContent: the cloudInitRef object is not watched.
EditContentUnwatched ==
  /\ Edit("content")
  /\ content' \in Contents \ {content}
  /\ UNCHANGED <<api, queued>>

\* The cloudInitRef object changes; its watch enqueues the cluster.
EditContent ==
  /\ Edit("content")
  /\ content' \in Contents \ {content}
  /\ queued' = (queued \/ cache.exists)
  /\ UNCHANGED api

\* The first Machine appears, the last one goes.
MachinesChange ==
  /\ WithMachines
  /\ \/ /\ machines = "none"
        /\ api.exists /\ ~api.deleting
        /\ machines' = "present"
     \/ /\ machines = "present"
        /\ machines' = "gone"
  /\ UNCHANGED <<objectVars, reconcileVars, cloudVars, content, edits, mode, faults,
                 outcome, skipped>>

\* A machine reconciler, whose copy of the StackitCluster may be old but named
\* a bastion group, ensures the node SSH group.
GrantNodeSSH ==
  /\ machines = "present"
  /\ \E i \in IDs : state[<<"sg", i>>] # "none"
  /\ \A i \in IDs :
       Present("nodeSG", i) => ~(cache.labels \subseteq tags[<<"nodeSG", i>>])
  /\ \E i \in IDs :
       /\ Available("nodeSG", i)
       /\ state' = [state EXCEPT ![<<"nodeSG", i>>] = "up"]
       /\ tags' = [tags EXCEPT ![<<"nodeSG", i>>] = cache.labels]
  /\ UNCHANGED <<objectVars, reconcileVars, bootData, groups, worldVars, faults, outcome,
                 skipped>>

\* The controller crashes and starts again.
Restart ==
  /\ Fault
  /\ pc' = "idle"
  /\ mem' = NoObject /\ before' = NoObject
  /\ resume' = "idle"
  /\ ids' = NoIDs /\ why' = "none" /\ userData' = InitialContent
  /\ cache' = api
  /\ queued' = TRUE
  /\ outcome' = "none"
  /\ UNCHANGED <<api, cloudVars, worldVars, skipped>>

\* Load balancers and servers come up and disappear in their own time.
ResourceChanges(r) ==
  /\ \/ state[r] = "pending" /\ state' = [state EXCEPT ![r] = "up"]
     \/ state[r] = "deleting" /\ state' = [state EXCEPT ![r] = "gone"]
  /\ UNCHANGED <<objectVars, reconcileVars, tags, bootData, groups, worldVars, faults, outcome,
                 skipped>>

\* Somebody deletes a resource in the portal, if nothing uses it.  It counts as
\* a fault.
DeleteOutOfBand(r) ==
  /\ "portal" \in mode.kinds
  /\ Fault
  /\ r \in Owned
  /\ r[1] = "network" => ~NetworkInUse
  /\ r[1] = "sg" => ~AttachedGroup(r[2])
  /\ state' = [state EXCEPT ![r] = "gone"]
  /\ UNCHANGED <<objectVars, reconcileVars, tags, bootData, groups, worldVars, outcome, skipped>>

-----------------------------------------------------------------------------
Reconcile ==
  \/ ReconcileNothing \/ ReconcileActive
  \/ CheckZones \/ EnsureNetwork \/ EnsureLoadBalancer \/ SetTargets
  \/ ReconcileBastion \/ EnsureSecurityGroup \/ EnsureServer \/ EnsurePublicIP
  \/ DropNodeSSH \/ ResolveBastion \/ DropServer \/ DropIP \/ DropSG
  \/ AwaitMachines \/ DeleteLoadBalancer \/ DeleteNetwork
  \/ PatchConditions \/ PatchSpec \/ PatchStatus \/ PatchDone

Next ==
  \/ Reconcile
  \/ Observe \/ WatchEvent \/ DeleteObject \/ Restart
  \/ ToggleBastion \/ EditLabels \/ EditContent
  \/ MachinesChange \/ GrantNodeSSH
  \/ \E r \in Resources : ResourceChanges(r) \/ DeleteOutOfBand(r)

Spec == Init /\ [][Next]_vars

(* The controller works through its queue, the informer catches up, and    *)
(* the cloud completes what it began.                                      *)
Fairness ==
  /\ WF_vars(Reconcile)
  /\ WF_vars(Observe)
  /\ \A r \in Resources : WF_vars(ResourceChanges(r))

FairSpec == Spec /\ Fairness

-----------------------------------------------------------------------------
(* Properties.                                                             *)

\* Whatever the provider created for the cluster is backed by a StackitCluster
\* with the finalizer, unless the controller announced that it skips the
\* cleanup: "... to ensure nothing is running behind an object that carries no
\* finalizer to clean it up" (controller/stackitcluster_infrastructure.go:47).
FinalizerGuardsResources ==
  Owned # {} => (api.exists /\ api.finalizer) \/ skipped

\* Lost responses, lost patches and restarts never lead to a second network,
\* load balancer, bastion server, address or group (cloud/client.go:23).
AtMostOneOfAKind ==
  \A r, s \in Owned : r[1] = s[1] => r = s

\* As long as Machines remain, the finalizer stays and neither the network nor
\* the load balancer is deleted, although the bastion may go at any time
\* (reconcileDelete, controller/stackitcluster_infrastructure.go:475).
MachinesKeepCluster ==
  [][machines = "present" =>
       /\ api.finalizer => api'.exists /\ api'.finalizer
       /\ \A r \in Owned : r[1] \in {"network", "lb"} => r \in Live']_vars

\* "If spec.network.id is set, the network is BYO and must NEVER be deleted"
\* (cloud/services/network/network.go:47), although the status records its ID
\* in the same field as the ID of a managed network.
ByoNetworkKept ==
  ManagedNetwork \/ state[<<"network", ByoNetworkID>>] = "up"

\* Nothing will happen to the object unless an event arrives from outside.
Quiet == pc = "idle" /\ ~queued /\ cache = api /\ api.exists

\* The controller never comes to rest on a deleted cluster, except while it is
\* paused or has no owner.
DeletionNeverForgotten ==
  Quiet /\ api.deleting => outcome \in {"paused", "orphaned"}

\* When the controller rests after a reconcile that ended well, what it
\* published is complete: ready, with an endpoint, and the recorded network and
\* load balancer exist.  The three patch requests may each have failed before.
RestIsPublished ==
  Quiet /\ ~api.deleting /\ outcome = "settled" =>
    /\ api.ready /\ api.provisioned /\ api.readyCond = "True" /\ api.endpoint
    /\ <<"network", api.network>> \in Live
    /\ LoadBalancer => <<"lb", api.lbID>> \in Live /\ api.lbReady = "True"

BastionKinds == {"server", "ip", "sg"}

\* No call failed, nothing crashed, and the labels the lookups use stayed.
Undisturbed == faults = 0 /\ "labels" \notin mode.kinds

\* When the controller rests after a reconcile that ended well, without faults
\* and label edits before, the bastion is what the spec asks for: server, address and group exist and are on record
\* when it is enabled; when it is disabled, none of them exists.  The reason
\* that skips the cleanup "is set only after a cleanup has succeeded"
\* (controller/stackitcluster_bastion.go:55).
BastionFollowsSpec ==
  Undisturbed /\ Quiet /\ ~api.deleting /\ outcome = "settled" =>
    IF api.enabled
      THEN \A k \in BastionKinds : <<k, api[k]>> \in Live
      ELSE \A r \in Live : r[1] \notin BastionKinds

\* When the controller rests, without faults and label edits before,
\* cloudInitHash "records the resolved cloudInitRef
\* content used to create the current provider-managed bastion server"
\* (api/v1alpha1/stackitcluster_types.go:218), and the server booted with what
\* the ConfigMap or Secret holds now: a content change, whenever it comes,
\* recreates the server (docs/src/topics/accessing-vm-instances.md:199).
HashDescribesServer ==
  Undisturbed /\ Quiet /\ ~api.deleting /\ outcome = "settled" /\ api.enabled =>
    /\ api.hash = CloudInitHash(bootData[api.server])
    /\ bootData[api.server] = content

\* A cluster that is deleted disappears, or the controller waits for its
\* Machines, or rests where DeletionNeverForgotten allows it.
DeletionCompletes ==
  api.exists /\ api.deleting ~>
    \/ ~api.exists
    \/ machines = "present"
    \/ Quiet /\ outcome \in {"paused", "orphaned"}

\* A cluster becomes ready, or it is deleted, or its reconcile ended where only
\* an event can continue it.
ProvisioningCompletes ==
  api.exists /\ ~api.deleting ~>
    \/ api.ready \/ api.deleting \/ ~api.exists
    \/ Quiet /\ outcome \in {"waiting", "paused", "orphaned"}

\* The cluster keeps the promise of GuardedResource about its resources.
Ownership ==
  INSTANCE GuardedResource WITH
    Resources <- Resources,
    kind <- [r \in Resources |-> r[1]],
    guarded <- api.exists /\ api.finalizer,
    live <- Owned,
    abandoned <- skipped

\* Creating and deleting networks, load balancers, bastions and groups, adding
\* and removing the finalizer, implement the ownership protocol of
\* GuardedResource step by step.
OwnershipSpec == Ownership!Spec
=============================================================================
