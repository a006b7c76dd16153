# A verification of cluster-api-provider-stackit

TLA+ models of the STACKIT infrastructure provider for Cluster API: its two
reconcilers, each alone and both at work on one cluster, and its admission
webhooks; the TLC runs that check them, and TLAPS proofs about all of them.
`PROJECT.json` lists the components, the runs, the source lines
every definition models, the hazards and the findings. Paths below are relative
to `src/`.

## The system

| Part | Code | State | Operations |
|---|---|---|---|
| StackitMachine reconciler | `controller/stackitmachine_*.go`, `scope/machine_scope.go` | finalizer, providerID, instanceID, `initialization.provisioned`, conditions | Reconcile, reconcileNormal, reconcileDelete, PatchObject |
| StackitCluster reconciler | `controller/stackitcluster_*.go`, `scope/cluster_scope.go` | finalizer, endpoint, network, load balancer and bastion IDs, conditions | Reconcile, reconcileNormal, reconcileDelete, PatchObject |
| Bastion | `controller/stackitcluster_bastion.go`, `cloud/services/bastion` | server, address, group, `cloudInitHash`, BastionReady | reconcileBastion, EnsureBastion, DeleteBastion |
| Node SSH access | `cloud/sdk_client.go` | a security group shared by all nodes | EnsureNodeSSHAccess (machines), DeleteNodeSSHAccess (cluster) |
| Load balancer target pool | `cloud/services/loadbalancer` | targets in the cloud | APIServerTargets, SetAPIServerLoadBalancerTargets |
| Cloud client | `cloud/*.go` | none; errors fall into five classes | find by tags, create, delete |
| Admission webhooks | `webhook/v1alpha1` | none | defaulting and validation of creates and updates of the four kinds |
| Failure domains and zones | both reconcilers | `status.failureDomains` | failureDomainsFromZones, validateMachineAvailabilityZone |
| Cleanup tool | `cloud/cleanup.go`, `cmd/cleanup-stackit` | none | CleanupByTags |
| Manager | `cmd/manager/main.go` | none | process setup |

The parts interact through the API server and the cloud only. The machine
reconciler waits for `StackitCluster.status.ready`, uses its credentials and
network, and creates the node SSH group; the cluster reconciler reads the
Machines for the target pool, deletes the node SSH group and waits for the
Machines before it tears anything down. Cluster API sets owners and deletes
objects; users edit specs, Secrets and ConfigMaps.

What makes this hard:

* A create call and the patch that records its result are separate. A crash or a
  lost response in between leaves a resource only its tags can find.
* `PatchObject` sends three requests (conditions; metadata and spec; status).
  Any of them may fail while the others are applied.
* Reconciles read an informer that lags behind their own writes.
* Every lookup by tags requires all of `additionalLabels`, which users may edit.
* Waking up depends on the result a handler returns; some paths rely on a watch.
* Deletes in the cloud take time; networks and groups refuse to go while in use.
* The reconcilers share the node SSH group and act on copies of each other's
  objects that may be old.
* The webhooks judge users and the reconcilers' own writes by the same rules, and
  freeze fields by what the status records, which comes after the resource.

## Modules

| Module | Models |
|---|---|
| `GuardedResource` | the promise: a resource is created only under the finalizer, at most one of a kind lives, the finalizer goes last, unless cleanup was skipped loudly |
| `StackitMachine` | one StackitMachine, its reconciler, its servers, and everybody who interferes |
| `StackitCluster` | one StackitCluster, its reconciler with network, load balancer and bastion, its Machines and machine reconcilers as far as they touch its resources |
| `ClusterNodes` | both reconcilers, their informers, watches and queues, several Machines: target pool, failure domains, node SSH access |
| `Admission` | the webhooks of the four kinds, between users, Cluster API that clones templates, and the reconcilers |
| `MCStackitMachine`, `MCStackitCluster`, `MCClusterNodes`, `MCAdmission` | constants, shapes and symmetry for TLC |
| `StackitMachineProofs` | proofs about the machine: types, rest, safety and the refinement |
| `StackitClusterProofs` | proofs about the cluster: types, the user's network, the order of teardown |
| `StackitClusterRest` | what the cluster controller rests on, what its handlers write and create, one resource of a kind |
| `StackitClusterOwnership`, `StackitClusterBastion` | the finalizer and the refinement; the bastion, its switch and its document |
| `ClusterNodesProofs` | proofs about the composition: helpers, types, the target pool, the placement of servers |
| `ClusterNodesAccess` | nodes reachable from the bastion |
| `AdmissionProofs` | the webhooks |

### Correspondence with the code

`StackitMachine` and `StackitCluster`: controller-runtime never runs two reconciles of one key at a time, so a
reconciler is one process; `pc` is its next observable call. `api` is the object
in the API server, `cache` the informer's copy, `mem` the working copy and
`before` the snapshot of the patch helper. `Return(m, ...)` ends a handler, and
the deferred `PatchObject` follows as `PatchConditions`, `PatchSpec`,
`PatchStatus` and `PatchDone`. `resume` tells the `PatchObject` that persists
the finalizer from the deferred one. `queued` is the work queue: set by a
requeue or an error, by an event of the informer (`Observe`), of another watched
object (`WatchEvent`), or by a restart.

The steps of the machine are the calls of `reconcileNormal` (`CheckGates`,
`LookupServer`, `CreateServerFind`, `CreateServerPost`, `NodeSSHAccess`) and of
`reconcileDelete` (`ResolveServer`, `DeleteServer`). Those of the cluster are
`CheckZones`, `EnsureNetwork`, `EnsureLoadBalancer`, `SetTargets`,
`ReconcileBastion`, `EnsureSecurityGroup`, `EnsureServer`, `EnsurePublicIP`,
then `AwaitMachines`, `DeleteLoadBalancer`, `DropNodeSSH`, `ResolveBastion`,
`DropServer`, `DropIP`, `DropSG`, `DeleteNetwork`.

A fault is a call that fails, with or without taking effect, a precondition that
is not met, or a crash. `MaxFaults` bounds them. `outcome` and `skipped` are
history: how the last reconcile ended, if it did, and whether a CleanupSkipped event was
recorded. `Quiet` says that only an event from outside can wake the controller.

`ClusterNodes`: each controller has one worker, `cw` and `mw`; `pc` is the next
call, `obj` the copy of the StackitCluster it works with. `clusterSeen` and
`machineSeen` are the informers' copies, `clusterQueue` and `machineQueue` the
work queues that `SyncCluster` and `SyncMachine` fill as the watches and their
predicate do. The steps are the calls of `reconcileNormal` of either controller
in their order. Cluster API, which creates Machines and copies their addresses,
and the cloud are external. `Rest` says that nobody has anything left to do.

`Admission`: a request is defaulted and then validated against the stored
object, as the API server calls the webhooks. Besides users, Cluster API clones
templates, and the reconcilers write `controlPlaneEndpoint` and `providerID` and
record their resources in the status, which passes no webhook. `frozen` is
history: the bastion of the spec when its server was recorded.

### Abstractions

* Messages, timestamps and the conditions that nothing reads back are left out;
  addresses and failure domains are in `ClusterNodes` only. Tags are the set of additional labels: the
  provider's own tags tell objects apart and never change.
* Resource IDs are handed out once, except for the load balancer, whose ID is
  its name. Names of servers and groups are not unique.
* In `StackitMachine` and `StackitCluster` only the informer of the object itself
  lags; Machines, Secrets and ConfigMaps are read as they are. In `ClusterNodes`
  the Machines and the machine reconciler's copy of the StackitCluster lag, and a
  reconciler sees its own writes.
* A public IP has an address from the start. Without a load balancer the spec
  has an endpoint, as the webhook requires. `spec.apiServerLoadBalancer.enabled`
  and `spec.network.id` do not change.
* `StackitCluster` reduces the target pool to success or failure of the call that
  sets it; `ClusterNodes` has its contents, and no deletion of the cluster.
* `ClusterNodes` writes an object with one patch; the three requests of
  `PatchObject` are in the other two modules. Zones are numbers in the order of
  their names, addresses are numbers, a prefix is a base and a size.
* In `Admission` one flag of a request stands for its patterns, names and CIDRs
  being acceptable, and one value for the fields a server is created from.
* The ten-hour resync of informers is left out: it would hide lost wakeups for
  hours, not prevent them.
* External, modelled from how the code uses them: the patch helper of Cluster
  API, finalizers and garbage collection, and the STACKIT APIs, including that a
  group attached to a server and a network in use cannot be deleted.

## Properties and runs

All runs set `CHECK_DEADLOCK FALSE`: an object that is gone together with its
resources, or a system at rest after its last edit, is the end of its story.

| Run | Checks | Setting |
|---|---|---|
| `machine_faults` | `TypeOK`, `FinalizerGuardsServer`, `AtMostOneServer`, `NeverRecreated`, `IdentityAgrees`, `DeletionNeverForgotten`, `RestIsPublished`, `IndInv`, `OwnershipSpec`, `DeletionCompletes`, `ProvisioningCompletes` | `FairSpec`, lagging informer, a fault |
| `machine_interference` | `DeletionNeverForgotten`, `RestIsPublished` | portal deletes, label edits and late creates, so that none or several servers match; two faults |
| `cluster_faults` | `TypeOK`, `ByoNetworkKept`, `RestIsPublished`, `MachinesKeepCluster`, `OwnershipSpec` | two faults; everything managed, or the user's network and endpoint; Machines and their node SSH group |
| `cluster_interference` | `DeletionNeverForgotten`, `BastionFollowsSpec`, `HashDescribesServer` | three label edits, and a fault or a portal delete, so that lookups conflict and groups stay in use; two edits of switch and content without a fault |
| `cluster_liveness` | `FinalizerGuardsResources`, `AtMostOneOfAKind`, `DeletionCompletes`, `ProvisioningCompletes` | `FairSpec`, lagging informer, a fault |
| `cluster_nodes` | `TypeOK`, `PoolAddressesDistinct`, `PoolServesControlPlane`, `NodesReachable`, `ServersPlaced`, `PlaceholderInNetwork`, `PoolNeverEmptied`, `DisabledBastionRemoved`, `Settles` | `FairSpec`; the shapes below |
| `admission` | `TypeOK`, `OwnWritesAdmitted`, `ClonesAdmitted`, `MachineDescribed`, `MachineFollowsTemplate` | any sequence of requests |
| `machine_credentials` (violated) | `DeletionKeepsRetrying` | two faults |
| `cluster_label_edit` (violated) | `FinalizerGuardsResources` | one label edit |
| `cluster_nodes_names` (violated) | `DisabledBastionRemoved` | `FairSpec`; StackitCluster and Cluster with different names, one switch of the bastion, no fault |
| `admission_bastion_switch` (violated) | `BastionFrozen` | any sequence of requests |
| `admission_root_volume` (violated) | `RootVolumeOptional` | any sequence of requests |

In the cluster modules `mode` is fixed in the initial state, from the constant
`Modes`: what the cluster looks like (managed network, load balancer, bastion,
Machines, zones, prefixes) and the faults, edits and kinds of edits it lives
through. One run covers several shapes this way.

Some properties are conditioned, because the code does not keep them otherwise;
the limits below say what happens then.

* `BastionFollowsSpec` and `HashDescribesServer`: `Undisturbed`, no fault so far and
  no label edits. They speak of edits that fall into a reconcile, not of crashes.
* `NodesReachable` and `DisabledBastionRemoved`: not `TakenBack`, more than one
  edit together with a fault.
* `DisabledBastionRemoved`: not `GivenUp`. An error of a bastion call that is not
  retryable ends the reconcile without requeue. The patch of its conditions is an
  event, so that it is tried once more; when the second try meets the same error
  nothing changes, and the cluster rests, not ready.
* `PoolServesControlPlane`: the address reached the Machine, and the conditions do
  not report an error of the network or of the load balancer, which rests the same
  way. It does not ask for a cluster that is ready: the pool follows a cluster that
  waits for its bastion, too.
* `OwnWritesAdmitted`: no user gave the machine the `providerID` of another server.
* `MachinesKeepCluster`: Machines are read as they are, and none appears once the
  deletion went past the check.

### Bounds

* Two servers: one to create and one that would be the duplicate or the
  successor. `MaxIDs` plays the same part per kind.
* One or two faults: a lost response and a lost patch, or a lost patch and a
  crash. `machine_faults` has one, which keeps the fair state graph small enough; its
  safety properties are theorems for any number. A portal delete counts as a fault in `StackitCluster` and as an
  edit in `ClusterNodes`.
* Two label sets, one containing the other, so that a lookup can miss a resource
  in one direction and find it in the other. Two contents: old and new.
* When IDs run out a create step is not enabled. The fair runs of the machine and
  the cluster have no edits and no portal deletes, so that they use one ID of a
  kind and leave the second one. Two edits of the bastion recreate it at most
  twice: `cluster_interference` has three IDs of a kind, `cluster_nodes` four.
* The shapes of `cluster_nodes` (`MCClusterNodes`): `Replicas` (two control plane
  Machines in two zones and two addresses, so that a lost server's address is
  handed out again while its Machine still reports it), `Single` (scaled down, or
  the load balancer lost, with a fault, no usable prefix and only a metro zone),
  `Unread` (two faults in a row, as it takes to rest in a permanent error), `Toggled`
  (the bastion switched twice), `Recreated` (its document changed), `Switched`
  (switched off, with a fault) and `Early` (the same with two faults, before there is
  a node), `Misplaced` (a zone that is not published, and a fault, so that a failed
  start publishes it). A fault and two edits of the bastion together are not in
  the run. `mode.ips` keeps the addresses to those that a shape can tell apart.
* `admission`: root volumes that tell the branches of defaulting and validation
  apart, two values of every compared field. A behaviour is about one family
  (cluster, cluster template, machine with its template), as no rule of a webhook
  relates two families.

### Fairness

Machine and cluster: weak fairness of `Reconcile` (a worker takes keys from its
queue and calls return), of `Observe` (the informer catches up) and of every
pending change in the cloud (a booting server comes up or fails, a deletion
ends). `ClusterNodes`: of `ClusterStep` and `MachineStep` (the two workers), of
`SyncCluster` and the `SyncMachine(m)` together (the informers), and of
`LoadBalancerReady` and the `Progress(m)` together (Cluster API copies addresses and
finishes deletions, servers boot). Nothing is assumed of users, faults, watches of other
objects or repairs: where the code waits for one of them the properties allow it
to rest.

## Findings

Five runs refute what a comment, a message or a document says; `PROJECT.json`
quotes both sides.

1. `machine_credentials`: deletion discards the requeue for invalid credentials
   and rests, although "every other credentials problem ... keeps retrying".
2. `cluster_label_edit`: labels of a cluster are never frozen; an edit creates a
   second bastion and the first one is leaked.
3. `cluster_nodes_names`: `DeleteNodeSSHAccess` looks for servers by the name of
   the StackitCluster, which they carry only if the Cluster has the same name;
   otherwise a disabled bastion is never removed.
4. `admission_bastion_switch`: a bastion switched off and on again before the
   controller removed it can change fields that are immutable once it runs.
5. `admission_root_volume`: the defaulter sets `deleteOnTermination` of every enabled
   bastion's root volume, and the validator refuses that field without a size or a
   performance class; a bastion without `rootVolume`, as the documentation shows
   it, is never admitted.

These limits are hazards of `PROJECT.json` without a run of their own:

* Labels of a machine are frozen once `status.instanceID` is persisted. With an
  edit before that, `AtMostOneServer` and `NeverRecreated` do not hold.
* A server whose create executes late, after the deletion looked for it, stays:
  `FinalizerGuardsServer` does not hold with `LateCreates`.
* A recorded network ID wins over the tags of a successor. With portal deletes
  `FinalizerGuardsResources` does not hold for clusters; with portal deletes and
  a lagging informer `FinalizerGuardsServer` does not hold for machines.
* When several resources match, or a bastion with old labels keeps the network
  in use, a deletion retries forever.
* The guard against recreating a server reads `initialization.provisioned`, which
  is persisted after `providerID`. If that request is lost and the server then
  disappears, a server with another identity is created.
* After a crash while a bastion is created, the reason `Skipped` of an earlier
  time makes a later disable skip the cleanup (`DisabledBastionRemoved` leaves this
  out as `TakenBack`); and a server that is adopted then
  gets the hash of a document it did not boot with.
* A reconcile with a copy from before the recording of a new bastion does not find
  it on record. With `StaleReads`, a bastion switched off, on and off again without
  any fault can stay although the spec is off: `BastionFollowsSpec` does not hold.
* A machine reconcile with a copy from before a disable can create the node SSH
  group again after the cleanup; it stays until the bastion is enabled again or
  the cluster is deleted.
* If the cleanup removed the rules of the node SSH group and then failed, the
  patch that says so is lost, and the edit that caused it is taken back, the
  StackitCluster never changed and no event makes the machines restore the rules:
  `NodesReachable` does not hold for `TakenBack`.
* Failing to read the network interfaces of a server is not an error. When it
  happens in two reconciles in a row the second one changes nothing, nothing
  requeues the machine, and a control plane server that runs stays out of the
  target pool until some other event.
* The load balancer may be switched off between its creation and the recording of
  its ID.
* An error of the network, the load balancer or the bastion that is not retryable,
  and a `cloudInitRef` that cannot be read, end a cluster reconcile without requeue.
  Met twice in a row it leaves the cluster at rest and not ready, also when
  the cause has gone.
* A user may set the first `providerID` of a machine, on create and by an update.
  When it names another server the webhook refuses the controller's own as a
  change, in every retry.
* Objects stored with `ENABLE_WEBHOOKS=false` are outside `Admission`.

## Proofs

Every safety property and every refinement the passing runs check is also a
theorem, for every value of the constants that satisfies the named assumptions
(`ServerAssumption`, `LabelAssumption`, `BoundAssumption` and `FaultAssumption` of
`StackitMachine`; `ClusterAssumption`, `NodesAssumption`, `AdmissionAssumption`):
any number of servers, resources, Machines, addresses, label sets and documents,
and any bound on faults and edits. A theorem that needs more says so in its
statement:

| Hypothesis | Says | Without it |
|---|---|---|
| `ExclusiveOwner` (machine) | no portal deletes, label edits or late creates | each of them breaks one of the properties, see the limits |
| `PortalClosed` (cluster) | nobody deletes the provider's resources | a recorded network need not exist |
| `LabelsFixed` (cluster) | nobody edits `additionalLabels` | the finding of `cluster_label_edit` |
| `LeftAlone` (cluster) | nobody edits the cluster, its document or its resources | label edits and portal deletes break the properties; edits of switch and document are left out because the invariant counts on nothing being created twice |
| `~StaleReads` | a reconcile reads what the controller wrote last | see the bastion below |

### The machine (`StackitMachineProofs`)

`TypeCorrect`, then two groups.

Rest, with every disturbance: `DeletionRemembered` (`DeletionNeverForgotten`) and
`RestPublished` (`RestIsPublished`) from `RestInv`. A controller at rest is judged
by the object in the API server, but it decided on a copy. `RestInv` says that the
copy a reconcile works on is the informer's or the key is queued (`Snapshot`), that
the handler that returned left in the working copy what its outcome says
(`Returned`), that each request of `PatchObject` that is behind has carried its
fields or the key is queued (`Sent`), and so that a resting controller is justified
by the informer's copy or has an event coming (`Rests`).

Ownership, under `ExclusiveOwner`: `FinalizerGuards`, `NoDuplicates`,
`NoRecreation`, `IdentitiesAgree`, and `OwnershipHolds`, which maps each step to a
step or a stutter of `GuardedResource`. None of these is inductive alone: that no
second server is created depends on the tags finding the first one until a
deletion was *seen*, and that the finalizer is there depends on what a reconcile
with an old copy can still do. `IndInv` adds:

* `FixedLabels`: tags and labels agree, so lookups are complete;
* `AllOnRecord`: every copy of the object names only servers that were created;
* `OneCreated`: at most one server was ever created;
* `CacheLags`: the informer knows a past state, and what it knows of finalizer
  and deletion still holds;
* `FinalizerFirst`: the steps of `reconcileNormal` run under a persisted
  finalizer;
* `TeardownLast`: once a server is torn down the deletion was seen, and no
  reconcile can create a server any more.

`NeverRecreated` speaks of everything an object can have on record, because the guard
of `ensureServer` reads one field of a copy that may be old, while the lookup by
tags has to find the server the copy does not know. Without `ExclusiveOwner` only
the guard is left: `NoRecreationFreshReads` says that with `~StaleReads` nothing is
created once `initialization.provisioned` is set, in spite of portal deletes, label
edits and late creates.

### The cluster

`StackitClusterProofs`: `TypeCorrect` (with `TypeInv`, which adds to `TypeOK` that
the group is resolved before a server gets it), `ByoNetworkNeverDeleted` and
`ClusterOutlivesMachines`. The second rests on `NamedNetworkUp`: no step deletes
the network the spec names, as every deletion is of another kind or guarded by
`ManagedNetwork`. The third assumes `PortalClosed`; its invariant `KeepInv` says
that a reconcile past the check for Machines saw a deletion, and that no Machine
appears after.

`StackitClusterRest`:

* `DeletionRemembered` and `RestPublished`, the latter under `PortalClosed`.
  `RestInv` has the parts it has for the machine, and `Halves`: normal operation
  and deletion never mix although both run the calls that drop the bastion.
  `BackedInv` adds that the network and the load balancer on record exist from the
  moment they are recorded until a reconcile that saw the deletion.
* `OneOfAKind` (`AtMostOneOfAKind`) under `LabelsFixed`. `LabelInv`: every tag and
  every copy of the object has the initial labels, so a lookup sees all there is,
  and a create follows a lookup that saw nothing in the same step of the worker.

`StackitClusterOwnership`: `ResourcesGuarded` (`FinalizerGuardsResources`) and
`ImplementsOwnership` (`OwnershipSpec`) under `LeftAlone`. `OwnInv` says that a
resource came into being only under the finalizer (`Guarded`, `Persisted`), that
nothing is created twice (`FirstOnly`), that whatever is torn down is torn down by
a reconcile that saw the deletion and no Machine (`TornDown`), that the record of
the bastion is empty or complete in every copy (`Records`), and at each call of the
teardown what the calls before it have removed for good (`TearOrder`). It is
inductive together with `KeepInv`, `RestInv`, `TornLast` and `LabelInv`.

`StackitClusterBastion`: `BastionFollows` (`BastionFollowsSpec`) and
`HashDescribes` (`HashDescribesServer`) for any number of edits of the switch and
the document, with `~StaleReads`. `BastionInv` speaks of the time before the first
fault: what exists is on record and the hash on record is that of the server
(`Honest`), the reconcile under way works on the latest record (`Fresh`), each call
of creation and removal has what it builds on (`Ensuring`, `Dropping`), and the
deferred patch brings the object to what the handler returned (`Carrying`). The
hypothesis is needed; see the limit on stale reads above.

### The composition

`ClusterNodesProofs`: `TypeCorrect` (with `TypeInv`, which adds that a busy machine
worker has a Machine and that a node SSH rule is only written for a recorded
bastion). `Min` is a `CHOOSE`; that it is an element of its set (`MinIsElement`)
comes from the well-foundedness of the naturals. Then:

* `PoolDistinct`, `PlaceholderPlaced` and `NeverEmptied`. The pool is replaced by a
  list made in an earlier step, so `PoolInv` carries the same facts for the list of
  the reconcile under way, and that it is not empty when it is about to be written.
* `PlacementHonoured`. A server is created from a copy of a copy of the
  StackitCluster. `PlacedInv` follows the zones along that way: object and working
  copy (`ClusterPublished`), informer (`SeenPublished`), machine reconcile
  (`MachineAdmitted`). A cluster reconcile that fails before it has read the zones
  publishes the default ones; it also clears `ready`, and a machine reconcile
  places servers from a copy that is ready only.
* `PoolServed` (`PoolServesControlPlane`). `FollowInv`: the pool is the list the
  cluster reconciler would make now, or a reconcile that has yet to list the
  Machines, or to write what it listed, is running or queued, or the last one ended
  in an error that its conditions report (`Blocked`). Each change of the list is one that `machineTargetPoolChanged` lets through. `AddressInv` adds that
  an address that is known is that of the server.

`ClusterNodesAccess`: `AccessRestored` (`NodesReachable`). `ReachInv` has two sides.
The machine side: the informer's copy of the cluster is current or has an event
coming, and a machine reconcile works from it or is repeated (`ViewInv`), so every
node is reached from the bastion on record or its Machine is attended to
(`AccessInv`). The cluster side: an access that is revoked is revoked by a
reconcile whose patch changes the object, which is the event the machines need.
This is where faults and edits must not meet: without faults the patch succeeds
and the record is of the bastion there is (`NoFaultInv`); with one edit at most the
bastion is torn down for good (`OneEditInv`).

### The webhooks (`AdmissionProofs`)

Both defaulters are idempotent, and `TypeCorrect`, `OwnWritesAlwaysAdmitted`,
`ClonesAlwaysAdmitted`, `MachineAlwaysDescribed` and `TemplateAlwaysFollowed`.
`IndInv` adds that every stored
spec is defaulted and valid, which is what makes the next write of a reconciler
pass, and that resources and records belong to a stored object.

### Only model-checked

`DeletionCompletes`, `ProvisioningCompletes`, `DisabledBastionRemoved` and `Settles`
are liveness under fairness, which the prover does not handle. TLC checks them on
the instances of the runs; nothing is claimed for others.

## Not modelled

* The cleanup tool (`cloud/cleanup.go`): one sequential pass without state that an
  operator runs again. It goes on after each failure, reports them all, and
  promises nothing about what remains.
* The manager's process setup, the helper that reads the bootstrap Secret (its
  outcomes are faults of `CheckGates`), the fake client, generated code.
* The patterns and formats of fields, the CIDRs of the bastion's ingress rules and
  the table of server states beyond the classes the reconcilers tell apart: no
  state depends on them.
* The deletion of a cluster with lagging lists of Machines: `StackitCluster`
  reads them as they are, `ClusterNodes` deletes no cluster.
