------------------------------ MODULE Admission ------------------------------
(***************************************************************************)
(* The admission webhooks of the four kinds (webhook/v1alpha1): every      *)
(* create and every update of a spec, by a user, by Cluster API cloning a  *)
(* template, or by the provider's own reconcilers, is defaulted and then   *)
(* validated against the object that is stored.  Status writes go to the   *)
(* status subresource and pass no webhook.  The reconcilers appear here    *)
(* only with the writes they make and the cloud resources these describe.  *)
(***************************************************************************)
EXTENDS Integers

CONSTANTS
  Identities,  \* values of projectID, region, network.id, credentialsSecretRef
  Values,      \* complete sets of fields a server is created from
  Volumes,     \* root volumes a user writes
  LabelSets,   \* values of a machine's additionalLabels
  Families     \* the kinds of object a behaviour may be about

Unset == "unset"

\* StackitRootVolumeSpec: size in GiB, whether a performance class is named,
\* and the optional deleteOnTermination.
VolumeType == [size : Int, class : BOOLEAN, dot : {Unset, "true", "false"}]

NoVolume == [size |-> 0, class |-> FALSE, dot |-> Unset]

\* Named root volumes are values a request can carry; a set of fields is never
\* taken for a missing one.
ASSUME AdmissionAssumption ==
  /\ Volumes \subseteq VolumeType
  /\ Unset \notin Values
  /\ Families \subseteq {"cluster", "clusterTemplate", "machine"}

\* StackitBastionSpec: fields stands for imageID, machineType, sshKeyName and
\* allowedCIDRs (Unset when one of them is missing), ref for cloudInitRef.
BastionType ==
  [enabled : BOOLEAN, fields : Values \cup {Unset}, volume : VolumeType,
   ref : BOOLEAN]

\* StackitClusterSpec.  wellFormed: every pattern, name, CIDR and label that
\* is given is one the validators accept.
ClusterSpecType ==
  [identity : Identities, wellFormed : BOOLEAN, lb : BOOLEAN,
   endpoint : {Unset, "user", "balancer"}, bastion : BastionType]

\* StackitMachineSpec: vm stands for every field a server is created from
\* other than the root volume and the labels.
MachineSpecType ==
  [vm : Values, wellFormed : BOOLEAN, volume : VolumeType,
   labels : LabelSets, providerID : {Unset, "own", "other"}]

None == [exists |-> FALSE]

Objects(SpecType) == {None} \cup [exists : {TRUE}, spec : SpecType]

VARIABLES
  family,           \* which kind of object this behaviour is about
  clusterTemplate,  \* the stored StackitClusterTemplate
  cluster,          \* the stored StackitCluster
  clusterStatus,    \* its status: load balancer and bastion server recorded
  loadBalancer,     \* whether the load balancer exists
  bastion,          \* whether the bastion server exists
  frozen,           \* spec.bastion when the bastion server was recorded (history)
  machineTemplate,  \* the stored StackitMachineTemplate
  machine,          \* the stored StackitMachine
  cloned,           \* whether it was cloned from machineTemplate
  instanceID,       \* whether its status records the server
  server            \* what the machine's server was created from

clusterVars == <<clusterTemplate, cluster, clusterStatus, loadBalancer,
                 bastion, frozen>>
machineVars == <<machineTemplate, machine, cloned, instanceID, server>>
vars == <<family, clusterVars, machineVars>>

-----------------------------------------------------------------------------
(* Defaulting *)

defaultRootVolume(v) == IF v.dot = Unset THEN [v EXCEPT !.dot = "true"] ELSE v

rootVolumeConfigured(v) == v.size > 0 \/ v.class \/ v.dot # Unset

\* The root volume of an enabled bastion is defaulted even if none is named.
defaultClusterSpec(s) ==
  IF s.bastion.enabled \/ rootVolumeConfigured(s.bastion.volume)
  THEN [s EXCEPT !.bastion.volume = defaultRootVolume(@)]
  ELSE s

defaultMachineSpec(s) ==
  IF rootVolumeConfigured(s.volume)
  THEN [s EXCEPT !.volume = defaultRootVolume(@)]
  ELSE s

-----------------------------------------------------------------------------
(* Validation *)

validateRootVolume(v) ==
  /\ v.size >= 0
  /\ v.dot # Unset => v.size # 0 \/ v.class

validateBastionSpec(b) ==
  /\ b.enabled => b.fields # Unset
  /\ validateRootVolume(b.volume)

validateStackitClusterSpec(s) ==
  /\ s.wellFormed
  /\ ~s.lb => s.endpoint # Unset
  /\ validateBastionSpec(s.bastion)

WithoutRef(b) == [b EXCEPT !.ref = FALSE]

\* old and status are what is stored, new is the request after defaulting.
validateStackitClusterSpecUpdate(old, status, new) ==
  /\ old.identity = new.identity
  /\ status.loadBalancerID => old.lb = new.lb
  /\ status.serverID /\ old.bastion.enabled /\ new.bastion.enabled =>
       WithoutRef(old.bastion) = WithoutRef(new.bastion)

validateStackitMachineSpec(s, allowProviderID) ==
  /\ s.providerID # Unset => allowProviderID
  /\ s.wellFormed
  /\ validateRootVolume(s.volume)

\* The spec without what an update may still set.
VMFields(s) == [vm |-> s.vm, volume |-> s.volume]

\* Mutant of validateStackitMachineSpecUpdate: the root volume is not one of
\* the frozen fields.
validateUpdateAnyVolume(old, recorded, new) ==
  /\ old.vm = new.vm
  /\ old.providerID # Unset => new.providerID = old.providerID
  /\ recorded => old.labels = new.labels

\* Mutant of validateStackitMachineSpecUpdate: the providerID is left in the
\* comparison of the frozen fields.
validateUpdateWholeSpec(old, recorded, new) ==
  /\ VMFields(defaultMachineSpec(old)) = VMFields(defaultMachineSpec(new))
  /\ new.providerID = old.providerID
  /\ recorded => old.labels = new.labels

validateStackitMachineSpecUpdate(old, recorded, new) ==
  /\ VMFields(defaultMachineSpec(old)) = VMFields(defaultMachineSpec(new))
  /\ old.providerID # Unset => new.providerID = old.providerID
  /\ recorded => old.labels = new.labels

-----------------------------------------------------------------------------
(* The webhooks.  Each takes a request, defaulted, and what is stored. *)

AdmitsCluster(s) == validateStackitClusterSpec(s)

AdmitsClusterUpdate(old, status, s) ==
  /\ validateStackitClusterSpec(s)
  /\ validateStackitClusterSpecUpdate(old, status, s)

AdmitsClusterTemplateUpdate(old, s) ==
  /\ validateStackitClusterSpec(s)
  /\ defaultClusterSpec(old) = defaultClusterSpec(s)

AdmitsMachine(s) == validateStackitMachineSpec(s, TRUE)

AdmitsMachineUpdate(old, recorded, s) ==
  /\ validateStackitMachineSpec(s, TRUE)
  /\ validateStackitMachineSpecUpdate(old, recorded, s)

AdmitsMachineTemplate(s) == validateStackitMachineSpec(s, FALSE)

\* Mutant of AdmitsMachineTemplateUpdate: a template's spec is not frozen.
AdmitsAnyTemplateUpdate(old, s) == validateStackitMachineSpec(s, FALSE)

AdmitsMachineTemplateUpdate(old, s) ==
  /\ validateStackitMachineSpec(s, FALSE)
  /\ defaultMachineSpec(old) = defaultMachineSpec(s)

Stored(s) == [exists |-> TRUE, spec |-> s]

-----------------------------------------------------------------------------
(* Requests *)

Bastions ==
  [enabled : BOOLEAN, fields : Values \cup {Unset}, volume : Volumes,
   ref : BOOLEAN]

NoBastion ==
  [enabled |-> FALSE, fields |-> Unset, volume |-> NoVolume, ref |-> FALSE]

ClusterSpecs ==
  [identity : Identities, wellFormed : BOOLEAN, lb : BOOLEAN,
   endpoint : {Unset, "user"}, bastion : Bastions]

\* A user edits one part of the spec of a cluster in a request.
ClusterEdits(s) ==
  {[s EXCEPT !.identity = i] : i \in Identities}
    \cup {[s EXCEPT !.wellFormed = w] : w \in BOOLEAN}
    \cup {[s EXCEPT !.lb = p[1], !.endpoint = p[2]] :
            p \in BOOLEAN \X {Unset, "user", s.endpoint}}
    \cup {[s EXCEPT !.bastion = b] : b \in Bastions}

\* A providerID of the right form names the machine's own server (an object that
\* is restored or moved) or another one.
ProviderIDs == {Unset, "own", "other"}

MachineSpecs ==
  [vm : Values, wellFormed : BOOLEAN, volume : Volumes, labels : LabelSets,
   providerID : ProviderIDs]

\* A user edits anything in the spec of a machine.
MachineEdits(s) ==
  [vm : Values, wellFormed : BOOLEAN, volume : Volumes \cup {s.volume},
   labels : LabelSets, providerID : ProviderIDs]

-----------------------------------------------------------------------------
(* StackitCluster and StackitClusterTemplate *)

Init ==
  /\ family \in Families
  /\ clusterTemplate = None /\ cluster = None
  /\ clusterStatus = [loadBalancerID |-> FALSE, serverID |-> FALSE]
  /\ loadBalancer = FALSE /\ bastion = FALSE
  /\ frozen = NoBastion
  /\ machineTemplate = None /\ machine = None
  /\ cloned = FALSE /\ instanceID = FALSE
  /\ server = None

\* Mutant of CreateClusterTemplate: validates what the user wrote, then stores
\* what the defaulter makes of it.
CreateTemplateThenDefault ==
  /\ family = "clusterTemplate"
  /\ ~clusterTemplate.exists
  /\ \E request \in ClusterSpecs :
       /\ AdmitsCluster(request)
       /\ clusterTemplate' = Stored(defaultClusterSpec(request))
  /\ UNCHANGED <<family, cluster, clusterStatus, loadBalancer, bastion,
                 frozen, machineVars>>

CreateClusterTemplate ==
  /\ family = "clusterTemplate"
  /\ ~clusterTemplate.exists
  /\ \E request \in ClusterSpecs :
       LET s == defaultClusterSpec(request) IN
       /\ AdmitsCluster(s)
       /\ clusterTemplate' = Stored(s)
  /\ UNCHANGED <<family, cluster, clusterStatus, loadBalancer, bastion,
                 frozen, machineVars>>

UpdateClusterTemplate ==
  /\ clusterTemplate.exists
  /\ \E request \in ClusterEdits(clusterTemplate.spec) :
       LET s == defaultClusterSpec(request) IN
       /\ AdmitsClusterTemplateUpdate(clusterTemplate.spec, s)
       /\ clusterTemplate' = Stored(s)
  /\ UNCHANGED <<family, cluster, clusterStatus, loadBalancer, bastion,
                 frozen, machineVars>>

CreateCluster ==
  /\ family = "cluster"
  /\ ~cluster.exists
  /\ \E request \in ClusterSpecs :
       LET s == defaultClusterSpec(request) IN
       /\ AdmitsCluster(s)
       /\ cluster' = Stored(s)
  /\ UNCHANGED <<family, clusterTemplate, clusterStatus, loadBalancer,
                 bastion, frozen, machineVars>>

UpdateCluster ==
  /\ cluster.exists
  /\ \E request \in ClusterEdits(cluster.spec) :
       LET s == defaultClusterSpec(request) IN
       /\ AdmitsClusterUpdate(cluster.spec, clusterStatus, s)
       /\ cluster' = Stored(s)
  /\ UNCHANGED <<family, clusterTemplate, clusterStatus, loadBalancer,
                 bastion, frozen, machineVars>>

\* reconcileNormal creates the load balancer, and then, in an update of the
\* spec and one of the status, publishes its address and records its ID.
EnsureAPIServerLoadBalancer ==
  /\ cluster.exists
  /\ cluster.spec.lb /\ ~loadBalancer
  /\ loadBalancer' = TRUE
  /\ UNCHANGED <<family, clusterTemplate, cluster, clusterStatus, bastion,
                 frozen, machineVars>>

WithEndpoint(s) == [s EXCEPT !.endpoint = "balancer"]

PublishEndpoint ==
  /\ cluster.exists
  /\ loadBalancer /\ (cluster.spec.lb \/ ~clusterStatus.loadBalancerID)
  /\ LET s == defaultClusterSpec(WithEndpoint(cluster.spec)) IN
       /\ AdmitsClusterUpdate(cluster.spec, clusterStatus, s)
       /\ cluster' = Stored(s)
  /\ UNCHANGED <<family, clusterTemplate, clusterStatus, loadBalancer,
                 bastion, frozen, machineVars>>

RecordLoadBalancer ==
  /\ loadBalancer /\ ~clusterStatus.loadBalancerID
  /\ clusterStatus' = [clusterStatus EXCEPT !.loadBalancerID = TRUE]
  /\ UNCHANGED <<family, clusterTemplate, cluster, loadBalancer, bastion,
                 frozen, machineVars>>

\* reconcileBastion creates the server of an enabled bastion;
\* SetBastionStatus is persisted later.
EnsureBastion ==
  /\ cluster.exists
  /\ cluster.spec.bastion.enabled /\ ~bastion
  /\ bastion' = TRUE
  /\ UNCHANGED <<family, clusterTemplate, cluster, clusterStatus,
                 loadBalancer, frozen, machineVars>>

SetBastionStatus ==
  /\ bastion /\ ~clusterStatus.serverID
  /\ clusterStatus' = [clusterStatus EXCEPT !.serverID = TRUE]
  /\ frozen' = cluster.spec.bastion
  /\ UNCHANGED <<family, clusterTemplate, cluster, loadBalancer, bastion,
                 machineVars>>

\* The server goes because the bastion is disabled, or because its cloud-init
\* document changed; ClearBastionStatus is persisted later.
DeleteBastion ==
  /\ bastion
  /\ ~cluster.spec.bastion.enabled \/ cluster.spec.bastion.ref
  /\ bastion' = FALSE
  /\ UNCHANGED <<family, clusterTemplate, cluster, clusterStatus,
                 loadBalancer, frozen, machineVars>>

ClearBastionStatus ==
  /\ clusterStatus.serverID /\ ~bastion
  /\ clusterStatus' = [clusterStatus EXCEPT !.serverID = FALSE]
  /\ frozen' = NoBastion
  /\ UNCHANGED <<family, clusterTemplate, cluster, loadBalancer, bastion,
                 machineVars>>

-----------------------------------------------------------------------------
(* StackitMachine and StackitMachineTemplate *)

CreateMachineTemplate ==
  /\ family = "machine"
  /\ ~machineTemplate.exists
  /\ \E request \in MachineSpecs :
       LET s == defaultMachineSpec(request) IN
       /\ AdmitsMachineTemplate(s)
       /\ machineTemplate' = Stored(s)
  /\ UNCHANGED <<family, clusterVars, machine, cloned, instanceID, server>>

UpdateMachineTemplate ==
  /\ machineTemplate.exists
  /\ \E request \in MachineEdits(machineTemplate.spec) :
       LET s == defaultMachineSpec(request) IN
       /\ AdmitsMachineTemplateUpdate(machineTemplate.spec, s)
       /\ machineTemplate' = Stored(s)
  /\ UNCHANGED <<family, clusterVars, machine, cloned, instanceID, server>>

\* Deletion passes every validator; a machine outlives its template.
DeleteMachineTemplate ==
  /\ machineTemplate.exists
  /\ machineTemplate' = None
  /\ cloned' = FALSE
  /\ UNCHANGED <<family, clusterVars, machine, instanceID, server>>

\* Cluster API clones the template; the defaulter runs on the clone again.
CloneMachine ==
  /\ machineTemplate.exists /\ ~machine.exists
  /\ LET s == defaultMachineSpec(machineTemplate.spec) IN
       /\ AdmitsMachine(s)
       /\ machine' = Stored(s)
  /\ cloned' = TRUE
  /\ UNCHANGED <<family, clusterVars, machineTemplate, instanceID, server>>

CreateMachine ==
  /\ family = "machine"
  /\ ~machine.exists
  /\ \E request \in MachineSpecs :
       LET s == defaultMachineSpec(request) IN
       /\ AdmitsMachine(s)
       /\ machine' = Stored(s)
  /\ UNCHANGED <<family, clusterVars, machineTemplate, cloned, instanceID,
                 server>>

UpdateMachine ==
  /\ machine.exists
  /\ \E request \in MachineEdits(machine.spec) :
       LET s == defaultMachineSpec(request) IN
       /\ AdmitsMachineUpdate(machine.spec, instanceID, s)
       /\ machine' = Stored(s)
  /\ UNCHANGED <<family, clusterVars, machineTemplate, cloned, instanceID,
                 server>>

\* reconcileNormal creates the server from the spec, and then, in an update of
\* the spec and one of the status, publishes its providerID and records it.
EnsureServer ==
  /\ machine.exists /\ ~server.exists
  /\ server' = Stored(VMFields(machine.spec))
  /\ UNCHANGED <<family, clusterVars, machineTemplate, machine, cloned,
                 instanceID>>

\* Mutant of WithProviderID: the server's ID without its scheme.
WithServerID(s) == [s EXCEPT !.providerID = "server"]

WithProviderID(s) == [s EXCEPT !.providerID = "own"]

PublishProviderID ==
  /\ server.exists
  /\ LET s == defaultMachineSpec(WithProviderID(machine.spec)) IN
       /\ AdmitsMachineUpdate(machine.spec, instanceID, s)
       /\ machine' = Stored(s)
  /\ UNCHANGED <<family, clusterVars, machineTemplate, cloned, instanceID,
                 server>>

RecordInstance ==
  /\ server.exists /\ ~instanceID
  /\ instanceID' = TRUE
  /\ UNCHANGED <<family, clusterVars, machineTemplate, machine, cloned,
                 server>>

-----------------------------------------------------------------------------

Next ==
  \/ CreateClusterTemplate
  \/ UpdateClusterTemplate
  \/ CreateCluster
  \/ UpdateCluster
  \/ EnsureAPIServerLoadBalancer
  \/ PublishEndpoint
  \/ RecordLoadBalancer
  \/ EnsureBastion
  \/ SetBastionStatus
  \/ DeleteBastion
  \/ ClearBastionStatus
  \/ CreateMachineTemplate
  \/ UpdateMachineTemplate
  \/ DeleteMachineTemplate
  \/ CloneMachine
  \/ CreateMachine
  \/ UpdateMachine
  \/ EnsureServer
  \/ PublishProviderID
  \/ RecordInstance

Spec == Init /\ [][Next]_vars

-----------------------------------------------------------------------------
(* Properties *)

\* Every object, status and resource has the shape its Go type allows; the
\* reconcilers write only providerIDs of the form NewProviderID makes.
TypeOK ==
  /\ family \in {"cluster", "clusterTemplate", "machine"}
  /\ clusterTemplate \in Objects(ClusterSpecType)
  /\ cluster \in Objects(ClusterSpecType)
  /\ clusterStatus \in [loadBalancerID : BOOLEAN, serverID : BOOLEAN]
  /\ loadBalancer \in BOOLEAN /\ bastion \in BOOLEAN
  /\ frozen \in BastionType
  /\ machineTemplate \in Objects(MachineSpecType)
  /\ machine \in Objects(MachineSpecType)
  /\ cloned \in BOOLEAN /\ instanceID \in BOOLEAN
  /\ server \in Objects([vm : Values, volume : VolumeType])

\* The reconcilers are not locked out by their own webhooks, whatever updates were
\* admitted and whatever is recorded: a write that leaves the spec alone (adding or
\* removing the finalizer), the write of the load balancer's endpoint and the write
\* of the server's providerID are admitted.  The one exception is a machine to which
\* a user gave the providerID of another server while it had none, which the
\* validator allows; the controller's own is then refused as a change.
OwnWritesAdmitted ==
  /\ cluster.exists =>
       \A s \in {cluster.spec, WithEndpoint(cluster.spec)} :
         AdmitsClusterUpdate(cluster.spec, clusterStatus,
                             defaultClusterSpec(s))
  /\ machine.exists =>
       AdmitsMachineUpdate(machine.spec, instanceID, defaultMachineSpec(machine.spec))
  /\ machine.exists /\ machine.spec.providerID # "other" =>
       AdmitsMachineUpdate(machine.spec, instanceID,
                           defaultMachineSpec(WithProviderID(machine.spec)))

\* Whatever a validator let into a template, Cluster API can clone: the clone
\* passes the defaulter and the validator of its own kind.
ClonesAdmitted ==
  /\ clusterTemplate.exists =>
       AdmitsCluster(defaultClusterSpec(clusterTemplate.spec))
  /\ machineTemplate.exists =>
       AdmitsMachine(defaultMachineSpec(machineTemplate.spec))

\* The spec of a StackitMachine describes its server: the fields the server
\* was created from are those of the spec after any sequence of updates, also
\* of updates admitted before the server was recorded.
MachineDescribed == server.exists => VMFields(machine.spec) = server.spec

\* A machine cloned from a template agrees with it for as long as both exist,
\* so that the machines cloned from one template are alike whenever they were
\* cloned: neither kind of update moves a creation field.
MachineFollowsTemplate ==
  cloned => VMFields(machine.spec) = VMFields(machineTemplate.spec)

\* "Set `rootVolume` when the chosen machine type's flavor disk is too small"
\* (docs/src/topics/accessing-vm-instances.md:101), an optional field
\* (api/v1alpha1/stackitcluster_types.go:125): while no bastion server is recorded, a
\* bastion with all the fields that are required can be enabled without a root
\* volume.
RootVolumeOptional ==
  cluster.exists /\ ~clusterStatus.serverID =>
    \A fields \in Values :
      LET asked == [NoBastion EXCEPT !.enabled = TRUE, !.fields = fields]
      IN  AdmitsClusterUpdate(cluster.spec, clusterStatus,
                              defaultClusterSpec([cluster.spec EXCEPT !.bastion = asked]))

\* "bastion fields other than cloudInitRef are immutable after the bastion
\* server has been provisioned": while the server is recorded, the enabled
\* bastion has the fields it had when the server was recorded.
BastionFrozen ==
  clusterStatus.serverID /\ cluster.spec.bastion.enabled /\ frozen.enabled =>
    WithoutRef(cluster.spec.bastion) = WithoutRef(frozen)
=============================================================================
