--------------------------- MODULE AdmissionProofs ---------------------------
(***************************************************************************)
(* The invariants of Admission for all identities, values, volumes and     *)
(* labels.  The argument: what is stored is a fixed point of its defaulter *)
(* and passes its validator (Settled), so that a write that changes no     *)
(* validated field is admitted, and comparing defaulted specs compares the *)
(* specs themselves.                                                       *)
(***************************************************************************)
EXTENDS Admission, TLAPS

\* What is stored is defaulted and valid.
SettledCluster(o) ==
  o.exists => /\ defaultClusterSpec(o.spec) = o.spec
              /\ validateStackitClusterSpec(o.spec)

SettledMachine(o, allowProviderID) ==
  o.exists => /\ defaultMachineSpec(o.spec) = o.spec
              /\ validateStackitMachineSpec(o.spec, allowProviderID)

\* The StackitCluster, its template and its resources: resources and records
\* exist only for a stored object.
ClusterInv ==
  /\ clusterTemplate \in Objects(ClusterSpecType)
  /\ cluster \in Objects(ClusterSpecType)
  /\ clusterStatus \in [loadBalancerID : BOOLEAN, serverID : BOOLEAN]
  /\ loadBalancer \in BOOLEAN /\ bastion \in BOOLEAN
  /\ frozen \in BastionType
  /\ SettledCluster(clusterTemplate) /\ SettledCluster(cluster)
  /\ loadBalancer \/ clusterStatus.loadBalancerID \/ bastion => cluster.exists

\* The StackitMachine, its template and its server.
MachineInv ==
  /\ machineTemplate \in Objects(MachineSpecType)
  /\ machine \in Objects(MachineSpecType)
  /\ cloned \in BOOLEAN /\ instanceID \in BOOLEAN
  /\ server \in Objects([vm : Values, volume : VolumeType])
  /\ SettledMachine(machineTemplate, FALSE) /\ SettledMachine(machine, TRUE)
  /\ server.exists => machine.exists
  /\ cloned => machine.exists /\ machineTemplate.exists
  /\ MachineDescribed /\ MachineFollowsTemplate

IndInv ==
  /\ family \in {"cluster", "clusterTemplate", "machine"}
  /\ ClusterInv /\ MachineInv

-----------------------------------------------------------------------------
(* The defaulters *)

\* defaultRootVolume and rootVolumeConfigured keep the type of a root volume,
\* and a defaulted volume is left alone.
LEMMA VolumeDefault ==
  ASSUME NEW v \in VolumeType
  PROVE  /\ defaultRootVolume(v) \in VolumeType
         /\ defaultRootVolume(v).dot # Unset
         /\ defaultRootVolume(defaultRootVolume(v)) = defaultRootVolume(v)
         /\ rootVolumeConfigured(defaultRootVolume(v))
BY DEF VolumeType, defaultRootVolume, rootVolumeConfigured, Unset

\* The webhook's Default on a StackitCluster is idempotent, and moves nothing
\* but the bastion's root volume.
THEOREM ClusterDefaultIdempotent ==
  ASSUME NEW s \in ClusterSpecType
  PROVE  /\ defaultClusterSpec(s) \in ClusterSpecType
         /\ defaultClusterSpec(defaultClusterSpec(s)) = defaultClusterSpec(s)
         /\ \A part \in {"identity", "wellFormed", "lb", "endpoint"} :
              defaultClusterSpec(s)[part] = s[part]
<1> DEFINE v == s.bastion.volume
           d == [s EXCEPT !.bastion.volume = defaultRootVolume(@)]
<1>1. s.bastion \in BastionType /\ v \in VolumeType
  BY DEF ClusterSpecType, BastionType
<1>2. defaultRootVolume(v) \in VolumeType
  BY <1>1, VolumeDefault
<1>3. d = [s EXCEPT !.bastion = [s.bastion EXCEPT !.volume = defaultRootVolume(v)]]
  BY <1>1 DEF ClusterSpecType, BastionType
<1>4. [s.bastion EXCEPT !.volume = defaultRootVolume(v)] \in BastionType
  BY <1>1, <1>2 DEF BastionType
<1>5. /\ d \in ClusterSpecType
      /\ \A part \in {"identity", "wellFormed", "lb", "endpoint"} : d[part] = s[part]
      /\ d.bastion.volume = defaultRootVolume(v)
      /\ d.bastion.enabled = s.bastion.enabled
  BY <1>1, <1>3, <1>4 DEF ClusterSpecType, BastionType
<1>6. d.bastion \in BastionType /\ defaultRootVolume(d.bastion.volume) = d.bastion.volume
  BY <1>1, <1>5, VolumeDefault DEF ClusterSpecType
<1>7. [d EXCEPT !.bastion.volume = defaultRootVolume(@)] = d
  BY <1>5, <1>6, Zenon DEF ClusterSpecType, BastionType
<1>8. CASE s.bastion.enabled \/ rootVolumeConfigured(v)
  BY <1>5, <1>7, <1>8, Zenon DEF defaultClusterSpec
<1>9. CASE ~(s.bastion.enabled \/ rootVolumeConfigured(v))
  BY <1>9 DEF defaultClusterSpec
<1> QED BY <1>8, <1>9

\* The webhook's Default on a StackitMachine is idempotent, and moves nothing
\* but the root volume.
THEOREM MachineDefaultIdempotent ==
  ASSUME NEW s \in MachineSpecType
  PROVE  /\ defaultMachineSpec(s) \in MachineSpecType
         /\ defaultMachineSpec(defaultMachineSpec(s)) = defaultMachineSpec(s)
         /\ defaultMachineSpec(s).providerID = s.providerID
         /\ defaultMachineSpec(s).labels = s.labels
         /\ defaultMachineSpec(s).vm = s.vm
<1>1. s.volume \in VolumeType
  BY DEF MachineSpecType
<1> QED BY <1>1, VolumeDefault DEF defaultMachineSpec, MachineSpecType

-----------------------------------------------------------------------------
(* Stored objects and requests *)

\* An object that exists has a spec of its kind.
LEMMA ObjectShape ==
  ASSUME NEW S, NEW o \in Objects(S), o.exists
  PROVE  o.spec \in S
<1>1. None.exists = FALSE
  BY DEF None
<1>2. o \in [exists : {TRUE}, spec : S]
  BY <1>1, Zenon DEF Objects
<1> QED BY <1>2

LEMMA StoredShape ==
  ASSUME NEW S, NEW s \in S
  PROVE  /\ Stored(s) \in Objects(S)
         /\ Stored(s).exists
         /\ Stored(s).spec = s
BY DEF Objects, Stored

LEMMA NoneShape ==
  ASSUME NEW S
  PROVE  None \in Objects(S) /\ ~None.exists
BY DEF Objects, None

\* The requests of users are specs.
LEMMA BastionRequests == Bastions \subseteq BastionType /\ NoBastion \in BastionType
<1>1. Bastions \subseteq BastionType
  BY AdmissionAssumption DEF Bastions, BastionType
<1>2. NoBastion \in BastionType
  BY DEF NoBastion, NoVolume, BastionType, VolumeType, Unset
<1> QED BY <1>1, <1>2

LEMMA ClusterRequests ==
  /\ ClusterSpecs \subseteq ClusterSpecType
  /\ \A s \in ClusterSpecType :
       /\ ClusterEdits(s) \subseteq ClusterSpecType
       /\ WithEndpoint(s) \in ClusterSpecType
<1>1. ClusterSpecs \subseteq ClusterSpecType
  BY BastionRequests DEF ClusterSpecs, ClusterSpecType
<1>2. ASSUME NEW s \in ClusterSpecType
      PROVE  ClusterEdits(s) \subseteq ClusterSpecType
  <2>1. \A i \in Identities : [s EXCEPT !.identity = i] \in ClusterSpecType
    BY DEF ClusterSpecType
  <2>2. \A w \in BOOLEAN : [s EXCEPT !.wellFormed = w] \in ClusterSpecType
    BY DEF ClusterSpecType
  <2>3. \A p \in BOOLEAN \X {Unset, "user", s.endpoint} :
          [s EXCEPT !.lb = p[1], !.endpoint = p[2]] \in ClusterSpecType
    BY Zenon DEF ClusterSpecType
  <2>4. \A b \in Bastions : [s EXCEPT !.bastion = b] \in ClusterSpecType
    BY BastionRequests DEF ClusterSpecType
  <2>5. {[s EXCEPT !.identity = i] : i \in Identities} \subseteq ClusterSpecType
    BY <2>1
  <2>6. {[s EXCEPT !.wellFormed = w] : w \in BOOLEAN} \subseteq ClusterSpecType
    BY <2>2
  <2>7. {[s EXCEPT !.lb = p[1], !.endpoint = p[2]] :
           p \in BOOLEAN \X {Unset, "user", s.endpoint}}
          \subseteq ClusterSpecType
    BY <2>3, Zenon
  <2>8. {[s EXCEPT !.bastion = b] : b \in Bastions} \subseteq ClusterSpecType
    BY <2>4
  <2> QED BY <2>5, <2>6, <2>7, <2>8, Zenon DEF ClusterEdits
<1>3. ASSUME NEW s \in ClusterSpecType
      PROVE  WithEndpoint(s) \in ClusterSpecType
  BY DEF WithEndpoint, ClusterSpecType
<1> QED BY <1>1, <1>2, <1>3

LEMMA MachineRequests ==
  /\ MachineSpecs \subseteq MachineSpecType
  /\ \A s \in MachineSpecType :
       /\ MachineEdits(s) \subseteq MachineSpecType
       /\ WithProviderID(s) \in MachineSpecType
<1>1. MachineSpecs \subseteq MachineSpecType
  BY AdmissionAssumption DEF MachineSpecs, MachineSpecType, ProviderIDs
<1>2. ASSUME NEW s \in MachineSpecType
      PROVE  MachineEdits(s) \subseteq MachineSpecType
  <2>1. Volumes \cup {s.volume} \subseteq VolumeType
    BY AdmissionAssumption DEF MachineSpecType
  <2> QED BY <2>1 DEF MachineEdits, MachineSpecType, ProviderIDs
<1>3. ASSUME NEW s \in MachineSpecType
      PROVE  WithProviderID(s) \in MachineSpecType
  BY DEF WithProviderID, MachineSpecType
<1> QED BY <1>1, <1>2, <1>3

\* What Default and Validate let through is stored settled.
LEMMA AdmittedCluster ==
  ASSUME NEW r \in ClusterSpecType,
         validateStackitClusterSpec(defaultClusterSpec(r))
  PROVE  LET o == Stored(defaultClusterSpec(r)) IN
         /\ o \in Objects(ClusterSpecType)
         /\ o.exists /\ o.spec = defaultClusterSpec(r)
         /\ SettledCluster(o)
BY ClusterDefaultIdempotent, StoredShape DEF SettledCluster

LEMMA AdmittedMachine ==
  ASSUME NEW r \in MachineSpecType, NEW allow \in BOOLEAN,
         validateStackitMachineSpec(defaultMachineSpec(r), allow)
  PROVE  LET o == Stored(defaultMachineSpec(r)) IN
         /\ o \in Objects(MachineSpecType)
         /\ o.exists /\ o.spec = defaultMachineSpec(r)
         /\ SettledMachine(o, allow)
BY MachineDefaultIdempotent, StoredShape DEF SettledMachine

\* An admitted update of a settled machine moves none of its creation fields.
LEMMA MachineUpdate ==
  ASSUME NEW old \in MachineSpecType, NEW r \in MachineSpecType,
         NEW recorded \in BOOLEAN,
         defaultMachineSpec(old) = old,
         validateStackitMachineSpecUpdate(old, recorded, defaultMachineSpec(r))
  PROVE  VMFields(defaultMachineSpec(r)) = VMFields(old)
BY MachineDefaultIdempotent DEF validateStackitMachineSpecUpdate

-----------------------------------------------------------------------------
(* The inductive invariant *)

LEMMA InitInv == Init => IndInv
<1> SUFFICES ASSUME Init PROVE IndInv
  OBVIOUS
<1>1. frozen \in BastionType
  BY BastionRequests DEF Init
<1>2. ClusterInv
  BY <1>1, NoneShape, Zenon DEF Init, ClusterInv, SettledCluster
<1>3. MachineInv
  BY NoneShape, Zenon DEF Init, MachineInv, SettledMachine, MachineDescribed,
                   MachineFollowsTemplate
<1> QED BY <1>2, <1>3, AdmissionAssumption DEF Init, IndInv

\* Steps about clusters.
LEMMA ClusterSteps ==
  ASSUME IndInv,
         \/ CreateClusterTemplate \/ UpdateClusterTemplate \/ CreateCluster
         \/ UpdateCluster \/ EnsureAPIServerLoadBalancer \/ PublishEndpoint
         \/ RecordLoadBalancer \/ EnsureBastion \/ SetBastionStatus
         \/ DeleteBastion \/ ClearBastionStatus
  PROVE  IndInv'
<1> USE DEF IndInv
<1>1. MachineInv' /\ family' \in {"cluster", "clusterTemplate", "machine"}
  <2>1. UNCHANGED <<family, machineVars>>
    BY DEF CreateClusterTemplate, UpdateClusterTemplate, CreateCluster,
           UpdateCluster, EnsureAPIServerLoadBalancer, PublishEndpoint,
           RecordLoadBalancer, EnsureBastion, SetBastionStatus, DeleteBastion,
           ClearBastionStatus
  <2> QED BY <2>1, Zenon DEF machineVars, MachineInv, SettledMachine,
                      MachineDescribed, MachineFollowsTemplate
<1>2. /\ cluster.exists => cluster.spec \in ClusterSpecType
      /\ clusterTemplate.exists => clusterTemplate.spec \in ClusterSpecType
  BY ObjectShape DEF ClusterInv
<1>3. ASSUME NEW r \in ClusterSpecType,
             validateStackitClusterSpec(defaultClusterSpec(r)),
             clusterTemplate' = Stored(defaultClusterSpec(r)),
             UNCHANGED <<cluster, clusterStatus, loadBalancer, bastion, frozen>>
      PROVE  ClusterInv'
  BY <1>3, AdmittedCluster DEF ClusterInv, SettledCluster
<1>4. ASSUME NEW r \in ClusterSpecType,
             validateStackitClusterSpec(defaultClusterSpec(r)),
             cluster' = Stored(defaultClusterSpec(r)),
             UNCHANGED <<clusterTemplate, clusterStatus, loadBalancer, bastion,
                         frozen>>
      PROVE  ClusterInv'
  BY <1>4, AdmittedCluster DEF ClusterInv, SettledCluster
<1>5. CASE CreateClusterTemplate
  BY <1>1, <1>3, <1>5, ClusterRequests DEF CreateClusterTemplate, AdmitsCluster
<1>6. CASE UpdateClusterTemplate
  BY <1>1, <1>2, <1>3, <1>6, ClusterRequests
     DEF UpdateClusterTemplate, AdmitsClusterTemplateUpdate
<1>7. CASE CreateCluster
  BY <1>1, <1>4, <1>7, ClusterRequests DEF CreateCluster, AdmitsCluster
<1>8. CASE UpdateCluster
  BY <1>1, <1>2, <1>4, <1>8, ClusterRequests DEF UpdateCluster, AdmitsClusterUpdate
<1>9. CASE EnsureAPIServerLoadBalancer
  BY <1>1, <1>9, Zenon DEF EnsureAPIServerLoadBalancer, ClusterInv, SettledCluster
<1>10. CASE PublishEndpoint
  <2>1. WithEndpoint(cluster.spec) \in ClusterSpecType
    BY <1>2, <1>10, ClusterRequests DEF PublishEndpoint
  <2> QED BY <1>1, <1>4, <1>10, <2>1 DEF PublishEndpoint, AdmitsClusterUpdate
<1>11. CASE RecordLoadBalancer
  BY <1>1, <1>11, Zenon DEF RecordLoadBalancer, ClusterInv, SettledCluster
<1>12. CASE EnsureBastion
  BY <1>1, <1>12 DEF EnsureBastion, ClusterInv, SettledCluster
<1>13. CASE SetBastionStatus
  <2>1. cluster.exists /\ cluster.spec.bastion \in BastionType
    BY <1>2, <1>13 DEF SetBastionStatus, ClusterInv, ClusterSpecType
  <2> QED BY <1>1, <1>13, <2>1, Zenon DEF SetBastionStatus, ClusterInv,
                                   SettledCluster
<1>14. CASE DeleteBastion
  BY <1>1, <1>14, Zenon DEF DeleteBastion, ClusterInv, SettledCluster
<1>15. CASE ClearBastionStatus
  BY <1>1, <1>15, BastionRequests, Zenon
     DEF ClearBastionStatus, ClusterInv, SettledCluster
<1> QED BY <1>5, <1>6, <1>7, <1>8, <1>9, <1>10, <1>11, <1>12, <1>13, <1>14, <1>15

\* Steps about machines.
LEMMA MachineSteps ==
  ASSUME IndInv,
         \/ CreateMachineTemplate \/ UpdateMachineTemplate
         \/ DeleteMachineTemplate \/ CloneMachine \/ CreateMachine
         \/ UpdateMachine \/ EnsureServer \/ PublishProviderID
         \/ RecordInstance
  PROVE  IndInv'
<1> USE DEF IndInv
<1>1. ClusterInv' /\ family' \in {"cluster", "clusterTemplate", "machine"}
  <2>1. UNCHANGED <<family, clusterVars>>
    BY DEF CreateMachineTemplate, UpdateMachineTemplate, DeleteMachineTemplate,
           CloneMachine, CreateMachine, UpdateMachine, EnsureServer,
           PublishProviderID, RecordInstance
  <2> QED BY <2>1 DEF clusterVars, ClusterInv, SettledCluster
<1>2. /\ machine.exists => machine.spec \in MachineSpecType
      /\ machineTemplate.exists => machineTemplate.spec \in MachineSpecType
  BY ObjectShape DEF MachineInv
<1>3. ASSUME NEW r \in MachineSpecType,
             validateStackitMachineSpec(defaultMachineSpec(r), FALSE),
             cloned => VMFields(defaultMachineSpec(r)) = VMFields(machine.spec),
             machineTemplate' = Stored(defaultMachineSpec(r)),
             UNCHANGED <<machine, cloned, instanceID, server>>
      PROVE  MachineInv'
  <2>1. /\ machineTemplate' \in Objects(MachineSpecType)
        /\ machineTemplate'.exists
        /\ machineTemplate'.spec = defaultMachineSpec(r)
        /\ SettledMachine(machineTemplate', FALSE)
    BY <1>3, AdmittedMachine, Zenon
  <2>2. MachineFollowsTemplate'
    BY <1>3, <2>1 DEF MachineFollowsTemplate
  <2> QED BY <1>3, <2>1, <2>2, Zenon DEF MachineInv, SettledMachine, MachineDescribed
<1>4. ASSUME NEW r \in MachineSpecType,
             validateStackitMachineSpec(defaultMachineSpec(r), TRUE),
             machine.exists =>
               VMFields(defaultMachineSpec(r)) = VMFields(machine.spec),
             machine' = Stored(defaultMachineSpec(r)),
             UNCHANGED <<machineTemplate, cloned, instanceID, server>>
      PROVE  MachineInv'
  <2>1. /\ machine' \in Objects(MachineSpecType) /\ machine'.exists
        /\ machine'.spec = defaultMachineSpec(r)
        /\ SettledMachine(machine', TRUE)
    BY <1>4, AdmittedMachine, MachineDefaultIdempotent, Zenon
  <2>2. MachineDescribed' /\ MachineFollowsTemplate'
    BY <1>4, <2>1 DEF MachineInv, MachineDescribed, MachineFollowsTemplate
  <2> QED BY <1>4, <2>1, <2>2, Zenon DEF MachineInv, SettledMachine
<1>5. CASE CreateMachineTemplate
  <2>1. ~cloned
    BY <1>5 DEF CreateMachineTemplate, MachineInv
  <2> QED BY <1>1, <1>3, <1>5, <2>1, MachineRequests, Zenon
          DEF CreateMachineTemplate, AdmitsMachineTemplate
<1>6. CASE UpdateMachineTemplate
  <2>1. PICK r \in MachineEdits(machineTemplate.spec) :
          /\ AdmitsMachineTemplateUpdate(machineTemplate.spec, defaultMachineSpec(r))
          /\ machineTemplate' = Stored(defaultMachineSpec(r))
    BY <1>6 DEF UpdateMachineTemplate
  <2>2. r \in MachineSpecType
    BY <1>2, <1>6, MachineRequests DEF UpdateMachineTemplate
  <2>3. defaultMachineSpec(r) = machineTemplate.spec
    BY <1>6, <2>1, <2>2, MachineDefaultIdempotent
       DEF UpdateMachineTemplate, AdmitsMachineTemplateUpdate, MachineInv,
           SettledMachine
  <2>4. cloned => VMFields(defaultMachineSpec(r)) = VMFields(machine.spec)
    BY <2>3 DEF MachineInv, MachineFollowsTemplate
  <2> QED BY <1>1, <1>3, <1>6, <2>1, <2>2, <2>4, Zenon
          DEF UpdateMachineTemplate, AdmitsMachineTemplateUpdate
<1>7. CASE DeleteMachineTemplate
  BY <1>1, <1>7, NoneShape, Zenon
     DEF DeleteMachineTemplate, MachineInv, SettledMachine, MachineDescribed,
         MachineFollowsTemplate
<1>8. CASE CloneMachine
  <2> DEFINE r == machineTemplate.spec
  <2>1. r \in MachineSpecType /\ defaultMachineSpec(r) = r
    BY <1>2, <1>8 DEF CloneMachine, MachineInv, SettledMachine
  <2>2. /\ machine' \in Objects(MachineSpecType) /\ machine'.exists
        /\ machine'.spec = r /\ SettledMachine(machine', TRUE)
    BY <1>8, <2>1, AdmittedMachine, Zenon DEF CloneMachine, AdmitsMachine
  <2>3. ~server.exists
    BY <1>8 DEF CloneMachine, MachineInv
  <2>4. MachineDescribed' /\ MachineFollowsTemplate'
    BY <1>8, <2>2, <2>3 DEF CloneMachine, MachineDescribed, MachineFollowsTemplate
  <2> QED BY <1>1, <1>8, <2>1, <2>2, <2>3, <2>4, Zenon
          DEF CloneMachine, MachineInv, SettledMachine
<1>9. CASE CreateMachine
  BY <1>1, <1>4, <1>9, MachineRequests, Zenon DEF CreateMachine, AdmitsMachine
<1>10. CASE UpdateMachine
  <2>1. PICK r \in MachineEdits(machine.spec) :
          /\ AdmitsMachineUpdate(machine.spec, instanceID, defaultMachineSpec(r))
          /\ machine' = Stored(defaultMachineSpec(r))
    BY <1>10 DEF UpdateMachine
  <2>2. /\ machine.exists /\ machine.spec \in MachineSpecType
        /\ defaultMachineSpec(machine.spec) = machine.spec
        /\ instanceID \in BOOLEAN
    BY <1>2, <1>10 DEF UpdateMachine, MachineInv, SettledMachine
  <2>3. r \in MachineSpecType
    BY <2>2, MachineRequests
  <2>4. VMFields(defaultMachineSpec(r)) = VMFields(machine.spec)
    BY <2>1, <2>2, <2>3, MachineUpdate DEF AdmitsMachineUpdate
  <2> QED BY <1>1, <1>4, <1>10, <2>1, <2>3, <2>4, Zenon
          DEF UpdateMachine, AdmitsMachineUpdate
<1>11. CASE EnsureServer
  <2>1. /\ machine.exists
        /\ VMFields(machine.spec) \in [vm : Values, volume : VolumeType]
    BY <1>2, <1>11 DEF EnsureServer, VMFields, MachineSpecType
  <2>2. /\ server' \in Objects([vm : Values, volume : VolumeType])
        /\ server'.exists /\ server'.spec = VMFields(machine.spec)
    BY <1>11, <2>1, StoredShape, Zenon DEF EnsureServer
  <2> QED BY <1>1, <1>11, <2>1, <2>2, Zenon
          DEF EnsureServer, MachineInv, SettledMachine, MachineDescribed,
              MachineFollowsTemplate
<1>12. CASE PublishProviderID
  <2> DEFINE r == WithProviderID(machine.spec)
  <2>1. /\ machine.exists /\ machine.spec \in MachineSpecType
        /\ defaultMachineSpec(machine.spec) = machine.spec
        /\ instanceID \in BOOLEAN
    BY <1>2, <1>12, Zenon DEF PublishProviderID, MachineInv, SettledMachine
  <2>2. r \in MachineSpecType
    BY <2>1, MachineRequests
  <2>3. VMFields(defaultMachineSpec(r)) = VMFields(machine.spec)
    BY <1>12, <2>1, <2>2, MachineUpdate DEF PublishProviderID, AdmitsMachineUpdate
  <2> QED BY <1>1, <1>4, <1>12, <2>2, <2>3, Zenon DEF PublishProviderID, AdmitsMachineUpdate
<1>13. CASE RecordInstance
  BY <1>1, <1>13, Zenon DEF RecordInstance, MachineInv, SettledMachine,
                     MachineDescribed, MachineFollowsTemplate
<1> QED BY <1>5, <1>6, <1>7, <1>8, <1>9, <1>10, <1>11, <1>12, <1>13

\* The inductive invariant holds in every state any sequence of requests and
\* controller writes leads to.
THEOREM Invariance == Spec => []IndInv
<1>1. IndInv /\ [Next]_vars => IndInv'
  <2> SUFFICES ASSUME IndInv, [Next]_vars PROVE IndInv'
    OBVIOUS
  <2>1. CASE UNCHANGED vars
    <3>1. ClusterInv'
      BY <2>1 DEF vars, clusterVars, IndInv, ClusterInv, SettledCluster
    <3>2. MachineInv'
      BY <2>1, Zenon DEF vars, machineVars, IndInv, MachineInv, SettledMachine,
                  MachineDescribed, MachineFollowsTemplate
    <3> QED BY <2>1, <3>1, <3>2 DEF vars, IndInv
  <2> QED BY <2>1, ClusterSteps, MachineSteps DEF Next
<1> QED BY <1>1, InitInv, PTL DEF Spec

-----------------------------------------------------------------------------
(* What follows *)

\* A settled StackitCluster admits the writes its reconciler makes.
LEMMA ClusterOwnWrites ==
  ASSUME ClusterInv, cluster.exists,
         NEW s \in {cluster.spec, WithEndpoint(cluster.spec)}
  PROVE  AdmitsClusterUpdate(cluster.spec, clusterStatus, defaultClusterSpec(s))
<1> DEFINE old == cluster.spec
<1>1. /\ old \in ClusterSpecType /\ defaultClusterSpec(old) = old
      /\ validateStackitClusterSpec(old)
  BY ObjectShape DEF ClusterInv, SettledCluster
<1>2. /\ s \in ClusterSpecType /\ s.bastion = old.bastion
      /\ s.identity = old.identity /\ s.lb = old.lb
      /\ s.wellFormed = old.wellFormed
      /\ s.endpoint = old.endpoint \/ s.endpoint # Unset
  BY <1>1, ClusterRequests DEF WithEndpoint, ClusterSpecType, Unset
<1>3. defaultClusterSpec(s) = s
  <2>1. CASE ~(old.bastion.enabled \/ rootVolumeConfigured(old.bastion.volume))
    BY <1>2, <2>1 DEF defaultClusterSpec
  <2>2. CASE old.bastion.enabled \/ rootVolumeConfigured(old.bastion.volume)
    <3>1. old = [old EXCEPT !.bastion.volume = defaultRootVolume(@)]
      BY <1>1, <2>2 DEF defaultClusterSpec
    <3>2. old.bastion.volume = defaultRootVolume(old.bastion.volume)
      BY <1>1, <3>1 DEF ClusterSpecType, BastionType
    <3>3. s.bastion.volume = defaultRootVolume(s.bastion.volume)
      BY <1>2, <3>2
    <3>4. [s EXCEPT !.bastion.volume = defaultRootVolume(@)] = s
      BY <1>2, <3>3 DEF ClusterSpecType, BastionType
    <3> QED BY <3>4 DEF defaultClusterSpec
  <2> QED BY <2>1, <2>2
<1>4. validateStackitClusterSpec(s)
  BY <1>1, <1>2 DEF validateStackitClusterSpec
<1>5. validateStackitClusterSpecUpdate(old, clusterStatus, s)
  BY <1>2 DEF validateStackitClusterSpecUpdate
<1> QED BY <1>3, <1>4, <1>5 DEF AdmitsClusterUpdate

\* A settled StackitMachine admits the writes its reconciler makes, the providerID
\* unless another one is stored.
LEMMA MachineOwnWrites ==
  ASSUME MachineInv, machine.exists,
         NEW s, \/ s = machine.spec
                \/ machine.spec.providerID # "other" /\ s = WithProviderID(machine.spec)
  PROVE  AdmitsMachineUpdate(machine.spec, instanceID, defaultMachineSpec(s))
<1> DEFINE old == machine.spec
<1>1. /\ old \in MachineSpecType /\ defaultMachineSpec(old) = old
      /\ validateStackitMachineSpec(old, TRUE)
  BY ObjectShape, Zenon DEF MachineInv, SettledMachine
<1>2. /\ s \in MachineSpecType /\ VMFields(s) = VMFields(old)
      /\ s.volume = old.volume /\ s.labels = old.labels
      /\ s.wellFormed = old.wellFormed
      /\ old.providerID # Unset => s.providerID = old.providerID
  BY <1>1, MachineRequests DEF WithProviderID, MachineSpecType, VMFields
<1>3. defaultMachineSpec(s) = s
  BY <1>1, <1>2 DEF defaultMachineSpec, MachineSpecType
<1>4. validateStackitMachineSpec(s, TRUE)
  BY <1>1, <1>2 DEF validateStackitMachineSpec
<1>5. validateStackitMachineSpecUpdate(old, instanceID, s)
  BY <1>1, <1>2, <1>3 DEF validateStackitMachineSpecUpdate
<1> QED BY <1>3, <1>4, <1>5, Zenon DEF AdmitsMachineUpdate

\* Types are kept by every admitted request and controller write.
THEOREM TypeCorrect == Spec => []TypeOK
<1>1. IndInv => TypeOK
  BY DEF IndInv, ClusterInv, MachineInv, TypeOK
<1> QED BY <1>1, Invariance, PTL

\* The webhooks never lock the reconcilers out: no sequence of requests they
\* admit makes them refuse the finalizer, the endpoint or, as long as no user has
\* stored the providerID of another server, the providerID.
THEOREM OwnWritesAlwaysAdmitted == Spec => []OwnWritesAdmitted
<1>1. IndInv => OwnWritesAdmitted
  BY ClusterOwnWrites, MachineOwnWrites DEF IndInv, OwnWritesAdmitted
<1> QED BY <1>1, Invariance, PTL

\* Every template that is stored can be cloned.
THEOREM ClonesAlwaysAdmitted == Spec => []ClonesAdmitted
<1>1. IndInv => ClonesAdmitted
  BY DEF IndInv, ClusterInv, MachineInv, SettledCluster, SettledMachine,
         ClonesAdmitted, AdmitsCluster, AdmitsMachine,
         validateStackitMachineSpec
<1> QED BY <1>1, Invariance, PTL

\* The spec of a machine always describes its server.
THEOREM MachineAlwaysDescribed == Spec => []MachineDescribed
<1>1. IndInv => MachineDescribed
  BY DEF IndInv, MachineInv
<1> QED BY <1>1, Invariance, PTL

\* The spec of a cloned machine always agrees with the template it was cloned
\* from: neither of the two webhooks admits a change the other would have to
\* follow.
THEOREM TemplateAlwaysFollowed == Spec => []MachineFollowsTemplate
<1>1. IndInv => MachineFollowsTemplate
  BY DEF IndInv, MachineInv
<1> QED BY <1>1, Invariance, PTL
=============================================================================
