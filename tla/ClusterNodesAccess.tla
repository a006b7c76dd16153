-------------------------- MODULE ClusterNodesAccess --------------------------
(***************************************************************************)
(* Proofs about ClusterNodes: at rest every node of a cluster with a       *)
(* bastion is reachable from it, for any number of Machines, addresses,    *)
(* bastions, faults and edits.                                             *)
(***************************************************************************)
EXTENDS ClusterNodesProofs

-----------------------------------------------------------------------------
(* Nodes are reachable from the bastion.                                   *)

\* The informer's copy of the cluster is current or about to be, and a machine
\* reconcile works from that copy or is repeated.
ViewInv ==
  /\ clusterNews \/ clusterSeen = View(cluster)
  /\ mw.pc # "idle" /\ machine[mw.m].phase = "active" =>
       /\ machineSeen[mw.m].phase = "active"
       /\ mw.obj = clusterSeen \/ mw.m \in machineQueue

\* The life of a Machine and of its StackitMachine.
PhaseInv ==
  /\ \A m \in Machines :
       /\ machine[m].phase = "absent" => machineSeen[m].phase = "absent"
       /\ machine[m].phase = "active" =>
            infra[m].phase = "active" /\ machineSeen[m].phase \in {"absent", "active"}
  /\ mw.pc # "idle" => machine[mw.m].phase # "absent"
  /\ mw.pc = "destroy" => machine[mw.m].phase # "active"

\* Only machines whose zones are published have a server.
ZoneInv ==
  \A m \in Machines : server[m].state # "none" =>
    {mode.availabilityZone[m], mode.failureDomain[m]} \subseteq Published \cup {NoZone}

\* A cluster reconcile holds the bastion's record as it is until it changes it, and
\* knows of a switch that moved meanwhile that a reconcile follows.
CopyInv ==
  /\ cw.pc \notin {"idle", "patch"} =>
       cw.obj.group = cluster.group /\ cw.obj.hash = cluster.hash
  /\ cw.pc # "idle" /\ cw.obj.enabled # cluster.enabled => clusterNews \/ clusterQueue
  /\ cw.pc = "ensureBastion" =>
       cw.obj.enabled /\ (cw.data = content \/ clusterQueue)

\* The bastion is recorded with the current document.
Recorded(obj) == obj.group # NoGroup /\ obj.hash = content

\* A cluster with a bastion that is ready has it recorded, unless a reconcile is
\* running or going to.
RecordInv ==
  \/ clusterQueue \/ clusterNews
  \/ cw.pc \notin {"idle", "patch"}
  \/ cw.pc = "idle" /\ (cluster.enabled /\ cluster.ready => Recorded(cluster))
  \/ cw.pc = "patch" /\ (cw.again \/ ~cw.obj.enabled \/ ~cw.obj.ready \/ Recorded(cw.obj))

\* With at most one edit a bastion is torn down for good: because it was switched
\* off or because its document changed, and neither is taken back.
OneEditInv ==
  edits <= 1 =>
    /\ edits = 0 => content = 1
    /\ content = 1 =>
         /\ cluster.group # NoGroup => cluster.hash = 1
         /\ cw.pc # "idle" /\ cw.obj.group # NoGroup => cw.obj.hash = 1
         /\ cw.pc = "ensureBastion" => cw.data = 1
    /\ edits = 0 /\ ~cluster.enabled =>
         cluster.group = NoGroup /\ (cw.pc # "idle" => ~cw.obj.enabled)
    /\ cw.pc # "idle" /\ ~cw.obj.enabled /\ (edits = 0 \/ cluster.enabled) =>
         cluster.group = NoGroup /\ cw.obj.group = NoGroup
    /\ cw.pc \in {"revoke", "deleteGroup", "deleteBastion"} /\ cw.obj.enabled =>
         cw.obj.group # NoGroup /\ cw.obj.hash # content
    /\ cluster.enabled =>
         /\ Recorded(cluster) => bastion = cluster.group
         /\ cw.pc # "idle" /\ Recorded(cw.obj) => bastion = cw.obj.group

\* Without faults the bastion recorded is the one there is.
NoFaultInv ==
  faults = 0 => bastion = IF cw.pc = "patch" THEN cw.obj.group ELSE cluster.group

\* The access of a node was revoked by a reconcile that makes the cluster not
\* ready or without a bastion when it is patched.
Revoked ==
  \/ cw.pc \in {"deleteGroup", "deleteBastion"}
  \/ cw.pc = "patch" /\ (~cw.obj.ready \/ cw.obj.group = NoGroup)

\* The node is reachable from the bastion that is recorded.
Reached(m) == m \in nodeGroup.attached /\ cluster.group \in nodeGroup.rules

\* The machine reconcile that is running is going to make it so.
Reaching(m) ==
  /\ mw.pc # "idle" /\ mw.m = m
  /\ \/ mw.pc \in {"server", "group", "rule"}
     \/ mw.pc = "attach" /\ nodeGroup.exists /\ cluster.group \in nodeGroup.rules
     \/ mw.pc = "patch" /\ mw.again

\* Every node has access, or its machine is reconciled.
Attended(m) ==
  \/ server[m].state = "none"
  \/ clusterNews \/ m \in machineQueue \/ machineSeen[m].phase = "absent"
  \/ Reached(m) \/ Reaching(m)

AllReached == \A m \in Machines : machine[m].phase = "active" => Attended(m)

\* There is a bastion to reach the nodes from.
Open == cluster.enabled /\ cluster.ready /\ cluster.group # NoGroup

AccessInv ==
  /\ edits <= 1 /\ Open /\ cluster.hash = content => AllReached
  /\ faults = 0 /\ Open /\ ~Revoked => AllReached

-----------------------------------------------------------------------------
(* Nodes are reachable from the bastion: what the steps leave alone.       *)

\* The cluster reconciler writes its object only, and a change of it is news.
LEMMA ClusterStepFrame ==
  ASSUME TypeInv, ClusterStep
  PROVE  /\ UNCHANGED <<clusterSeen, content, machine, machineSeen, infra, server,
                        machineQueue, mw, mode, edits>>
         /\ clusterNews => clusterNews'
         /\ clusterNews' \/ cluster' = cluster
<1> DEFINE Frame == UNCHANGED <<clusterSeen, content, machine, machineSeen, infra, server,
                               machineQueue, mw, mode, edits>>
<1>0. clusterNews \in BOOLEAN
  BY DEF TypeInv, TypeOK
<1>1. CASE ClusterPatch
  <2>1. Frame
    BY <1>1, Zenon DEF ClusterPatch, cloudVars
  <2>2. clusterNews' = (clusterNews \/ cluster' # cluster)
        \/ (clusterNews' = clusterNews /\ cluster' = cluster)
    BY <1>1, Zenon DEF ClusterPatch
  <2> HIDE DEF Frame
  <2>3. clusterNews => clusterNews'
    BY <1>0, <2>2, Zenon
  <2>4. clusterNews' \/ cluster' = cluster
    BY <1>0, <2>2, Zenon
  <2> QED BY <2>1, <2>3, <2>4, Zenon DEF Frame
<1>2. CASE ClusterStart \/ ReconcileBastion
  <2>1. Frame /\ UNCHANGED <<cluster, clusterNews>>
    BY <1>2, Zenon DEF ClusterStart, ReconcileBastion, objectVars, cloudVars
  <2> QED BY <2>1
<1>3. CASE \/ EnsureAPIServerLoadBalancer \/ SetAPIServerLoadBalancerTargets
           \/ RevokeNodeSSHAccess \/ DeleteNodeSSHAccess \/ DeleteBastion \/ EnsureBastion
  <2>1. Frame /\ UNCHANGED <<cluster, clusterNews>>
    BY <1>3, Zenon DEF EnsureAPIServerLoadBalancer, SetAPIServerLoadBalancerTargets,
       RevokeNodeSSHAccess, DeleteNodeSSHAccess, DeleteBastion, EnsureBastion, objectVars
  <2> QED BY <2>1
<1> QED BY <1>1, <1>2, <1>3, Zenon DEF ClusterStep

\* The machine reconciler never writes the cluster.
LEMMA MachineStepFrame ==
  ASSUME MachineStep
  PROVE  UNCHANGED <<cluster, clusterSeen, clusterNews, content, machine, machineSeen, lb,
                     bastion, clusterQueue, cw, mode, edits>>
<1>1. ASSUME NEW m \in Machines, MachineStart(m)
      PROVE  UNCHANGED <<cluster, clusterSeen, clusterNews, content, machine, machineSeen, lb,
                         bastion, clusterQueue, cw, mode, edits>>
  BY <1>1, Zenon DEF MachineStart, objectVars, cloudVars
<1>2. CASE EnsureServer
  BY <1>2, Zenon DEF EnsureServer, objectVars
<1>3. CASE ensureNodeSSHSecurityGroup \/ ensureNodeSSHSecurityGroupRule
             \/ addSecurityGroupToServer
  BY <1>3, Zenon DEF ensureNodeSSHSecurityGroup, ensureNodeSSHSecurityGroupRule,
              addSecurityGroupToServer, NodeAccessStep, objectVars
<1>4. CASE DestroyServer \/ MachinePatch
  BY <1>4, Zenon DEF DestroyServer, MachinePatch, cloudVars
<1> QED BY <1>1, <1>2, <1>3, <1>4, Zenon DEF MachineStep

\* A machine reconcile goes on.
LEMMA MachineStepOn ==
  ASSUME TypeInv,
         \/ EnsureServer \/ ensureNodeSSHSecurityGroup \/ ensureNodeSSHSecurityGroupRule
         \/ addSecurityGroupToServer
  PROVE  /\ mw.pc \notin {"idle", "destroy"} /\ mw'.pc \notin {"idle", "destroy"}
         /\ mw.m \in Machines /\ mw'.m = mw.m /\ mw'.obj = mw.obj
         /\ UNCHANGED <<infra, machineQueue>>
<1>1. CASE EnsureServer
  BY <1>1, EnsureServerEffect DEF objectVars
<1>2. CASE ensureNodeSSHSecurityGroup
  <2>1. /\ mw.pc = "group" /\ (mw'.pc = "patch" \/ mw'.pc = "rule")
        /\ mw.m \in Machines /\ mw'.m = mw.m /\ mw'.obj = mw.obj
        /\ UNCHANGED <<infra, machineQueue>>
    BY <1>2, NodeAccessEffect, Zenon DEF ensureNodeSSHSecurityGroup, objectVars
  <2> QED BY <2>1
<1>3. CASE ensureNodeSSHSecurityGroupRule
  <2>1. /\ mw.pc = "rule" /\ (mw'.pc = "patch" \/ mw'.pc = "attach")
        /\ mw.m \in Machines /\ mw'.m = mw.m /\ mw'.obj = mw.obj
        /\ UNCHANGED <<infra, machineQueue>>
    BY <1>3, NodeAccessEffect, Zenon DEF ensureNodeSSHSecurityGroupRule, objectVars
  <2> QED BY <2>1
<1>4. CASE addSecurityGroupToServer
  <2>1. /\ mw.pc = "attach" /\ (mw'.pc = "patch" \/ mw'.pc = "patch")
        /\ mw.m \in Machines /\ mw'.m = mw.m /\ mw'.obj = mw.obj
        /\ UNCHANGED <<infra, machineQueue>>
    BY <1>4, NodeAccessEffect, Zenon DEF addSecurityGroupToServer, objectVars
  <2> QED BY <2>1
<1> QED BY <1>1, <1>2, <1>3, <1>4

\* A machine reconcile ends.
LEMMA MachineStepEnds ==
  ASSUME TypeInv, DestroyServer \/ MachinePatch
  PROVE  /\ mw.pc \in {"destroy", "patch"} /\ mw'.pc = "idle" /\ mw.m \in Machines
         /\ machineQueue \subseteq machineQueue'
         /\ \A n \in Machines : \/ infra'[n].phase = infra[n].phase
                                \/ n = mw.m /\ mw.pc = "destroy"
<1>1. CASE DestroyServer
  <2>1. /\ mw.pc = "destroy" /\ mw' = IdleMachine /\ machineQueue \subseteq machineQueue'
        /\ infra' \in {infra, [infra EXCEPT ![mw.m].phase = "gone"]}
    BY <1>1 DEF DestroyServer
  <2>2. mw'.pc = "idle" /\ mw.m \in Machines
    BY <2>1 DEF IdleMachine, TypeInv
  <2>3. \A n \in Machines : n # mw.m => infra'[n] = infra[n]
    BY <2>1, <2>2 DEF TypeInv, TypeOK
  <2> QED BY <2>1, <2>2, <2>3
<1>2. CASE MachinePatch
  <2> DEFINE new == [mw.res EXCEPT !.phase = infra[mw.m].phase]
  <2>1. /\ mw.pc = "patch" /\ mw' = IdleMachine
        /\ infra' \in {infra, [infra EXCEPT ![mw.m] = new]}
    BY <1>2 DEF MachinePatch
  <2>2. machineQueue \subseteq machineQueue'
    BY <1>2 DEF MachinePatch
  <2>3. mw'.pc = "idle" /\ mw.m \in Machines /\ mw.res \in InfraType
    BY <2>1 DEF IdleMachine, TypeInv, TypeOK, MachineWorkerType
  <2>4. new.phase = infra[mw.m].phase
    BY <2>3 DEF InfraType
  <2> HIDE DEF new
  <2>5. \A n \in Machines : infra'[n] = infra[n] \/ (n = mw.m /\ infra'[n] = new)
    BY <2>1, <2>3 DEF TypeInv, TypeOK
  <2> QED BY <2>1, <2>2, <2>3, <2>4, <2>5
<1> QED BY <1>1, <1>2

\* What happens to a Machine from outside: only its phase moves, and only a lost
\* server leaves the group.
LEMMA WorldEffect ==
  ASSUME TypeInv, NEW m \in Machines,
         Progress(m) \/ CreateMachine(m) \/ DeleteMachine(m) \/ ServerLost(m)
  PROVE  /\ UNCHANGED <<cluster, clusterSeen, clusterNews, content, machineSeen, bastion,
                        clusterQueue, cw, mw, mode>>
         /\ machineQueue \subseteq machineQueue'
         /\ \A n \in Machines : n # m =>
              machine'[n].phase = machine[n].phase /\ infra'[n].phase = infra[n].phase
         /\ \/ machine'[m].phase = machine[m].phase /\ infra'[m].phase = infra[m].phase
            \/ /\ machine[m].phase = "absent" /\ machine'[m].phase = "active"
               /\ infra'[m].phase = "active" /\ m \in machineQueue'
            \/ machine[m].phase # "absent" /\ machine'[m].phase \in {"deleting", "gone"}
         /\ \A n \in Machines : server'[n].state # "none" => server[n].state # "none"
         /\ nodeGroup'.rules = nodeGroup.rules /\ nodeGroup'.exists = nodeGroup.exists
         /\ \A n \in nodeGroup.attached :
              n \in nodeGroup'.attached \/ server'[n].state = "none"
<1>1. /\ machine \in [Machines -> MachineType] /\ infra \in [Machines -> InfraType]
      /\ server \in [Machines -> ServerType] /\ nodeGroup \in NodeGroupType
  BY DEF TypeInv, TypeOK
<1>2. /\ UNCHANGED <<cluster, clusterSeen, clusterNews, content, machineSeen, bastion,
                     clusterQueue, cw, mw, mode>>
      /\ machineQueue \subseteq machineQueue'
  <2>1. CASE Progress(m)
    BY <2>1 DEF Progress, PublishAddresses, DeleteInfra, RemoveMachine,
       ServerActive, objectVars, cloudVars, workVars, budgetVars
  <2>2. CASE CreateMachine(m) \/ DeleteMachine(m) \/ ServerLost(m)
    BY <2>2 DEF CreateMachine, DeleteMachine, ServerLost,
       objectVars, cloudVars, workVars, budgetVars
  <2> QED BY <2>1, <2>2
<1>3. CASE ServerActive(m) \/ ServerLost(m)
  <2>1. UNCHANGED <<machine, infra>>
    BY <1>3 DEF ServerActive, ServerLost, objectVars
  <2>2. CASE ServerActive(m)
    <3>1. /\ server[m].state = "creating" /\ nodeGroup' = nodeGroup
          /\ server' = [server EXCEPT ![m].state = "active"]
      BY <2>2 DEF ServerActive
    <3>2. \A n \in Machines : n # m => server'[n] = server[n]
      BY <1>1, <3>1
    <3> QED BY <1>2, <2>1, <3>1, <3>2
  <2>3. CASE ServerLost(m)
    <3>1. /\ server' = [server EXCEPT ![m] = NoServer]
          /\ nodeGroup' = [nodeGroup EXCEPT !.attached = @ \ {m}]
      BY <2>3 DEF ServerLost
    <3>2. \A n \in Machines : server'[n] = IF n = m THEN NoServer ELSE server[n]
      BY <1>1, <3>1
    <3>3. /\ nodeGroup'.rules = nodeGroup.rules /\ nodeGroup'.exists = nodeGroup.exists
          /\ nodeGroup'.attached = nodeGroup.attached \ {m}
      BY <1>1, <3>1 DEF NodeGroupType
    <3> QED BY <1>2, <2>1, <3>2, <3>3 DEF NoServer
  <2> QED BY <1>3, <2>2, <2>3
<1>4. CASE \/ PublishAddresses(m) \/ DeleteInfra(m) \/ RemoveMachine(m)
           \/ CreateMachine(m) \/ DeleteMachine(m)
  <2>1. UNCHANGED <<server, nodeGroup>>
    BY <1>4, Zenon DEF PublishAddresses, DeleteInfra, RemoveMachine, CreateMachine,
       DeleteMachine, cloudVars
  <2> DEFINE Moved ==
        /\ \A n \in Machines : n # m => machine'[n] = machine[n] /\ infra'[n] = infra[n]
        /\ \/ machine'[m].phase = machine[m].phase /\ infra'[m].phase = infra[m].phase
           \/ /\ machine[m].phase = "absent" /\ machine'[m].phase = "active"
              /\ infra'[m].phase = "active" /\ m \in machineQueue'
           \/ machine[m].phase # "absent" /\ machine'[m].phase \in {"deleting", "gone"}
  <2>2. ASSUME PublishAddresses(m) PROVE Moved
    BY <1>1, <2>2 DEF PublishAddresses, MachineType
  <2>3. ASSUME DeleteInfra(m) PROVE Moved
    BY <1>1, <2>3 DEF DeleteInfra
  <2>4. ASSUME RemoveMachine(m) PROVE Moved
    BY <1>1, <2>4 DEF RemoveMachine, MachineType
  <2>5. ASSUME CreateMachine(m) PROVE Moved
    <3>1. /\ machine' = [machine EXCEPT ![m].phase = "active"]
          /\ infra' = [infra EXCEPT ![m].phase = "active"]
          /\ machine[m].phase = "absent" /\ m \in machineQueue'
      BY <2>5 DEF CreateMachine
    <3>2. machine'[m].phase = "active" /\ \A n \in Machines : n # m => machine'[n] = machine[n]
      BY <1>1, <3>1 DEF MachineType
    <3>3. infra'[m].phase = "active" /\ \A n \in Machines : n # m => infra'[n] = infra[n]
      BY <1>1, <3>1 DEF InfraType
    <3> QED BY <3>1, <3>2, <3>3
  <2>6. ASSUME DeleteMachine(m) PROVE Moved
    BY <1>1, <2>6 DEF DeleteMachine, MachineType
  <2>7. Moved
    BY <1>4, <2>2, <2>3, <2>4, <2>5, <2>6, Zenon
  <2> QED BY <1>2, <2>1, <2>7, Zenon
<1> QED BY <1>3, <1>4 DEF Progress

\* The shape of the cluster is fixed, and faults and edits are only counted up.
LEMMA BudgetKept ==
  ASSUME TypeInv, [Next]_vars
  PROVE  mode' = mode /\ (faults' = 0 => faults = 0) /\ (edits' \in {edits, edits + 1})
<1> DEFINE Counted == mode' = mode /\ (Fault \/ faults' = faults)
                      /\ (edits' = edits \/ edits' = edits + 1)
<1>1. CASE ClusterStart \/ EnsureAPIServerLoadBalancer \/ SetAPIServerLoadBalancerTargets
  <2>1. Counted
    BY <1>1, Zenon DEF ClusterStart, EnsureAPIServerLoadBalancer,
       SetAPIServerLoadBalancerTargets, NoFault
  <2> QED BY <2>1, FaultCounts
<1>2. CASE ReconcileBastion \/ RevokeNodeSSHAccess \/ DeleteNodeSSHAccess
  <2>1. Counted
    BY <1>2, Zenon DEF ReconcileBastion, RevokeNodeSSHAccess, DeleteNodeSSHAccess, NoFault,
       BastionCallFailed
  <2> QED BY <2>1, FaultCounts
<1>3. CASE DeleteBastion \/ EnsureBastion \/ ClusterPatch
  <2>1. Counted
    BY <1>3, Zenon DEF DeleteBastion, EnsureBastion, ClusterPatch, NoFault, BastionCallFailed
  <2> QED BY <2>1, FaultCounts
<1>4. CASE (\E m \in Machines : MachineStart(m)) \/ EnsureServer
  <2>1. Counted
    BY <1>4, Zenon DEF MachineStart, EnsureServer, NoFault
  <2> QED BY <2>1, FaultCounts
<1>5. CASE \/ ensureNodeSSHSecurityGroup \/ ensureNodeSSHSecurityGroupRule
           \/ addSecurityGroupToServer \/ DestroyServer \/ MachinePatch
  <2>1. Counted
    BY <1>5, Zenon DEF ensureNodeSSHSecurityGroup, ensureNodeSSHSecurityGroupRule,
       addSecurityGroupToServer, NodeAccessStep, DestroyServer, MachinePatch, NoFault
  <2> QED BY <2>1, FaultCounts
<1>6. CASE \/ SyncCluster \/ Restart \/ ToggleBastion \/ EditCloudInit \/ LoadBalancerReady
           \/ LoadBalancerLost \/ UNCHANGED vars
  <2>1. Counted
    BY <1>6, Zenon DEF SyncCluster, Restart, ToggleBastion, EditCloudInit, LoadBalancerReady,
       LoadBalancerLost, Edit, vars, budgetVars
  <2> QED BY <2>1, FaultCounts
<1>7. ASSUME NEW m \in Machines,
             \/ SyncMachine(m) \/ Progress(m)
             \/ CreateMachine(m) \/ DeleteMachine(m) \/ ServerLost(m)
      PROVE  mode' = mode /\ (faults' = 0 => faults = 0) /\ (edits' \in {edits, edits + 1})
  <2>1. Counted
    BY <1>7, Zenon DEF SyncMachine, Progress, PublishAddresses, DeleteInfra, RemoveMachine,
       ServerActive, CreateMachine, DeleteMachine, ServerLost, Edit, budgetVars
  <2> QED BY <2>1, FaultCounts
<1> QED BY <1>1, <1>2, <1>3, <1>4, <1>5, <1>6, <1>7, Zenon DEF Next, ClusterStep, MachineStep

-----------------------------------------------------------------------------
(* Nodes are reachable from the bastion: what the machine reconciler sees. *)

\* Every step keeps the views and the phases.
LEMMA NextViewed ==
  ASSUME TypeInv, ViewInv, PhaseInv, [Next]_vars PROVE ViewInv' /\ PhaseInv'
<1> USE DEF ViewInv, PhaseInv
<1>0. mw.pc # "idle" => mw.m \in Machines
  BY DEF TypeInv
<1>1. CASE ClusterStep
  <2>1. UNCHANGED <<clusterSeen, machine, machineSeen, infra, machineQueue, mw>>
    BY <1>1, ClusterStepFrame
  <2>2. clusterNews' \/ (cluster' = cluster /\ ~clusterNews)
    BY <1>1, ClusterStepFrame
  <2> QED BY <2>1, <2>2, Zenon
<1>2. CASE MachineStep
  <2>1. UNCHANGED <<cluster, clusterSeen, clusterNews, machine, machineSeen>>
    BY <1>2, MachineStepFrame
  <2>2. ASSUME NEW m \in Machines, MachineStart(m) PROVE ViewInv' /\ PhaseInv'
    <3>1. /\ mw.pc = "idle" /\ infra' = infra
          /\ \/ mw' = mw
             \/ /\ mw'.m = m /\ mw'.obj = clusterSeen
                /\ machineSeen[m].phase \in {"active", "deleting"}
                /\ mw'.pc = "destroy" => infra[m].phase = "deleting"
      BY <2>2, MachineStartEffect DEF objectVars
    <3> QED BY <2>1, <3>1, Zenon
  <2>3. CASE \/ EnsureServer \/ ensureNodeSSHSecurityGroup \/ ensureNodeSSHSecurityGroupRule
             \/ addSecurityGroupToServer
    <3>1. /\ mw.pc # "idle" /\ mw'.pc \notin {"idle", "destroy"}
          /\ mw'.m = mw.m /\ mw'.obj = mw.obj /\ UNCHANGED <<infra, machineQueue>>
      BY <2>3, MachineStepOn
    <3> QED BY <2>1, <3>1
  <2>4. CASE DestroyServer \/ MachinePatch
    <3>1. /\ mw'.pc = "idle"
          /\ \A n \in Machines : \/ infra'[n].phase = infra[n].phase
                                 \/ n = mw.m /\ mw.pc = "destroy"
      BY <2>4, MachineStepEnds
    <3> QED BY <2>1, <3>1
  <2> QED BY <1>2, <2>2, <2>3, <2>4, Zenon DEF MachineStep
<1>3. CASE SyncCluster
  <2>1. /\ clusterSeen' = View(cluster) /\ UNCHANGED <<cluster, machine, machineSeen, infra, mw>>
        /\ \A m \in Machines : machineSeen[m].phase = "active" => m \in machineQueue'
    BY <1>3 DEF SyncCluster, stackitMachineRequestsForStackitCluster
  <2> QED BY <1>0, <2>1 DEF View
<1>4. CASE Restart
  <2>1. /\ clusterSeen' = View(cluster) /\ UNCHANGED <<cluster, machine, infra>>
        /\ machineSeen' = machine /\ mw'.pc = "idle"
    BY <1>4 DEF Restart, IdleMachine
  <2> QED BY <2>1 DEF View
<1>5. CASE ToggleBastion
  BY <1>5 DEF ToggleBastion, workVars
<1>6. CASE EditCloudInit \/ LoadBalancerReady \/ LoadBalancerLost \/ UNCHANGED vars
  <2>1. UNCHANGED <<cluster, clusterSeen, clusterNews, machine, machineSeen, infra,
                    machineQueue, mw>>
    BY <1>6 DEF EditCloudInit, LoadBalancerReady, LoadBalancerLost, vars, objectVars, workVars
  <2> QED BY <2>1
<1>7. ASSUME NEW m \in Machines, SyncMachine(m) PROVE ViewInv' /\ PhaseInv'
  <2>1. /\ UNCHANGED <<cluster, clusterSeen, clusterNews, machine, infra, mw>>
        /\ machineQueue \subseteq machineQueue'
        /\ machineSeen' = [machineSeen EXCEPT ![m] = machine[m]]
    BY <1>7 DEF SyncMachine
  <2>2. \A n \in Machines : machineSeen'[n] \in {machineSeen[n], machine[n]}
    BY <2>1 DEF TypeInv, TypeOK
  <2> QED BY <1>0, <2>1, <2>2
<1>8. ASSUME NEW m \in Machines,
             Progress(m) \/ CreateMachine(m) \/ DeleteMachine(m) \/ ServerLost(m)
      PROVE  ViewInv' /\ PhaseInv'
  <2>1. /\ UNCHANGED <<cluster, clusterSeen, clusterNews, machineSeen, mw>>
        /\ machineQueue \subseteq machineQueue'
        /\ \A n \in Machines : n # m =>
             machine'[n].phase = machine[n].phase /\ infra'[n].phase = infra[n].phase
        /\ \/ machine'[m].phase = machine[m].phase /\ infra'[m].phase = infra[m].phase
           \/ /\ machine[m].phase = "absent" /\ machine'[m].phase = "active"
              /\ infra'[m].phase = "active"
           \/ machine[m].phase # "absent" /\ machine'[m].phase \in {"deleting", "gone"}
    BY <1>8, WorldEffect
  <2>2. PhaseInv'
    BY <1>0, <2>1
  <2>3. ViewInv'
    BY <1>0, <2>1, Zenon
  <2> QED BY <2>2, <2>3
<1> QED BY <1>1, <1>2, <1>3, <1>4, <1>5, <1>6, <1>7, <1>8, Zenon DEF Next

\* A server is created for an admitted machine only.
LEMMA NextZoned ==
  ASSUME TypeInv, PlacedInv, ZoneInv, [Next]_vars PROVE ZoneInv'
<1> DEFINE asked(m) == {mode.availabilityZone[m], mode.failureDomain[m]}
<1> DEFINE zones == Published \cup {NoZone}
<1>0. Published # {}
  BY DEF Published, failureDomainsFromZones, stackitFailureDomains
<1>1. mode' = mode
  BY BudgetKept
<1>2. ASSUME \A m \in Machines : server'[m].state # "none" =>
               server[m].state # "none" \/ asked(m) \subseteq zones
      PROVE  ZoneInv'
  BY <1>1, <1>2 DEF ZoneInv, Published
<1> HIDE DEF zones
<1>3. CASE EnsureServer
  <2>1. mw.pc = "server" /\ mw.m \in Machines /\ \E srv : server' = [server EXCEPT ![mw.m] = srv]
    BY <1>3, EnsureServerEffect, Zenon
  <2>2. \A m \in Machines : m # mw.m => server'[m] = server[m]
    BY <2>1 DEF TypeInv, TypeOK
  <2>3. asked(mw.m) \subseteq zones
    BY <1>0, <2>1 DEF PlacedInv, MachineAdmitted, validateMachineAvailabilityZone, zones
  <2> QED BY <1>2, <2>2, <2>3
<1>4. CASE DestroyServer
  <2>1. mw.pc = "destroy" /\ server' \in {server, [server EXCEPT ![mw.m] = NoServer]}
    BY <1>4 DEF DestroyServer
  <2>2. \A m \in Machines : server'[m] = server[m] \/ server'[m] = NoServer
    BY <2>1 DEF TypeInv, TypeOK
  <2> QED BY <1>2, <2>2 DEF NoServer
<1>5. ASSUME NEW m \in Machines,
             Progress(m) \/ CreateMachine(m) \/ DeleteMachine(m) \/ ServerLost(m)
      PROVE  ZoneInv'
  BY <1>2, <1>5, WorldEffect
<1>6. ASSUME server' = server PROVE ZoneInv'
  BY <1>2, <1>6
<1>7. CASE ClusterStep
  BY <1>6, <1>7, ClusterStepFrame
<1>8. CASE \/ \E m \in Machines : MachineStart(m)
           \/ ensureNodeSSHSecurityGroup \/ ensureNodeSSHSecurityGroupRule
           \/ addSecurityGroupToServer \/ MachinePatch
           \/ \E m \in Machines : SyncMachine(m)
  <2>1. server' = server
    BY <1>8, Zenon DEF MachineStart, ensureNodeSSHSecurityGroup, ensureNodeSSHSecurityGroupRule,
       addSecurityGroupToServer, NodeAccessStep, MachinePatch, SyncMachine, cloudVars
  <2> QED BY <1>6, <2>1
<1>9. CASE \/ SyncCluster \/ Restart \/ ToggleBastion \/ EditCloudInit \/ LoadBalancerReady
           \/ LoadBalancerLost \/ UNCHANGED vars
  <2>1. server' = server
    BY <1>9, Zenon DEF SyncCluster, Restart, ToggleBastion, EditCloudInit, LoadBalancerReady,
       LoadBalancerLost, vars, cloudVars
  <2> QED BY <1>6, <2>1
<1> QED BY <1>3, <1>4, <1>5, <1>7, <1>8, <1>9 DEF Next, MachineStep

-----------------------------------------------------------------------------
(* Nodes are reachable from the bastion: the record of the bastion.        *)

\* Everyone but the cluster reconciler, its user and its informer.
Bystander ==
  \/ MachineStep \/ LoadBalancerReady \/ LoadBalancerLost \/ UNCHANGED vars
  \/ \E m \in Machines :
       \/ SyncMachine(m) \/ Progress(m)
       \/ CreateMachine(m) \/ DeleteMachine(m) \/ ServerLost(m)

\* They leave the cluster and the bastion alone.
LEMMA BystanderFrame ==
  ASSUME TypeInv, Bystander
  PROVE  /\ UNCHANGED <<cluster, clusterNews, content, bastion, cw>>
         /\ clusterQueue => clusterQueue'
<1>1. CASE MachineStep
  BY <1>1, MachineStepFrame
<1>2. CASE LoadBalancerReady \/ LoadBalancerLost \/ UNCHANGED vars
  <2>1. UNCHANGED <<cluster, clusterNews, content, bastion, cw, clusterQueue>>
    BY <1>2, Zenon DEF LoadBalancerReady, LoadBalancerLost, vars, objectVars, cloudVars, workVars
  <2> QED BY <2>1
<1>3. ASSUME NEW m \in Machines, SyncMachine(m)
      PROVE  /\ UNCHANGED <<cluster, clusterNews, content, bastion, cw>>
             /\ clusterQueue => clusterQueue'
  BY <1>3 DEF SyncMachine, cloudVars
<1>4. ASSUME NEW m \in Machines,
             Progress(m) \/ CreateMachine(m) \/ DeleteMachine(m) \/ ServerLost(m)
      PROVE  /\ UNCHANGED <<cluster, clusterNews, content, bastion, cw>>
             /\ clusterQueue => clusterQueue'
  BY <1>4, WorldEffect
<1> QED BY <1>1, <1>2, <1>3, <1>4 DEF Bystander

\* There is nobody else.
LEMMA NextSplit ==
  ASSUME [Next]_vars
  PROVE  ClusterStep \/ Bystander \/ SyncCluster \/ Restart \/ ToggleBastion \/ EditCloudInit
BY Zenon DEF Next, Bystander

\* The steps of a cluster reconcile that read and write the bastion's record
\* nowhere: the copy's record and the bastion stay.
Passing == ClusterStart \/ EnsureAPIServerLoadBalancer \/ SetAPIServerLoadBalancerTargets
           \/ ReconcileBastion \/ RevokeNodeSSHAccess \/ DeleteNodeSSHAccess

\* They leave the record as it is, in the object and in the copy.
LEMMA PassingEffect ==
  ASSUME TypeInv, CopyInv, Passing
  PROVE  /\ UNCHANGED <<cluster, clusterNews, content, bastion, edits>>
         /\ cw'.pc # "idle" /\ cw.pc # "patch"
         /\ cw'.obj.group = cluster.group /\ cw'.obj.hash = cluster.hash
         /\ \/ cw.pc = "idle" /\ cw'.obj.enabled = cluster.enabled
            \/ /\ cw.pc # "idle" /\ cw'.obj.enabled = cw.obj.enabled
               /\ clusterQueue' = clusterQueue
               /\ cw.obj.group = cluster.group /\ cw.obj.hash = cluster.hash
<1> USE DEF SameRecord, CopyInv
<1>1. CASE ClusterStart
  BY <1>1, ClusterStartEffect, Zenon DEF objectVars, cloudVars
<1>2. CASE EnsureAPIServerLoadBalancer
  BY <1>2, EnsureLoadBalancerEffect DEF objectVars
<1>3. CASE SetAPIServerLoadBalancerTargets
  BY <1>3, SetTargetsEffect DEF objectVars
<1>4. CASE ReconcileBastion
  BY <1>4, ReconcileBastionEffect DEF objectVars, cloudVars
<1>5. CASE RevokeNodeSSHAccess
  BY <1>5, RevokeEffect DEF objectVars, Fails
<1>6. CASE DeleteNodeSSHAccess
  BY <1>6, DeleteGroupEffect DEF objectVars, Fails
<1> QED BY <1>1, <1>2, <1>3, <1>4, <1>5, <1>6, Zenon DEF Passing

\* Where they lead to.
LEMMA PassingTo ==
  ASSUME TypeInv, Passing
  PROVE  /\ cw'.pc = "patch" => cw'.again \/ ~cw'.obj.enabled \/ ~cw'.obj.ready
         /\ cw'.pc = "ensureBastion" => cw'.obj.enabled /\ cw'.data = content
         /\ cw'.pc \in {"revoke", "deleteGroup", "deleteBastion"} /\ cw'.obj.enabled =>
              \/ cw.pc \in {"revoke", "deleteGroup", "deleteBastion"}
              \/ cw.obj.group # NoGroup /\ cw.obj.hash # content
<1> USE DEF SameRecord
<1>1. CASE ClusterStart
  BY <1>1, ClusterStartEffect
<1>2. CASE EnsureAPIServerLoadBalancer
  BY <1>2, EnsureLoadBalancerEffect
<1>3. CASE SetAPIServerLoadBalancerTargets
  BY <1>3, SetTargetsEffect
<1>4. CASE ReconcileBastion
  BY <1>4, ReconcileBastionEffect
<1>5. CASE RevokeNodeSSHAccess
  BY <1>5, RevokeEffect DEF Fails
<1>6. CASE DeleteNodeSSHAccess
  BY <1>6, DeleteGroupEffect DEF Fails
<1> QED BY <1>1, <1>2, <1>3, <1>4, <1>5, <1>6 DEF Passing

\* The other steps write the record.
LEMMA ClusterStepSplit ==
  ASSUME ClusterStep PROVE Passing \/ DeleteBastion \/ EnsureBastion \/ ClusterPatch
BY Zenon DEF ClusterStep, Passing

\* Every step keeps the copy and the record.
LEMMA NextRecorded ==
  ASSUME TypeInv, CopyInv, RecordInv, [Next]_vars PROVE CopyInv' /\ RecordInv'
<1> USE DEF CopyInv, RecordInv, Recorded
<1>1. CASE Passing
  <2>1. /\ UNCHANGED <<cluster, clusterNews, content>>
        /\ cw'.pc # "idle"
        /\ cw'.obj.group = cluster.group /\ cw'.obj.hash = cluster.hash
        /\ \/ cw'.obj.enabled = cluster.enabled
           \/ /\ cw.pc # "idle" /\ cw'.obj.enabled = cw.obj.enabled
              /\ clusterQueue' = clusterQueue
    BY <1>1, PassingEffect
  <2>2. /\ cw'.pc = "patch" => cw'.again \/ ~cw'.obj.enabled \/ ~cw'.obj.ready
        /\ cw'.pc = "ensureBastion" => cw'.obj.enabled /\ cw'.data = content
    BY <1>1, PassingTo
  <2> QED BY <2>1, <2>2
<1>2. CASE DeleteBastion
  <2>1. /\ UNCHANGED <<cluster, clusterNews, content, clusterQueue>>
        /\ cw.pc # "idle" /\ cw'.pc = "patch" /\ cw'.obj.enabled = cw.obj.enabled
        /\ cw.obj.enabled => cw'.again \/ ~cw'.obj.ready
    BY <1>2, DeleteBastionEffect DEF objectVars, Fails
  <2> QED BY <2>1
<1>3. CASE EnsureBastion
  <2>1. /\ UNCHANGED <<cluster, clusterNews, content, clusterQueue>>
        /\ cw.pc = "ensureBastion" /\ cw'.pc = "patch" /\ cw'.obj.enabled = cw.obj.enabled
        /\ ~cw'.obj.ready \/ (cw'.obj.group # NoGroup /\ cw'.obj.hash = cw.data)
    BY <1>3, EnsureBastionEffect DEF objectVars, Fails
  <2> QED BY <2>1
<1>4. CASE ClusterPatch
  <2>1. /\ cw.pc = "patch" /\ cw'.pc = "idle" /\ content' = content
        /\ \/ /\ cluster'.enabled = cluster.enabled /\ cluster'.ready = cw.obj.ready
              /\ cluster'.group = cw.obj.group /\ cluster'.hash = cw.obj.hash
              /\ clusterQueue' = (clusterQueue \/ cw.again)
              /\ clusterNews => clusterNews'
           \/ clusterQueue'
    BY <1>4, ClusterPatchEffect, Zenon
  <2> QED BY <2>1, Zenon
<1>5. CASE Bystander
  <2>1. UNCHANGED <<cluster, clusterNews, content, cw>> /\ (clusterQueue => clusterQueue')
    BY <1>5, BystanderFrame
  <2> QED BY <2>1
<1>6. CASE SyncCluster
  <2>1. UNCHANGED <<cluster, content, cw>> /\ clusterQueue'
    BY <1>6 DEF SyncCluster
  <2> QED BY <2>1
<1>7. CASE Restart
  <2>1. UNCHANGED <<cluster, content>> /\ clusterQueue' /\ cw'.pc = "idle"
    BY <1>7 DEF Restart, IdleCluster
  <2> QED BY <2>1
<1>8. CASE ToggleBastion
  <2>1. /\ UNCHANGED <<content, cw, clusterQueue>> /\ clusterNews'
        /\ cluster'.group = cluster.group /\ cluster'.hash = cluster.hash
    BY <1>8 DEF ToggleBastion, workVars, TypeInv, TypeOK, ClusterType
  <2> QED BY <2>1
<1>9. CASE EditCloudInit
  <2>1. UNCHANGED <<cluster, cw>> /\ clusterQueue'
    BY <1>9 DEF EditCloudInit
  <2> QED BY <2>1
<1> QED BY <1>1, <1>2, <1>3, <1>4, <1>5, <1>6, <1>7, <1>8, <1>9, NextSplit, ClusterStepSplit, Zenon

\* With one edit at most the bastion that is recorded with the current document
\* is never deleted.
LEMMA NextOneEdit ==
  ASSUME TypeInv, CopyInv, OneEditInv, [Next]_vars PROVE OneEditInv'
<1> USE DEF Recorded
<1>1. edits \in Nat /\ edits' \in {edits, edits + 1}
  BY BudgetKept, NodesAssumption DEF TypeInv, TypeOK
<1> SUFFICES ASSUME edits' <= 1 PROVE OneEditInv'
  BY Zenon DEF OneEditInv
<1>2. edits <= 1 /\ (edits' = 0 => edits = 0)
  BY <1>1
<1>3. CASE Passing
  <2>1. /\ UNCHANGED <<cluster, content, bastion, edits>>
        /\ cw'.pc # "idle"
        /\ cw'.obj.group = cluster.group /\ cw'.obj.hash = cluster.hash
        /\ \/ cw.pc = "idle" /\ cw'.obj.enabled = cluster.enabled
           \/ /\ cw.pc # "idle" /\ cw'.obj.enabled = cw.obj.enabled
              /\ cw.obj.group = cluster.group /\ cw.obj.hash = cluster.hash
    BY <1>3, PassingEffect
  <2>2. /\ cw'.pc = "ensureBastion" => cw'.data = content
        /\ cw'.pc \in {"revoke", "deleteGroup", "deleteBastion"} /\ cw'.obj.enabled =>
             \/ cw.pc \in {"revoke", "deleteGroup", "deleteBastion"}
             \/ cw.obj.group # NoGroup /\ cw.obj.hash # content
    BY <1>3, PassingTo
  <2>3. cw'.pc \in {"revoke", "deleteGroup", "deleteBastion"} => cw.pc # "idle"
    <3>1. ClusterStart => cw'.pc \notin {"revoke", "deleteGroup", "deleteBastion"}
      BY ClusterStartEffect
    <3>2. cw.pc = "idle" => ClusterStart
      BY <1>3 DEF Passing, EnsureAPIServerLoadBalancer, SetAPIServerLoadBalancerTargets,
         ReconcileBastion, RevokeNodeSSHAccess, DeleteNodeSSHAccess
    <3> QED BY <3>1, <3>2
  <2> QED BY <1>2, <2>1, <2>2, <2>3, Zenon DEF OneEditInv
<1>4. CASE DeleteBastion
  <2>1. /\ UNCHANGED <<cluster, content, edits>>
        /\ cw.pc = "deleteBastion" /\ cw'.pc = "patch" /\ cw'.obj.enabled = cw.obj.enabled
        /\ cw'.obj.group \in {NoGroup, cw.obj.group}
        /\ cw'.obj.group = NoGroup \/ cw'.obj.hash = cw.obj.hash
    BY <1>4, DeleteBastionEffect, Zenon DEF objectVars, Fails, SameRecord
  <2>2. cw.obj.group = cluster.group /\ cw.obj.hash = cluster.hash
    BY <2>1 DEF CopyInv
  <2>3. cluster.enabled => ~Recorded(cluster) /\ ~Recorded(cw'.obj)
    BY <1>2, <2>1, <2>2, SMTT(30) DEF OneEditInv
  <2> QED BY <1>2, <2>1, <2>2, <2>3, SMTT(30) DEF OneEditInv
<1>5. CASE EnsureBastion
  <2>1. /\ UNCHANGED <<cluster, content, edits>>
        /\ cw.pc = "ensureBastion" /\ cw'.pc = "patch" /\ cw'.obj.enabled = cw.obj.enabled
        /\ bastion # NoGroup => bastion' = bastion
        /\ \/ cw'.obj.group = bastion' /\ cw'.obj.hash = cw.data
           \/ cw'.obj.group = cw.obj.group /\ cw'.obj.hash = cw.obj.hash
    BY <1>5, EnsureBastionEffect DEF objectVars, Fails, SameRecord
  <2>2. cw.obj.group = cluster.group /\ cw.obj.hash = cluster.hash /\ cw.obj.enabled
    BY <2>1 DEF CopyInv
  <2> QED BY <1>2, <2>1, <2>2, Zenon DEF OneEditInv
<1>6. CASE ClusterPatch
  <2>1. /\ cw.pc = "patch" /\ cw'.pc = "idle" /\ UNCHANGED <<content, bastion, edits>>
        /\ cluster'.enabled = cluster.enabled
        /\ \/ cluster'.group = cw.obj.group /\ cluster'.hash = cw.obj.hash
           \/ cluster' = cluster
    BY <1>6, ClusterPatchEffect, Zenon DEF cloudVars
  <2> QED BY <1>2, <2>1, SMTT(30) DEF OneEditInv
<1>7. CASE Bystander
  <2>1. UNCHANGED <<cluster, content, bastion, cw>>
    BY <1>7, BystanderFrame
  <2> QED BY <1>2, <2>1, SMTT(30) DEF OneEditInv
<1>8. CASE SyncCluster
  <2>1. UNCHANGED <<cluster, content, bastion, cw>>
    BY <1>8 DEF SyncCluster, cloudVars
  <2> QED BY <1>2, <2>1, SMTT(30) DEF OneEditInv
<1>9. CASE Restart
  <2>1. UNCHANGED <<cluster, content, bastion>> /\ cw'.pc = "idle"
    BY <1>9 DEF Restart, IdleCluster, cloudVars
  <2> QED BY <1>2, <2>1, SMTT(30) DEF OneEditInv
<1>10. CASE ToggleBastion
  <2>1. /\ UNCHANGED <<content, bastion, cw>> /\ edits' = edits + 1
        /\ cluster'.enabled = ~cluster.enabled
        /\ cluster'.group = cluster.group /\ cluster'.hash = cluster.hash
    BY <1>10 DEF ToggleBastion, Edit, workVars, cloudVars, TypeInv, TypeOK, ClusterType
  <2>2. edits = 0 /\ edits' = 1
    BY <1>1, <1>2, <2>1
  <2> QED BY <1>2, <2>1, <2>2, SMTT(30) DEF OneEditInv
<1>11. CASE EditCloudInit
  <2>1. /\ UNCHANGED <<cluster, bastion, cw>> /\ edits' = edits + 1 /\ content' = 3 - content
    BY <1>11 DEF EditCloudInit, Edit, cloudVars
  <2>2. edits = 0 /\ edits' = 1
    BY <1>1, <1>2, <2>1
  <2>3. content = 1 /\ content' = 2
    BY <1>2, <2>1, <2>2, SMTT(30) DEF OneEditInv
  <2> QED BY <1>2, <2>1, <2>2, <2>3, SMTT(30) DEF OneEditInv
<1> QED BY <1>3, <1>4, <1>5, <1>6, <1>7, <1>8, <1>9, <1>10, <1>11, NextSplit, ClusterStepSplit

\* Without faults the record is of the bastion there is, at every step.
LEMMA NextNoFault ==
  ASSUME TypeInv, CopyInv, NoFaultInv, [Next]_vars PROVE NoFaultInv'
<1> SUFFICES ASSUME faults' = 0 PROVE NoFaultInv'
  BY DEF NoFaultInv
<1>1. bastion = IF cw.pc = "patch" THEN cw.obj.group ELSE cluster.group
  BY BudgetKept DEF NoFaultInv
<1>2. CASE Passing
  <2>1. /\ UNCHANGED <<cluster, bastion>> /\ cw'.obj.group = cluster.group /\ cw.pc # "patch"
    BY <1>2, PassingEffect
  <2> QED BY <1>1, <2>1 DEF NoFaultInv
<1>3. CASE DeleteBastion
  <2>1. /\ cw.pc = "deleteBastion" /\ cw'.pc = "patch" /\ cw'.obj.group = NoGroup
        /\ bastion' = IF cw.obj.group \in {NoGroup, bastion} THEN NoGroup ELSE bastion
    BY <1>3, DeleteBastionEffect
  <2>2. cw.obj.group = cluster.group
    BY <2>1 DEF CopyInv
  <2> QED BY <1>1, <2>1, <2>2 DEF NoFaultInv
<1>4. CASE EnsureBastion
  <2>1. cw'.pc = "patch" /\ cw'.obj.group = bastion'
    BY <1>4, EnsureBastionEffect
  <2> QED BY <2>1 DEF NoFaultInv
<1>5. CASE ClusterPatch
  <2>1. cw.pc = "patch" /\ cw'.pc = "idle" /\ bastion' = bastion /\ cluster'.group = cw.obj.group
    BY <1>5, ClusterPatchEffect DEF cloudVars
  <2> QED BY <1>1, <2>1 DEF NoFaultInv
<1>6. CASE Bystander
  <2>1. UNCHANGED <<cluster, bastion, cw>>
    BY <1>6, BystanderFrame
  <2> QED BY <1>1, <2>1 DEF NoFaultInv
<1>7. CASE Restart
  BY <1>7, FaultCounts DEF Restart
<1>8. CASE SyncCluster \/ ToggleBastion \/ EditCloudInit
  <2>1. UNCHANGED <<bastion, cw>> /\ cluster'.group = cluster.group
    BY <1>8 DEF SyncCluster, ToggleBastion, EditCloudInit, cloudVars, workVars,
       TypeInv, TypeOK, ClusterType
  <2> QED BY <1>1, <2>1 DEF NoFaultInv
<1> QED BY <1>2, <1>3, <1>4, <1>5, <1>6, <1>7, <1>8, NextSplit, ClusterStepSplit

-----------------------------------------------------------------------------
(* Nodes are reachable from the bastion: the access of the nodes.          *)

\* A machine reconcile never takes access away, and one of a node without it
\* works from the current copy of the cluster or is followed by another: a node
\* is admitted, for it was when its server was created.
LEMMA MachineStepReached ==
  ASSUME TypeInv, PlacedInv, ViewInv, PhaseInv, ZoneInv, Open, AllReached, MachineStep
  PROVE  AllReached'
<1>1. UNCHANGED <<cluster, clusterSeen, clusterNews, machine, machineSeen>>
  BY MachineStepFrame
<1> SUFFICES ASSUME NEW n \in Machines, machine[n].phase = "active", ~clusterNews,
                    machineSeen[n].phase # "absent"
             PROVE  Attended(n)'
  BY <1>1 DEF AllReached, Attended
<1>2. clusterSeen = View(cluster) /\ infra[n].phase = "active"
  BY DEF ViewInv, PhaseInv
<1>3. clusterSeen.enabled /\ clusterSeen.ready /\ clusterSeen.group = cluster.group
  BY <1>2 DEF View, Open
<1>4. Attended(n)
  BY DEF AllReached
<1>5. ASSUME NEW m \in Machines, MachineStart(m) PROVE Attended(n)'
  <2>1. /\ mw.pc = "idle" /\ machineQueue' = machineQueue \ {m} /\ UNCHANGED <<server, nodeGroup>>
        /\ n = m => /\ mw'.m = m
                    /\ \/ mw'.pc = "patch" /\ mw'.again
                       \/ mw'.pc = "server"
                       \/ mw'.pc # "destroy" /\ ~validateMachineAvailabilityZone(m, clusterSeen)
    BY <1>2, <1>3, <1>5, MachineStartEffect, Zenon DEF cloudVars
  <2>2. server[n].state # "none" => validateMachineAvailabilityZone(n, clusterSeen)
    BY <1>3 DEF ZoneInv, PlacedInv, SeenPublished, validateMachineAvailabilityZone
  <2>3. CASE n = m
    BY <1>1, <2>1, <2>2, <2>3 DEF Attended, Reaching
  <2>4. CASE n # m
    BY <1>1, <1>4, <2>1, <2>4 DEF Attended, Reaching, Reached
  <2> QED BY <2>3, <2>4
<1>6. CASE EnsureServer
  <2>1. /\ mw.pc = "server" /\ mw.m \in Machines /\ mw'.m = mw.m
        /\ UNCHANGED <<nodeGroup, machineQueue>>
    BY <1>6, EnsureServerEffect
  <2>2. PICK srv :
          /\ server' = [server EXCEPT ![mw.m] = srv]
          /\ \/ mw'.pc = "patch" /\ (mw'.again \/ srv.state = "none")
             \/ mw'.pc = "patch" /\ ~mw.obj.enabled
             \/ mw'.pc = "group"
    BY <1>6, EnsureServerEffect, Zenon
  <2>3. \A k \in Machines : server'[k] = IF k = mw.m THEN srv ELSE server[k]
    BY <2>1, <2>2 DEF TypeInv, TypeOK
  <2>4. CASE n = mw.m
    <3>1. n \in machineQueue \/ mw.obj.enabled
      BY <1>3, <2>1, <2>4 DEF ViewInv
    <3> QED BY <1>1, <2>1, <2>2, <2>3, <2>4, <3>1 DEF Attended, Reaching
  <2>5. CASE n # mw.m
    BY <1>1, <1>4, <2>1, <2>3, <2>5 DEF Attended, Reaching, Reached
  <2> QED BY <2>4, <2>5, Zenon
<1>7. CASE ensureNodeSSHSecurityGroup
  <2> DEFINE done == [nodeGroup EXCEPT !.exists = TRUE]
  <2>1. /\ mw.pc = "group" /\ mw'.m = mw.m /\ UNCHANGED <<server, machineQueue>>
        /\ nodeGroup' \in {nodeGroup, done}
        /\ (mw'.pc = "patch" /\ mw'.again) \/ mw'.pc = "rule"
    BY <1>7, NodeAccessEffect, Zenon DEF ensureNodeSSHSecurityGroup
  <2>2. done.attached = nodeGroup.attached /\ done.rules = nodeGroup.rules
    BY DEF TypeInv, TypeOK, NodeGroupType
  <2> HIDE DEF done
  <2> QED BY <1>1, <1>4, <2>1, <2>2 DEF Attended, Reaching, Reached
<1>8. CASE ensureNodeSSHSecurityGroupRule
  <2> DEFINE ruled == [nodeGroup EXCEPT !.rules = @ \cup {mw.obj.group}]
  <2> DEFINE done == IF nodeGroup.exists THEN ruled ELSE nodeGroup
  <2>1. /\ mw.pc = "rule" /\ mw'.m = mw.m /\ UNCHANGED <<server, machineQueue>>
        /\ \/ mw'.pc = "patch" /\ mw'.again /\ nodeGroup' \in {nodeGroup, done}
           \/ mw'.pc = "attach" /\ nodeGroup.exists /\ nodeGroup' = done
    <3> DEFINE ok == nodeGroup.exists
    <3>1. NodeAccessStep("rule", "attach", done, ok)
      BY <1>8 DEF ensureNodeSSHSecurityGroupRule
    <3> HIDE DEF done, ok
    <3>2. /\ mw.pc = "rule" /\ mw'.m = mw.m /\ UNCHANGED <<server, machineQueue>>
          /\ \/ mw'.pc = "patch" /\ mw'.again /\ nodeGroup' \in {nodeGroup, done}
             \/ mw'.pc = "attach" /\ ok /\ nodeGroup' = done
      BY <3>1, NodeAccessEffect, Zenon
    <3> QED BY <3>2, Zenon DEF ok
  <2>2. /\ ruled.attached = nodeGroup.attached /\ ruled.exists = nodeGroup.exists
        /\ ruled.rules = nodeGroup.rules \cup {mw.obj.group}
    BY DEF TypeInv, TypeOK, NodeGroupType
  <2> HIDE DEF ruled
  <2>3. n = mw.m => n \in machineQueue \/ mw.obj.group = cluster.group
    BY <1>3, <2>1 DEF ViewInv
  <2> QED BY <1>1, <1>4, <2>1, <2>2, <2>3 DEF Attended, Reaching, Reached
<1>9. CASE addSecurityGroupToServer
  <2> DEFINE held == [nodeGroup EXCEPT !.attached = @ \cup {mw.m}]
  <2> DEFINE done == IF nodeGroup.exists /\ server[mw.m].state # "none" THEN held ELSE nodeGroup
  <2>1. /\ mw.pc = "attach" /\ mw'.m = mw.m /\ UNCHANGED <<server, machineQueue>>
        /\ \/ mw'.pc = "patch" /\ mw'.again /\ nodeGroup' \in {nodeGroup, done}
           \/ nodeGroup' = done
    BY <1>9, NodeAccessEffect, Zenon DEF addSecurityGroupToServer
  <2>2. held.attached = nodeGroup.attached \cup {mw.m} /\ held.rules = nodeGroup.rules
    BY DEF TypeInv, TypeOK, NodeGroupType
  <2> HIDE DEF held
  <2> QED BY <1>1, <1>4, <2>1, <2>2 DEF Attended, Reaching, Reached
<1>10. CASE DestroyServer
  <2>1. /\ mw.pc = "destroy" /\ machineQueue \subseteq machineQueue'
        /\ server' \in {server, [server EXCEPT ![mw.m] = NoServer]}
        /\ nodeGroup' \in {nodeGroup, [nodeGroup EXCEPT !.attached = @ \ {mw.m}]}
    BY <1>10 DEF DestroyServer
  <2>2. n # mw.m
    BY <2>1 DEF PhaseInv
  <2>3. server'[n] = server[n]
    BY <2>1, <2>2 DEF TypeInv, TypeOK
  <2>4. /\ nodeGroup'.rules = nodeGroup.rules
        /\ n \in nodeGroup.attached => n \in nodeGroup'.attached
    BY <2>1, <2>2 DEF TypeInv, TypeOK, NodeGroupType
  <2> QED BY <1>1, <1>4, <2>1, <2>2, <2>3, <2>4 DEF Attended, Reaching, Reached
<1>11. CASE MachinePatch
  <2>1. /\ mw.pc = "patch" /\ UNCHANGED <<server, nodeGroup>>
        /\ machineQueue \subseteq machineQueue' /\ (mw.again => mw.m \in machineQueue')
    BY <1>11 DEF MachinePatch, cloudVars
  <2> QED BY <1>1, <1>4, <2>1 DEF Attended, Reaching, Reached
<1> QED BY <1>5, <1>6, <1>7, <1>8, <1>9, <1>10, <1>11 DEF MachineStep

\* What happens outside raises an event, or takes the server or the Machine away.
LEMMA WorldReached ==
  ASSUME TypeInv, AllReached, NEW m \in Machines,
         \/ SyncMachine(m) \/ Progress(m)
         \/ CreateMachine(m) \/ DeleteMachine(m) \/ ServerLost(m)
  PROVE  AllReached'
<1>1. CASE SyncMachine(m)
  <2>1. /\ UNCHANGED <<cluster, clusterNews, machine, server, nodeGroup, mw>>
        /\ machineQueue' = machineQueue \cup {m}
        /\ machineSeen' = [machineSeen EXCEPT ![m] = machine[m]]
    BY <1>1, Zenon DEF SyncMachine, cloudVars
  <2>2. \A n \in Machines : n # m => machineSeen'[n] = machineSeen[n]
    BY <2>1 DEF TypeInv, TypeOK
  <2> QED BY <2>1, <2>2 DEF AllReached, Attended, Reaching, Reached
<1>2. CASE Progress(m) \/ CreateMachine(m) \/ DeleteMachine(m) \/ ServerLost(m)
  <2>1. /\ UNCHANGED <<cluster, clusterNews, machineSeen, mw>>
        /\ machineQueue \subseteq machineQueue'
        /\ \A n \in Machines : n # m => machine'[n].phase = machine[n].phase
        /\ machine'[m].phase = "active" => machine[m].phase = "active" \/ m \in machineQueue'
        /\ \A n \in Machines : server'[n].state # "none" => server[n].state # "none"
        /\ nodeGroup'.rules = nodeGroup.rules /\ nodeGroup'.exists = nodeGroup.exists
        /\ \A n \in nodeGroup.attached :
             n \in nodeGroup'.attached \/ server'[n].state = "none"
    BY <1>2, WorldEffect
  <2> SUFFICES ASSUME NEW n \in Machines, machine'[n].phase = "active" PROVE Attended(n)'
    BY Zenon DEF AllReached
  <2>2. CASE machine[n].phase = "active"
    <3>1. Attended(n)
      BY <2>2 DEF AllReached
    <3> QED BY <2>1, <3>1 DEF Attended, Reaching, Reached
  <2>3. CASE machine[n].phase # "active"
    BY <2>1, <2>3 DEF Attended
  <2> QED BY <2>2, <2>3
<1> QED BY <1>1, <1>2

\* Access is revoked only of a bastion that was switched off or whose document
\* changed, by a reconcile that says so in the object.
LEMMA NextAccess ==
  ASSUME TypeInv, PlacedInv, ViewInv, PhaseInv, ZoneInv, CopyInv, OneEditInv, AccessInv,
         [Next]_vars
  PROVE  AccessInv'
<1>1. (edits' <= 1 => edits <= 1) /\ (faults' = 0 => faults = 0)
  <2>1. edits \in Nat /\ edits' \in {edits, edits + 1}
    BY BudgetKept, NodesAssumption DEF TypeInv, TypeOK
  <2> QED BY <2>1, BudgetKept
<1>2. ASSUME AllReached' PROVE AccessInv'
  BY <1>2 DEF AccessInv
<1>3. ASSUME UNCHANGED <<cluster, content>>, Revoked => Revoked',
             Open /\ AllReached => AllReached'
      PROVE  AccessInv'
  BY <1>1, <1>3 DEF AccessInv, Open
<1>4. ASSUME UNCHANGED <<cluster, clusterNews, machine, machineSeen, server, nodeGroup,
                         machineQueue, mw>>
      PROVE  AllReached => AllReached'
  BY <1>4 DEF AllReached, Attended, Reaching, Reached
<1>5. CASE ClusterStart \/ EnsureAPIServerLoadBalancer \/ SetAPIServerLoadBalancerTargets
           \/ ReconcileBastion \/ EnsureBastion
  <2>1. /\ UNCHANGED <<cluster, content, clusterNews, machine, machineSeen, server, nodeGroup,
                       machineQueue, mw>>
        /\ cw.pc \notin {"deleteGroup", "deleteBastion", "patch"}
    BY <1>5, ClusterStartEffect, EnsureLoadBalancerEffect, SetTargetsEffect,
       ReconcileBastionEffect, EnsureBastionEffect, Zenon DEF objectVars, cloudVars
  <2>2. ~Revoked
    BY <2>1 DEF Revoked
  <2> QED BY <1>3, <1>4, <2>1, <2>2
<1>6. CASE RevokeNodeSSHAccess \/ DeleteNodeSSHAccess
  <2>1. /\ UNCHANGED <<cluster, content, clusterNews, machine, machineSeen, server,
                       machineQueue, mw, edits>>
        /\ cw.pc \in {"revoke", "deleteGroup"}
    BY <1>6, RevokeEffect, DeleteGroupEffect DEF objectVars
  <2>2. \/ cw.pc = "revoke" /\ UNCHANGED nodeGroup
        \/ Revoked'
    BY <1>6, RevokeEffect, DeleteGroupEffect DEF Fails, Revoked
  <2>3. CASE cw.pc = "revoke" /\ UNCHANGED nodeGroup
    <3>1. ~Revoked
      BY <2>3 DEF Revoked
    <3> QED BY <1>3, <1>4, <2>1, <2>3, <3>1
  <2>4. CASE Revoked'
    <3>1. ~(edits <= 1 /\ Open /\ cluster.hash = content)
      BY <2>1 DEF CopyInv, OneEditInv, Open
    <3> QED BY <2>1, <2>4, <3>1 DEF AccessInv, Open
  <2> QED BY <2>2, <2>3, <2>4
<1>7. CASE DeleteBastion
  <2>1. /\ UNCHANGED <<cluster, content, clusterNews, machine, machineSeen, server, nodeGroup,
                       machineQueue, mw>>
        /\ cw'.pc = "patch" /\ (~cw'.obj.ready \/ cw'.obj.group = NoGroup)
    BY <1>7, DeleteBastionEffect DEF objectVars, Fails
  <2>2. Revoked'
    BY <2>1 DEF Revoked
  <2> QED BY <1>3, <1>4, <2>1, <2>2
<1>8. CASE ClusterPatch
  <2>1. /\ UNCHANGED <<content, machine, machineSeen, server, nodeGroup, machineQueue, mw>>
        /\ cw.pc = "patch"
        /\ \/ /\ cluster'.ready = cw.obj.ready /\ cluster'.group = cw.obj.group
              /\ clusterNews' = (clusterNews \/ cluster' # cluster)
           \/ faults' # 0 /\ UNCHANGED <<cluster, clusterNews>>
    BY <1>8, ClusterPatchEffect DEF cloudVars
  <2>2. CASE clusterNews'
    <3>1. AllReached'
      BY <2>2 DEF AllReached, Attended
    <3> QED BY <1>2, <3>1
  <2>3. CASE ~clusterNews'
    <3>1. cluster' = cluster /\ ~clusterNews
      BY <1>8, <2>3, ClusterStepFrame DEF ClusterStep
    <3>2. AllReached => AllReached'
      BY <2>1, <2>3, <3>1 DEF AllReached, Attended, Reaching, Reached
    <3>3. faults' = 0 /\ Open => ~Revoked
      BY <2>1, <3>1, Zenon DEF Open, Revoked
    <3> QED BY <1>1, <2>1, <3>1, <3>2, <3>3 DEF AccessInv, Open
  <2> QED BY <2>2, <2>3
<1>9. CASE MachineStep
  <2>1. UNCHANGED <<cluster, content, cw>>
    BY <1>9, MachineStepFrame
  <2>2. Open /\ AllReached => AllReached'
    BY <1>9, MachineStepReached
  <2> QED BY <1>3, <2>1, <2>2 DEF Revoked
<1>10. ASSUME NEW m \in Machines,
              \/ SyncMachine(m) \/ Progress(m)
              \/ CreateMachine(m) \/ DeleteMachine(m) \/ ServerLost(m)
       PROVE  AccessInv'
  <2>1. UNCHANGED <<cluster, content, cw>>
    BY <1>10, BystanderFrame DEF Bystander
  <2>2. AllReached => AllReached'
    BY <1>10, WorldReached
  <2> QED BY <1>3, <2>1, <2>2 DEF Revoked
<1>11. CASE LoadBalancerReady \/ LoadBalancerLost \/ UNCHANGED vars
  <2>1. UNCHANGED <<cluster, content, clusterNews, machine, machineSeen, server, nodeGroup,
                    machineQueue, mw, cw>>
    BY <1>11, Zenon DEF LoadBalancerReady, LoadBalancerLost, vars, objectVars, cloudVars, workVars
  <2> QED BY <1>3, <1>4, <2>1 DEF Revoked
<1>12. CASE SyncCluster
  <2>1. /\ UNCHANGED <<machine, machineSeen>>
        /\ \A m \in Machines : machineSeen[m].phase = "active" => m \in machineQueue'
    BY <1>12 DEF SyncCluster, stackitMachineRequestsForStackitCluster
  <2>2. AllReached'
    BY <2>1 DEF PhaseInv, AllReached, Attended
  <2> QED BY <1>2, <2>2
<1>13. CASE Restart
  <2>1. machine' = machine /\ \A m \in Machines : infra[m].phase = "active" => m \in machineQueue'
    BY <1>13 DEF Restart
  <2>2. AllReached'
    BY <2>1 DEF PhaseInv, AllReached, Attended
  <2> QED BY <1>2, <2>2
<1>14. CASE ToggleBastion
  <2>1. AllReached'
    BY <1>14 DEF ToggleBastion, AllReached, Attended
  <2> QED BY <1>2, <2>1
<1>15. CASE EditCloudInit
  <2>1. /\ UNCHANGED <<cluster, clusterNews, machine, machineSeen, server, nodeGroup,
                       machineQueue, mw, cw>>
        /\ edits' = edits + 1 /\ content' = 3 - content
    BY <1>15 DEF EditCloudInit, Edit, cloudVars
  <2>2. AllReached => AllReached'
    BY <1>4, <2>1
  <2>3. ~(edits' <= 1 /\ Open /\ cluster.hash = content')
    <3> SUFFICES ASSUME edits' <= 1, Open, cluster.hash = content' PROVE FALSE
      OBVIOUS
    <3>1. edits = 0
      BY <2>1, NodesAssumption DEF TypeInv, TypeOK
    <3>2. content = 1 /\ cluster.hash = 1
      BY <3>1, SMTT(30) DEF OneEditInv, Open
    <3> QED BY <2>1, <3>2
  <2> QED BY <1>1, <2>1, <2>2, <2>3 DEF AccessInv, Open, Revoked
<1>16. Passing => \/ ClusterStart \/ EnsureAPIServerLoadBalancer
                  \/ SetAPIServerLoadBalancerTargets \/ ReconcileBastion
                  \/ RevokeNodeSSHAccess \/ DeleteNodeSSHAccess
  BY Zenon DEF Passing
<1> QED BY <1>5, <1>6, <1>7, <1>8, <1>9, <1>10, <1>11, <1>12, <1>13, <1>14, <1>15, <1>16,
           NextSplit, ClusterStepSplit, Zenon DEF Bystander

\* The inductive invariant behind NodesReachable.
ReachInv ==
  /\ ViewInv /\ PhaseInv /\ ZoneInv /\ CopyInv /\ RecordInv
  /\ OneEditInv /\ NoFaultInv /\ AccessInv

\* There is no bastion, no Machine and no server at first.
LEMMA InitReach == Init => ReachInv
<1> SUFFICES ASSUME Init PROVE ReachInv
  OBVIOUS
<1>1. /\ mw.pc = "idle" /\ cw.pc = "idle" /\ clusterQueue /\ content = 1 /\ edits = 0
      /\ bastion = NoGroup /\ cluster.group = NoGroup /\ clusterSeen = View(cluster)
  BY Zenon DEF Init, IdleMachine, IdleCluster, NewCluster
<1>2. \A m \in Machines : /\ machine[m].phase = "absent" /\ machineSeen[m].phase = "absent"
                          /\ server[m].state = "none"
  BY DEF Init, NoMachine, NoServer
<1> QED BY <1>1, <1>2 DEF ReachInv, ViewInv, PhaseInv, ZoneInv, CopyInv, RecordInv, OneEditInv,
           NoFaultInv, AccessInv, AllReached, Recorded, Open

\* Every step keeps it.
LEMMA NextReach ==
  TypeInv /\ PlacedInv /\ ReachInv /\ [Next]_vars => ReachInv'
BY NextViewed, NextZoned, NextRecorded, NextOneEdit, NextNoFault, NextAccess, Zenon DEF ReachInv

\* When all is at rest with a bastion, every running node carries the node SSH
\* group and the group admits the bastion there is now, for every number of
\* Machines, and of faults or of edits (not of both, see TakenBack): the
\* machine reconciler restores what the recreation of the bastion took away
\* (EnsureNodeSSHAccess, DeleteNodeSSHAccess, the watch on the StackitCluster).
THEOREM AccessRestored == Spec => []NodesReachable
<1>1. TypeInv /\ ReachInv => NodesReachable
  <2> SUFFICES ASSUME TypeInv, ReachInv, Rest, cluster.enabled, cluster.ready, ~TakenBack
               PROVE  /\ bastion # NoGroup /\ cluster.group = bastion
                      /\ \A m \in Machines :
                           machine[m].phase = "active" /\ server[m].state = "active" =>
                             m \in nodeGroup.attached /\ bastion \in nodeGroup.rules
    BY DEF NodesReachable
  <2>1. /\ cw.pc = "idle" /\ mw.pc = "idle" /\ ~clusterQueue /\ machineQueue = {}
        /\ ~clusterNews /\ machineSeen = machine
    BY DEF Rest
  <2>2. Open /\ cluster.hash = content
    BY <2>1 DEF ReachInv, RecordInv, Recorded, Open
  <2>3. faults = 0 \/ edits <= 1
    BY NodesAssumption DEF TakenBack, TypeInv, TypeOK
  <2>4. bastion = cluster.group /\ AllReached
    <3>1. CASE faults = 0
      BY <2>1, <2>2, <3>1 DEF ReachInv, NoFaultInv, AccessInv, Revoked
    <3>2. CASE edits <= 1
      BY <2>2, <3>2 DEF ReachInv, OneEditInv, AccessInv, Recorded, Open
    <3> QED BY <2>3, <3>1, <3>2
  <2> QED BY <2>1, <2>2, <2>4, Zenon DEF AllReached, Attended, Reached, Reaching, Open
<1>2. Init => TypeInv /\ PlacedInv /\ ReachInv
  BY InitTyped, InitPlaced, InitReach
<1>3. TypeInv /\ PlacedInv /\ ReachInv /\ [Next]_vars => TypeInv' /\ PlacedInv' /\ ReachInv'
  BY NextTyped, NextPlaced, NextReach
<1> QED BY <1>1, <1>2, <1>3, PTL DEF Spec

=============================================================================
