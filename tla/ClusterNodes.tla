---------------------------- MODULE ClusterNodes ----------------------------
(***************************************************************************)
(* The two reconcilers at work on one cluster: the StackitCluster          *)
(* reconciler, which keeps the target pool of the API server load balancer *)
(* and the bastion, and the StackitMachine reconciler, which creates the   *)
(* servers, publishes their addresses and grants the bastion SSH access to *)
(* them.  They meet in the StackitCluster object, in the Machines, in the  *)
(* node SSH security group and in the informers that tell either of them   *)
(* that there is work.                                                     *)
(*                                                                         *)
(* Each controller has one worker, the default of controller-runtime that  *)
(* the provider does not change.  What either reconciler does to objects   *)
(* nobody else touches (finalizers, the order of PatchObject's requests,   *)
(* the lag of the informer behind the reconciler's own patches) is in      *)
(* StackitMachine and StackitCluster and is abstracted here.               *)
(***************************************************************************)
EXTENDS Integers, Sequences, FiniteSets

CONSTANTS
  Machines,      \* Machines; a number stands for a name, in the order of names
  ControlPlane,  \* the Machines of the control plane
  IPs,           \* addresses of servers
  Modes,         \* shapes of the cluster, see ModeType
  SameName,      \* the StackitCluster has the name of its Cluster
  MaxIDs,        \* bound on the bastions that are ever created
  MaxFaults,     \* bound on failed or lost calls, failed reads and crashes
  MaxEdits       \* bound on edits, deletes of Machines and deletes in the portal

NoIP == -1

NoZone == 0

NoGroup == 0

BastionIDs == 1..MaxIDs

\* Availability zones are numbers in the order of their names; the metro zone,
\* whose name ends in -m, comes after the others of its region.
MetroZones == {9}

\* Zones <region>-1, <region>-2 and <region>-3.
stackitFailureDomains == {1, 2, 3}

Zones == stackitFailureDomains \cup MetroZones

\* An IPv4 prefix of size addresses from base on, or something that does not
\* parse as one.
Prefixes == [base : Nat, size : Nat, v4 : BOOLEAN]

(* What is fixed in the life of a cluster: the load balancer switch,       *)
(* whether a bastion is asked for at first and may be switched and         *)
(* recreated, the Machines it can get, where they shall be placed          *)
(* (Machine.spec.failureDomain and spec.availabilityZone), the zones the   *)
(* region reports, the prefixes of the network and the addresses it hands  *)
(* out, and the faults and edits it lives through.                         *)
EditKinds == {"scale", "server", "balancer", "toggle", "document"}

ModeType ==
  [balanced : BOOLEAN, bastion : BOOLEAN, machines : SUBSET Machines,
   failureDomain : [Machines -> Zones \cup {NoZone}],
   availabilityZone : [Machines -> Zones \cup {NoZone}],
   zones : SUBSET Zones, prefixes : Seq(Prefixes), ips : SUBSET IPs,
   faults : 0..MaxFaults, edits : 0..MaxEdits, kinds : SUBSET EditKinds]

ASSUME NodesAssumption ==
  /\ Machines \subseteq Nat \ {0}
  /\ ControlPlane \subseteq Machines
  /\ IPs \subseteq Nat
  /\ Modes \subseteq ModeType
  /\ SameName \in BOOLEAN
  /\ MaxIDs \in Nat /\ MaxFaults \in Nat /\ MaxEdits \in Nat

VARIABLES
  mode,         \* the shape of the cluster
  cluster,      \* the StackitCluster
  clusterSeen,  \* what machine reconciles read of the informer's copy of it
  clusterNews,  \* the informer has yet to deliver an update of it
  content,      \* the document the cloudInitRef object holds
  machine,      \* the Machines
  machineSeen,  \* the informer's copies of them, which both reconcilers read
  infra,        \* the StackitMachines
  server,       \* the servers, by the machine whose tags they carry
  lb,           \* the load balancer
  bastion,      \* the bastion: the ID of its security group
  lastBastion,  \* the last ID given to a bastion
  nodeGroup,    \* the node SSH security group
  clusterQueue, \* the StackitCluster is in the work queue
  machineQueue, \* the StackitMachines in the work queue
  cw,           \* the worker of the cluster controller
  mw,           \* the worker of the machine controller
  faults,       \* faults so far
  edits         \* edits so far

objectVars == <<cluster, clusterSeen, clusterNews, content, machine, machineSeen, infra>>
cloudVars == <<server, lb, bastion, lastBastion, nodeGroup>>
workVars == <<clusterQueue, machineQueue, cw, mw>>
budgetVars == <<mode, faults, edits>>
vars == <<objectVars, cloudVars, workVars, budgetVars>>

-----------------------------------------------------------------------------
(* State.                                                                  *)

\* The reason of the condition BastionReady, as far as it is read back or tells
\* two outcomes apart.
Reasons ==
  {"Unknown", "Skipped", "Provisioning", "Available", "Recreating", "CloudInitRefError",
   "BastionError"}

ConditionStatus == {"Unknown", "True", "False"}

\* spec.bastion.enabled, the status the machine reconciler reads, and the
\* conditions NetworkReady and LoadBalancerReady.
ClusterType ==
  [enabled : BOOLEAN, ready : BOOLEAN, zones : SUBSET Zones, reason : Reasons,
   group : BastionIDs \cup {NoGroup}, hash : Nat,
   network : ConditionStatus, balancer : ConditionStatus]

NewCluster(enabled) ==
  [enabled |-> enabled, ready |-> FALSE, zones |-> {}, reason |-> "Unknown",
   group |-> NoGroup, hash |-> 0, network |-> "Unknown", balancer |-> "Unknown"]

\* The fields of a StackitCluster that a machine reconcile reads.
ViewType ==
  [enabled : BOOLEAN, ready : BOOLEAN, zones : SUBSET Zones,
   group : BastionIDs \cup {NoGroup}]

View(obj) ==
  [enabled |-> obj.enabled, ready |-> obj.ready, zones |-> obj.zones, group |-> obj.group]

Phases == {"absent", "active", "deleting", "gone"}

Addresses == IPs \cup {NoIP}

\* A Machine: whether it is being deleted, the address in its status, and
\* whether Cluster API has noticed that its infrastructure is provisioned.
MachineType == [phase : Phases, ip : Addresses, provisioned : BOOLEAN]

\* A StackitMachine: the address in its status, ready, initialization.provisioned.
InfraType ==
  [phase : Phases, ip : Addresses, ready : BOOLEAN, provisioned : BOOLEAN]

ServerType ==
  [state : {"none", "creating", "active"}, ip : Addresses, zone : Zones \cup {NoZone}]

NoMachine == [phase |-> "absent", ip |-> NoIP, provisioned |-> FALSE]

NoInfra == [phase |-> "absent", ip |-> NoIP, ready |-> FALSE, provisioned |-> FALSE]

NoServer == [state |-> "none", ip |-> NoIP, zone |-> NoZone]

\* The display name of the placeholder is none of a Machine's.
BootstrapTargetName == 0

TargetType == [name : Machines \cup {BootstrapTargetName}, ip : Nat]

\* "creating" is a load balancer without an address.
LBType == [state : {"none", "creating", "ready"}, pool : SUBSET TargetType]

NoLB == [state |-> "none", pool |-> {}]

\* The group, the bastion groups its rules admit, the servers it is attached to.
NodeGroupType ==
  [exists : BOOLEAN, rules : SUBSET BastionIDs, attached : SUBSET Machines]

NoNodeGroup == [exists |-> FALSE, rules |-> {}, attached |-> {}]

\* The worker of the cluster controller: where it is, its copy of the object, the
\* targets and the document it read, and whether the key is requeued.
ClusterWorkerType ==
  [pc : {"idle", "ensureLB", "setTargets", "bastion", "revoke", "deleteGroup",
         "deleteBastion", "ensureBastion", "patch"},
   obj : ClusterType, targets : SUBSET TargetType, data : Nat, again : BOOLEAN]

IdleCluster ==
  [pc |-> "idle", obj |-> NewCluster(FALSE), targets |-> {}, data |-> 0,
   again |-> FALSE]

\* The worker of the machine controller: the machine, the StackitCluster it read
\* from the informer, and the status it is going to patch.
MachineWorkerType ==
  [pc : {"idle", "server", "group", "rule", "attach", "patch", "destroy"},
   m : Machines \cup {0}, obj : ViewType, res : InfraType, again : BOOLEAN]

IdleMachine ==
  [pc |-> "idle", m |-> 0, obj |-> View(NewCluster(FALSE)), res |-> NoInfra,
   again |-> FALSE]

Init ==
  /\ mode \in Modes
  /\ cluster = NewCluster(mode.bastion)
  /\ clusterSeen = View(cluster) /\ clusterNews = FALSE
  /\ content = 1
  /\ machine = [m \in Machines |-> NoMachine]
  /\ machineSeen = machine
  /\ infra = [m \in Machines |-> NoInfra]
  /\ server = [m \in Machines |-> NoServer]
  /\ lb = NoLB
  /\ bastion = NoGroup /\ lastBastion = NoGroup
  /\ nodeGroup = NoNodeGroup
  /\ clusterQueue = TRUE
  /\ machineQueue = {}
  /\ cw = IdleCluster /\ mw = IdleMachine
  /\ faults = 0 /\ edits = 0

\* An edit by the user, or something deleted in the portal.
Edit(kind) ==
  /\ kind \in mode.kinds /\ edits < mode.edits
  /\ edits' = edits + 1

\* A call that fails, a read that fails, a patch that is lost, a crash.
Fault == faults < mode.faults /\ faults' = faults + 1

NoFault == faults' = faults

-----------------------------------------------------------------------------
(* Pure helpers.                                                           *)

Min(S) == CHOOSE x \in S : \A y \in S : x <= y

\* The zones published: those of the region without the metro zones, or the
\* three default names when none is left.
failureDomainsFromZones(zones) ==
  IF zones \ MetroZones = {} THEN stackitFailureDomains ELSE zones \ MetroZones

\* The address 10.0.0.1.
FallbackTargetIP == 1

\* Mutant of bootstrapTargetIP: the prefix is not asked whether it contains the
\* address.
bootstrapTargetIPUnchecked(prefixes) ==
  LET usable == {i \in DOMAIN prefixes : prefixes[i].v4}
  IN  IF usable = {} THEN FallbackTargetIP ELSE prefixes[Min(usable)].base + 10

\* The tenth address after the base of the first prefix that has one.
bootstrapTargetIP(prefixes) ==
  LET usable == {i \in DOMAIN prefixes : prefixes[i].v4 /\ 10 < prefixes[i].size}
  IN  IF usable = {} THEN FallbackTargetIP ELSE prefixes[Min(usable)].base + 10

BootstrapTarget(ip) == [name |-> BootstrapTargetName, ip |-> ip]

\* Mutant of APIServerTargets: Machines without an address are not skipped.
APIServerTargetsUnaddressed(list) ==
  {[name |-> m, ip |-> list[m].ip] : m \in {n \in ControlPlane : list[n].phase = "active"}}

\* Mutant of APIServerTargets: duplicates are not dropped.
APIServerTargetsRepeated(list) ==
  {[name |-> m, ip |-> list[m].ip] :
     m \in {n \in ControlPlane : list[n].phase = "active" /\ list[n].ip # NoIP}}

\* The active control plane Machines with an address.  Of several that report
\* the same address the first by name is taken.
APIServerTargets(list) ==
  LET addressed == {m \in ControlPlane : list[m].phase = "active" /\ list[m].ip # NoIP}
      first(m) == \A n \in addressed : list[n].ip = list[m].ip => m <= n
  IN  {[name |-> m, ip |-> list[m].ip] : m \in {n \in addressed : first(n)}}

\* Mutant of UpdatesPool: an empty list replaces the pool.
UpdatesPoolAlways(targets) == TRUE

\* Cluster deletion leaves no active Machine while the API server is in use.
UpdatesPool(targets) == targets # {}

\* Every zone that is asked for is published (anything goes while none is).
validateMachineAvailabilityZone(m, obj) ==
  \/ obj.zones = {}
  \/ {mode.availabilityZone[m], mode.failureDomain[m]} \subseteq obj.zones \cup {NoZone}

AvailabilityZone(m, obj) ==
  IF mode.failureDomain[m] # NoZone THEN mode.failureDomain[m]
  ELSE IF mode.availabilityZone[m] # NoZone THEN mode.availabilityZone[m]
  ELSE IF obj.zones # {} THEN Min(obj.zones)
  ELSE Min(stackitFailureDomains)

\* Mutant of machineTargetPoolChanged: the addresses are not compared.
machinePhaseChanged(old, new) == old.phase # new.phase

\* Creation, deletion, the deletion timestamp, the addresses.
machineTargetPoolChanged(old, new) ==
  \/ old.phase # new.phase
  \/ old.ip # new.ip

FreeIPs == mode.ips \ {server[m].ip : m \in Machines}

-----------------------------------------------------------------------------
(* The StackitCluster reconciler.                                          *)

\* The reconcile continues at pc with the copy obj.
ClusterGoto(pc, obj) == cw' = [cw EXCEPT !.pc = pc, !.obj = obj]

\* Mutant of ClusterReturn: a reconcile that is done asks to come back, too.
ClusterReturnAgain(obj, again) ==
  cw' = [cw EXCEPT !.pc = "patch", !.obj = obj, !.again = TRUE, !.targets = {}]

\* The reconcile returns and the deferred patch follows.
ClusterReturn(obj, again) ==
  cw' = [cw EXCEPT !.pc = "patch", !.obj = obj, !.again = again, !.targets = {}]

\* Mutant of StartFailed: the cluster stays ready.
StartFailedReady(obj) == [obj EXCEPT !.zones = stackitFailureDomains]

\* Before the zones of the region are read the three default ones are published.
StartFailed(obj) == [obj EXCEPT !.zones = stackitFailureDomains, !.ready = FALSE]

\* Credentials and zones, whose failure is always retried, and the network, where
\* a permanent error is reported and ends the reconcile; then the load balancer
\* or, with an external endpoint, the bastion.  The worker reads the object it
\* last patched.
ClusterStart ==
  LET placed == [cluster EXCEPT !.zones = failureDomainsFromZones(mode.zones)]
  IN  /\ cw.pc = "idle" /\ clusterQueue
      /\ clusterQueue' = FALSE
      /\ \/ /\ NoFault
            /\ IF mode.balanced
               THEN ClusterGoto("ensureLB", [placed EXCEPT !.network = "True"])
               ELSE ClusterGoto("bastion",
                                [placed EXCEPT !.network = "True", !.balancer = "True"])
         \/ /\ Fault
            /\ ClusterReturn(StartFailed(cluster), TRUE)
         \/ /\ Fault
            /\ \E retryable \in BOOLEAN :
                 ClusterReturn([placed EXCEPT !.ready = FALSE, !.network = "False"],
                               retryable)
      /\ UNCHANGED <<objectVars, cloudVars, machineQueue, mw, mode, edits>>

\* Lists the Machines, then finds or creates the load balancer.  A new one is
\* seeded with the targets, or with the placeholder.  A list that fails leaves
\* status.ready alone and is retried; of the cloud's errors only the retryable
\* ones are.
EnsureAPIServerLoadBalancer ==
  LET targets == APIServerTargets(machineSeen)
      seed == IF targets = {} THEN {BootstrapTarget(bootstrapTargetIP(mode.prefixes))}
              ELSE targets
      ensured == IF lb.state = "none" THEN [state |-> "creating", pool |-> seed] ELSE lb
      notReady == [cw.obj EXCEPT !.ready = FALSE, !.balancer = "False"]
  IN  /\ cw.pc = "ensureLB"
      /\ \/ /\ NoFault
            /\ lb' = ensured
            /\ IF ensured.state # "ready" THEN ClusterReturn(notReady, TRUE)
               ELSE IF UpdatesPool(targets)
               THEN cw' = [cw EXCEPT !.pc = "setTargets", !.targets = targets]
               ELSE ClusterGoto("bastion", [cw.obj EXCEPT !.balancer = "True"])
         \/ /\ Fault
            /\ lb' = lb
            /\ ClusterReturn([cw.obj EXCEPT !.balancer = "False"], TRUE)
         \/ /\ Fault
            /\ lb' \in {lb, ensured}
            /\ \E retryable \in BOOLEAN : ClusterReturn(notReady, retryable)
      /\ UNCHANGED <<objectVars, server, bastion, lastBastion, nodeGroup,
                     clusterQueue, machineQueue, mw, mode, edits>>

\* Replaces the pool.  A failure leaves status.ready alone and is retried even
\* when it is permanent.
SetAPIServerLoadBalancerTargets ==
  LET updated == IF lb.state = "none" THEN lb ELSE [lb EXCEPT !.pool = cw.targets]
      failed == ClusterReturn([cw.obj EXCEPT !.balancer = "False"], TRUE)
  IN  /\ cw.pc = "setTargets"
      /\ \/ /\ NoFault
            /\ lb' = updated
            /\ IF lb.state = "none" THEN failed
               ELSE cw' = [cw EXCEPT !.pc = "bastion", !.obj.balancer = "True",
                             !.targets = {}]
         \/ /\ Fault
            /\ lb' \in {lb, updated}
            /\ failed
      /\ UNCHANGED <<objectVars, server, bastion, lastBastion, nodeGroup,
                     clusterQueue, machineQueue, mw, mode, edits>>

\* reconcileBastion returns an error.  It is reported, and retried when it is a
\* conflict or transient.
BastionFailed(retryable) ==
  ClusterReturn([cw.obj EXCEPT !.ready = FALSE, !.reason = "BastionError"], retryable)

\* A call of reconcileBastion failed, with an error of either kind.
BastionCallFailed == Fault /\ \E retryable \in BOOLEAN : BastionFailed(retryable)

\* hasBastionStatus and a document with another hash.
bastionNeedsRecreate(obj, data) == obj.group # NoGroup /\ obj.hash # data

\* Mutant of CleanupDone: a cleanup that failed is not repeated.
CleanupTried(obj) == obj.reason \in {"Skipped", "BastionError"}

CleanupDone(obj) == obj.reason = "Skipped"

\* A disabled bastion is cleaned up once, an enabled one is recreated when its
\* document changed and ensured otherwise.  A document that cannot be read is
\* reported and not retried.
ReconcileBastion ==
  /\ cw.pc = "bastion"
  /\ \/ /\ ~cw.obj.enabled /\ CleanupDone(cw.obj)
        /\ ClusterReturn([cw.obj EXCEPT !.ready = TRUE], FALSE)
        /\ NoFault
     \/ /\ ~cw.obj.enabled /\ ~CleanupDone(cw.obj)
        /\ ClusterGoto("revoke", cw.obj)
        /\ NoFault
     \/ /\ cw.obj.enabled
        /\ cw' = [cw EXCEPT !.data = content,
                    !.pc = IF bastionNeedsRecreate(cw.obj, content) THEN "revoke"
                           ELSE "ensureBastion"]
        /\ NoFault
     \/ /\ cw.obj.enabled
        /\ Fault
        /\ ClusterReturn([cw.obj EXCEPT !.ready = FALSE, !.reason = "CloudInitRefError"],
                         FALSE)
  /\ UNCHANGED <<objectVars, cloudVars, clusterQueue, machineQueue, mw, mode, edits>>

\* The servers DeleteNodeSSHAccess lists: those tagged with the name of the
\* StackitCluster.  Machines tag theirs with the name of the Cluster.
ServersListed ==
  IF SameName THEN {m \in Machines : server[m].state # "none"} ELSE {}

\* DeleteNodeSSHAccess, first half: find the group and detach it.
RevokeNodeSSHAccess ==
  /\ cw.pc = "revoke"
  /\ \/ /\ NoFault
        /\ nodeGroup' = [nodeGroup EXCEPT !.attached = @ \ ServersListed]
        /\ ClusterGoto(IF nodeGroup.exists THEN "deleteGroup" ELSE "deleteBastion",
                       cw.obj)
     \/ /\ BastionCallFailed
        /\ UNCHANGED nodeGroup
  /\ UNCHANGED <<objectVars, server, lb, bastion, lastBastion,
                 clusterQueue, machineQueue, mw, mode, edits>>

\* DeleteNodeSSHAccess, second half: delete the rules and the group, which the
\* cloud refuses with a conflict while the group is in use.
DeleteNodeSSHAccess ==
  LET unruled == [nodeGroup EXCEPT !.rules = {}]
      inUse == nodeGroup.attached # {}
      deleted == IF inUse THEN unruled ELSE NoNodeGroup
  IN  /\ cw.pc = "deleteGroup"
      /\ \/ /\ NoFault
            /\ nodeGroup' = deleted
            /\ IF inUse THEN BastionFailed(TRUE) ELSE ClusterGoto("deleteBastion", cw.obj)
         \/ /\ BastionCallFailed
            /\ nodeGroup' \in {nodeGroup, unruled, deleted}
      /\ UNCHANGED <<objectVars, server, lb, bastion, lastBastion,
                     clusterQueue, machineQueue, mw, mode, edits>>

\* By the IDs of the status, or by tags when it has none.  A recreated bastion
\* makes the cluster not ready until the next reconcile.
DeleteBastion ==
  LET left == IF cw.obj.group \in {NoGroup, bastion} THEN NoGroup ELSE bastion
      cleared == [cw.obj EXCEPT !.group = NoGroup, !.hash = 0]
  IN  /\ cw.pc = "deleteBastion"
      /\ \/ /\ NoFault
            /\ bastion' = left
            /\ IF cw.obj.enabled
               THEN ClusterReturn([cleared EXCEPT !.reason = "Recreating", !.ready = FALSE],
                                  TRUE)
               ELSE ClusterReturn([cleared EXCEPT !.reason = "Skipped", !.ready = TRUE],
                                  FALSE)
         \/ /\ BastionCallFailed
            /\ bastion' \in {bastion, left}
      /\ UNCHANGED <<objectVars, server, lb, lastBastion, nodeGroup,
                     clusterQueue, machineQueue, mw, mode, edits>>

\* Finds or creates the bastion and records it.  The reconcile that first records
\* one may find it without an active server or an address and come back; the
\* rounds that find it so again change nothing and are left out.
EnsureBastion ==
  LET ensured == IF bastion = NoGroup THEN lastBastion + 1 ELSE bastion
      recorded == [cw.obj EXCEPT !.group = ensured, !.hash = cw.data]
  IN  /\ cw.pc = "ensureBastion"
      /\ ensured <= MaxIDs
      /\ \/ /\ NoFault
            /\ bastion' = ensured
            /\ ClusterReturn([recorded EXCEPT !.reason = "Available", !.ready = TRUE], FALSE)
         \/ /\ NoFault
            /\ bastion' = ensured
            /\ cw.obj.group # ensured
            /\ ClusterReturn([recorded EXCEPT !.reason = "Provisioning", !.ready = FALSE],
                             TRUE)
         \/ /\ BastionCallFailed
            /\ bastion' \in {bastion, ensured}
      /\ lastBastion' = IF bastion' # NoGroup THEN bastion' ELSE lastBastion
      /\ UNCHANGED <<objectVars, server, lb, nodeGroup,
                     clusterQueue, machineQueue, mw, mode, edits>>

\* The deferred PatchObject.  It writes the status, never the spec's switch.
ClusterPatch ==
  /\ cw.pc = "patch"
  /\ cw' = IdleCluster
  /\ \/ /\ NoFault
        /\ cluster' = [cw.obj EXCEPT !.enabled = cluster.enabled]
        /\ clusterQueue' = (clusterQueue \/ cw.again)
        /\ clusterNews' = (clusterNews \/ cluster' # cluster)
     \/ /\ Fault
        /\ clusterQueue' = TRUE
        /\ UNCHANGED <<cluster, clusterNews>>
  /\ UNCHANGED <<clusterSeen, content, machine, machineSeen, infra, cloudVars,
                 machineQueue, mw, mode, edits>>

-----------------------------------------------------------------------------
(* The StackitMachine reconciler.                                          *)

\* The reconcile returns with the status res and the deferred patch follows.
MachineReturn(res, again) ==
  mw' = [mw EXCEPT !.pc = "patch", !.res = res, !.again = again]

\* A retryable failure.
MachineFailed == MachineReturn([mw.res EXCEPT !.ready = FALSE], TRUE)

\* The preconditions of reconcileNormal, read from the informers: the owner
\* Machine, the StackitCluster, the zones, the bootstrap data, the credentials.
\* Neither a cluster that is not ready nor a zone that is not published requeues.
MachineStart(m) ==
  LET start == [pc |-> "server", m |-> m, obj |-> clusterSeen, res |-> infra[m],
                again |-> FALSE]
      stop(res, again) == [start EXCEPT !.pc = "patch", !.res = res, !.again = again]
      notReady == [infra[m] EXCEPT !.ready = FALSE]
      admitted == clusterSeen.ready /\ validateMachineAvailabilityZone(m, clusterSeen)
  IN  /\ mw.pc = "idle" /\ m \in machineQueue
      /\ machineSeen[m].phase \in {"active", "deleting"} \/ infra[m].phase = "gone"
      /\ machineQueue' = machineQueue \ {m}
      /\ \/ /\ infra[m].phase = "gone"
            /\ UNCHANGED <<mw, faults>>
         \/ /\ infra[m].phase = "deleting"
            /\ mw' = [start EXCEPT !.pc = "destroy"]
            /\ NoFault
         \/ /\ infra[m].phase = "active" /\ ~admitted
            /\ mw' = stop(notReady, FALSE)
            /\ NoFault
         \/ /\ infra[m].phase = "active" /\ admitted
            /\ mw' = start
            /\ NoFault
         \/ /\ infra[m].phase = "active" /\ admitted
            /\ Fault
            /\ mw' = stop(infra[m], TRUE)
      /\ UNCHANGED <<objectVars, cloudVars, clusterQueue, cw, mode, edits>>

\* After the server is known: SetInstance publishes it, whatever its state.  An
\* active one is opened to the bastion, if there is one.
ServerFound(srv, ip) ==
  LET res == [mw.res EXCEPT !.ip = ip, !.provisioned = TRUE]
  IN  IF srv.state # "active" THEN MachineReturn([res EXCEPT !.ready = FALSE], TRUE)
      ELSE IF ~mw.obj.enabled THEN MachineReturn([res EXCEPT !.ready = TRUE], FALSE)
      ELSE IF mw.obj.group = NoGroup THEN MachineReturn([res EXCEPT !.ready = FALSE], TRUE)
      ELSE mw' = [mw EXCEPT !.pc = "group", !.res = res]

\* Finds the server by ID or tags, or creates it; never a second time once it
\* was provisioned.  The addresses come from a separate call, whose failure
\* only leaves them out.
EnsureServer ==
  LET m == mw.m
      found == server[m].state # "none"
      created(ip) == [state |-> "creating", ip |-> ip, zone |-> AvailabilityZone(m, mw.obj)]
      candidates == IF found THEN {server[m]} ELSE {created(ip) : ip \in FreeIPs}
  IN  /\ mw.pc = "server"
      /\ \/ /\ ~found /\ mw.res.provisioned
            /\ MachineReturn([mw.res EXCEPT !.ready = FALSE], FALSE)
            /\ UNCHANGED <<server, faults>>
         \/ /\ found \/ ~mw.res.provisioned
            /\ \E srv \in candidates :
                 /\ server' = [server EXCEPT ![m] = srv]
                 /\ \/ ServerFound(srv, srv.ip) /\ NoFault
                    \/ ServerFound(srv, NoIP) /\ Fault
                    \/ MachineFailed /\ Fault
         \/ /\ Fault
            /\ MachineFailed
            /\ UNCHANGED server
      /\ UNCHANGED <<objectVars, lb, bastion, lastBastion, nodeGroup,
                     clusterQueue, machineQueue, cw, mode, edits>>

\* EnsureNodeSSHAccess: the group, the rule that admits the recorded bastion
\* group, the attachment.  A group that vanished fails the rule; the attachment
\* tolerates that the server or the group is gone.
NodeAccessStep(pc, next, done, ok) ==
  /\ mw.pc = pc
  /\ \/ /\ NoFault
        /\ nodeGroup' = done
        /\ IF ~ok THEN MachineFailed
           ELSE IF next = "patch" THEN MachineReturn([mw.res EXCEPT !.ready = TRUE], FALSE)
           ELSE mw' = [mw EXCEPT !.pc = next]
     \/ /\ Fault
        /\ nodeGroup' \in {nodeGroup, done}
        /\ MachineFailed
  /\ UNCHANGED <<objectVars, server, lb, bastion, lastBastion,
                 clusterQueue, machineQueue, cw, mode, edits>>

ensureNodeSSHSecurityGroup ==
  NodeAccessStep("group", "rule", [nodeGroup EXCEPT !.exists = TRUE], TRUE)

ensureNodeSSHSecurityGroupRule ==
  NodeAccessStep("rule", "attach",
    IF nodeGroup.exists THEN [nodeGroup EXCEPT !.rules = @ \cup {mw.obj.group}]
    ELSE nodeGroup,
    nodeGroup.exists)

addSecurityGroupToServer ==
  NodeAccessStep("attach", "patch",
    IF nodeGroup.exists /\ server[mw.m].state # "none"
    THEN [nodeGroup EXCEPT !.attached = @ \cup {mw.m}] ELSE nodeGroup,
    TRUE)

\* reconcileDelete: the server, found by ID or tags, then the finalizer.
DestroyServer ==
  LET m == mw.m
  IN  /\ mw.pc = "destroy"
      /\ mw' = IdleMachine
      /\ \/ /\ NoFault
            /\ server' = [server EXCEPT ![m] = NoServer]
            /\ infra' = [infra EXCEPT ![m].phase = "gone"]
            /\ UNCHANGED machineQueue
         \/ /\ Fault
            /\ server' \in {server, [server EXCEPT ![m] = NoServer]}
            /\ machineQueue' = machineQueue \cup {m}
            /\ UNCHANGED infra
      /\ nodeGroup' = IF server'[m] = NoServer
                      THEN [nodeGroup EXCEPT !.attached = @ \ {m}] ELSE nodeGroup
      /\ UNCHANGED <<cluster, clusterSeen, clusterNews, content, machine, machineSeen, lb,
                     bastion, lastBastion, clusterQueue, cw, mode, edits>>

\* The deferred PatchObject.  A change comes back as an event of the object.
MachinePatch ==
  LET m == mw.m
      new == [mw.res EXCEPT !.phase = infra[m].phase]
  IN  /\ mw.pc = "patch"
      /\ mw' = IdleMachine
      /\ \/ /\ NoFault
            /\ infra' = [infra EXCEPT ![m] = new]
            /\ machineQueue' = IF mw.again \/ new # infra[m] THEN machineQueue \cup {m}
                               ELSE machineQueue
         \/ /\ Fault
            /\ machineQueue' = machineQueue \cup {m}
            /\ UNCHANGED infra
      /\ UNCHANGED <<cluster, clusterSeen, clusterNews, content, machine, machineSeen,
                     cloudVars, clusterQueue, cw, mode, edits>>

-----------------------------------------------------------------------------
(* The informers.                                                          *)

\* Mutant of stackitMachineRequestsForStackitCluster: provisioned Machines are
\* left out.
requestsForUnprovisioned ==
  {m \in Machines : machineSeen[m].phase = "active" /\ ~machineSeen[m].provisioned}

\* Every Machine of the cluster in the cache.
stackitMachineRequestsForStackitCluster ==
  {m \in Machines : machineSeen[m].phase \in {"active", "deleting"}}

\* A StackitCluster event: its own key and its Machines.
SyncCluster ==
  /\ clusterNews
  /\ clusterSeen' = View(cluster) /\ clusterNews' = FALSE
  /\ clusterQueue' = TRUE
  /\ machineQueue' = machineQueue \cup stackitMachineRequestsForStackitCluster
  /\ UNCHANGED <<cluster, content, machine, machineSeen, infra, cloudVars,
                 cw, mw, budgetVars>>

\* A Machine event: its StackitMachine, and through the predicate the cluster.
SyncMachine(m) ==
  /\ machineSeen[m] # machine[m]
  /\ machineSeen' = [machineSeen EXCEPT ![m] = machine[m]]
  /\ machineQueue' = machineQueue \cup {m}
  /\ clusterQueue' = \/ clusterQueue
                     \/ /\ m \in ControlPlane
                        /\ machineTargetPoolChanged(machineSeen[m], machine[m])
  /\ UNCHANGED <<cluster, clusterSeen, clusterNews, content, machine, infra, cloudVars,
                 cw, mw, budgetVars>>

-----------------------------------------------------------------------------
(* Cluster API, the cloud and the user: external.                          *)

CreateMachine(m) ==
  /\ m \in mode.machines /\ machine[m].phase = "absent"
  /\ machine' = [machine EXCEPT ![m].phase = "active"]
  /\ infra' = [infra EXCEPT ![m].phase = "active"]
  /\ machineQueue' = machineQueue \cup {m}
  /\ UNCHANGED <<cluster, clusterSeen, clusterNews, content, machineSeen, cloudVars,
                 clusterQueue, cw, mw, budgetVars>>

DeleteMachine(m) ==
  /\ machine[m].phase = "active" /\ Edit("scale")
  /\ machine' = [machine EXCEPT ![m].phase = "deleting"]
  /\ UNCHANGED <<cluster, clusterSeen, clusterNews, content, machineSeen, infra, cloudVars,
                 workVars, mode, faults>>

\* The Machine controller copies the addresses when there are any, and notes
\* that the infrastructure is provisioned.
PublishAddresses(m) ==
  LET new == [machine[m] EXCEPT !.provisioned = TRUE,
                !.ip = IF infra[m].ip = NoIP THEN @ ELSE infra[m].ip]
  IN  /\ machine[m].phase = "active" /\ infra[m].provisioned
      /\ new # machine[m]
      /\ machine' = [machine EXCEPT ![m] = new]
      /\ UNCHANGED <<cluster, clusterSeen, clusterNews, content, machineSeen, infra, cloudVars,
                     workVars, budgetVars>>

\* Once the node is drained the Machine controller deletes the StackitMachine,
\* and the Machine when that is gone.
DeleteInfra(m) ==
  /\ machine[m].phase = "deleting" /\ infra[m].phase = "active"
  /\ infra' = [infra EXCEPT ![m].phase = "deleting"]
  /\ machineQueue' = machineQueue \cup {m}
  /\ UNCHANGED <<cluster, clusterSeen, clusterNews, content, machine, machineSeen, cloudVars,
                 clusterQueue, cw, mw, budgetVars>>

RemoveMachine(m) ==
  /\ machine[m].phase = "deleting" /\ infra[m].phase = "gone"
  /\ machine' = [machine EXCEPT ![m].phase = "gone"]
  /\ UNCHANGED <<cluster, clusterSeen, clusterNews, content, machineSeen, infra, cloudVars,
                 workVars, budgetVars>>

LoadBalancerReady ==
  /\ lb.state = "creating"
  /\ lb' = [lb EXCEPT !.state = "ready"]
  /\ UNCHANGED <<objectVars, server, bastion, lastBastion, nodeGroup, workVars,
                 budgetVars>>

ServerActive(m) ==
  /\ server[m].state = "creating"
  /\ server' = [server EXCEPT ![m].state = "active"]
  /\ UNCHANGED <<objectVars, lb, bastion, lastBastion, nodeGroup, workVars,
                 budgetVars>>

\* Someone deletes a server or the load balancer in the portal.
ServerLost(m) ==
  /\ server[m].state # "none" /\ Edit("server")
  /\ server' = [server EXCEPT ![m] = NoServer]
  /\ nodeGroup' = [nodeGroup EXCEPT !.attached = @ \ {m}]
  /\ UNCHANGED <<objectVars, lb, bastion, lastBastion, workVars, mode, faults>>

LoadBalancerLost ==
  /\ lb.state # "none" /\ Edit("balancer")
  /\ lb' = NoLB
  /\ UNCHANGED <<objectVars, server, bastion, lastBastion, nodeGroup, workVars,
                 mode, faults>>

ToggleBastion ==
  /\ Edit("toggle")
  /\ cluster' = [cluster EXCEPT !.enabled = ~@]
  /\ clusterNews' = TRUE
  /\ UNCHANGED <<clusterSeen, content, machine, machineSeen, infra, cloudVars,
                 workVars, mode, faults>>

\* The object behind cloudInitRef is watched.
EditCloudInit ==
  /\ Edit("document")
  /\ content' = 3 - content
  /\ clusterQueue' = TRUE
  /\ UNCHANGED <<cluster, clusterSeen, clusterNews, machine, machineSeen, infra, cloudVars,
                 machineQueue, cw, mw, mode, faults>>

\* The manager restarts: the reconciles in flight are lost, the informers start
\* from a fresh list and every object is queued.
Restart ==
  /\ Fault
  /\ cw' = IdleCluster /\ mw' = IdleMachine
  /\ clusterSeen' = View(cluster) /\ clusterNews' = FALSE /\ machineSeen' = machine
  /\ clusterQueue' = TRUE
  /\ machineQueue' = {m \in Machines : infra[m].phase \in {"active", "deleting"}}
  /\ UNCHANGED <<cluster, content, machine, infra, cloudVars, mode, edits>>

-----------------------------------------------------------------------------
ClusterStep ==
  \/ ClusterStart
  \/ EnsureAPIServerLoadBalancer
  \/ SetAPIServerLoadBalancerTargets
  \/ ReconcileBastion
  \/ RevokeNodeSSHAccess
  \/ DeleteNodeSSHAccess
  \/ DeleteBastion
  \/ EnsureBastion
  \/ ClusterPatch

MachineStep ==
  \/ \E m \in Machines : MachineStart(m)
  \/ EnsureServer
  \/ ensureNodeSSHSecurityGroup
  \/ ensureNodeSSHSecurityGroupRule
  \/ addSecurityGroupToServer
  \/ DestroyServer
  \/ MachinePatch

\* What Cluster API and the cloud do of their own accord.
Progress(m) ==
  \/ PublishAddresses(m)
  \/ DeleteInfra(m)
  \/ RemoveMachine(m)
  \/ ServerActive(m)

Next ==
  \/ ClusterStep
  \/ MachineStep
  \/ SyncCluster
  \/ \E m \in Machines : SyncMachine(m)
  \/ \E m \in Machines : Progress(m)
  \/ LoadBalancerReady
  \/ \E m \in Machines : CreateMachine(m)
  \/ \E m \in Machines : DeleteMachine(m)
  \/ \E m \in Machines : ServerLost(m)
  \/ LoadBalancerLost
  \/ ToggleBastion
  \/ EditCloudInit
  \/ Restart

Spec == Init /\ [][Next]_vars

(* A worker that has work does not stop, the informers deliver, Cluster API *)
(* and the cloud finish what they began.  Nothing is assumed of the user,  *)
(* of faults, or of the order in which machines leave the queue.           *)
Fairness ==
  /\ WF_vars(ClusterStep)
  /\ WF_vars(MachineStep)
  /\ WF_vars(SyncCluster \/ \E m \in Machines : SyncMachine(m))
  /\ WF_vars(LoadBalancerReady \/ \E m \in Machines : Progress(m))

FairSpec == Spec /\ Fairness

-----------------------------------------------------------------------------
(* Properties.                                                             *)

\* Every variable has its type.
TypeOK ==
  /\ mode \in Modes
  /\ cluster \in ClusterType /\ clusterSeen \in ViewType
  /\ clusterNews \in BOOLEAN /\ content \in Nat
  /\ machine \in [Machines -> MachineType] /\ machineSeen \in [Machines -> MachineType]
  /\ infra \in [Machines -> InfraType]
  /\ server \in [Machines -> ServerType]
  /\ lb \in LBType
  /\ bastion \in BastionIDs \cup {NoGroup} /\ lastBastion \in BastionIDs \cup {NoGroup}
  /\ nodeGroup \in NodeGroupType
  /\ clusterQueue \in BOOLEAN /\ machineQueue \subseteq Machines
  /\ cw \in ClusterWorkerType /\ mw \in MachineWorkerType
  /\ faults \in 0..MaxFaults /\ edits \in 0..MaxEdits

\* No reconcile runs or is queued, the informers are up to date and neither
\* Cluster API nor the cloud has anything left to do.
Rest ==
  /\ cw.pc = "idle" /\ mw.pc = "idle"
  /\ ~clusterQueue /\ machineQueue = {}
  /\ ~clusterNews /\ machineSeen = machine
  /\ lb.state # "creating"
  /\ \A m \in Machines :
       /\ machine[m].phase # "deleting"
       /\ server[m].state # "creating"
       /\ machine[m].phase = "active" /\ infra[m].provisioned =>
            machine[m].provisioned /\ infra[m].ip \in {NoIP, machine[m].ip}

\* The pool of the load balancer names an address once, although the Machines it
\* is built from may report one address twice (a lost server's address is handed
\* out again): APIServerTargets drops the duplicates.
PoolAddressesDistinct ==
  \A t, u \in lb.pool : t.ip = u.ip => t = u

RealTargets(balancer) == {t \in balancer.pool : t.name # BootstrapTargetName}

\* A load balancer that has a control plane node behind it keeps one for as long
\* as it exists, whatever Machines are deleted and whatever stale list the
\* cluster reconciler works from: an empty list never replaces the pool.
PoolNeverEmptied ==
  [][RealTargets(lb) # {} /\ lb'.state # "none" => RealTargets(lb') # {}]_vars

\* When all is at rest every running control plane server whose address reached
\* its Machine is behind the load balancer, and no Machine that is gone and no
\* placeholder is, once there is such a server: no event that changes the pool is
\* missed by the watches, their predicate or the reconcile that was already past
\* its list.  The exceptions are errors that nothing retries: a server whose network
\* interfaces could not be read in two reconciles in a row has no address in its
\* Machine, and a permanent error of the network or of the load balancer, met twice
\* in a row, leaves the pool as it was with a condition that says so.
PoolServesControlPlane ==
  LET serving == {m \in ControlPlane :
                    /\ machine[m].phase = "active" /\ machine[m].ip # NoIP
                    /\ server[m].state = "active"}
  IN  /\ Rest /\ lb.state = "ready" /\ serving # {}
      /\ cluster.network = "True" /\ cluster.balancer = "True"
      =>
        /\ \A m \in serving : \E t \in lb.pool : t.ip = server[m].ip
        /\ \A t \in lb.pool : /\ t.name # BootstrapTargetName
                              /\ machine[t.name].phase = "active"

\* An edit may have been taken back around a patch that was lost: the object then
\* never changed, and nobody is told of the cleanup that was done in between.
TakenBack == faults > 0 /\ edits > 1

\* When all is at rest with a bastion, every running node carries the node SSH
\* group and the group admits the bastion there is now, whichever way the
\* recreation of the bastion and the machine reconciles interleaved.
NodesReachable ==
  Rest /\ cluster.enabled /\ cluster.ready /\ ~TakenBack =>
    /\ bastion # NoGroup /\ cluster.group = bastion
    /\ \A m \in Machines :
         machine[m].phase = "active" /\ server[m].state = "active" =>
           m \in nodeGroup.attached /\ bastion \in nodeGroup.rules

\* A server is only placed in a zone that failureDomainsFromZones makes of those the
\* region reports (never the metro zone; the three default zones if there is no
\* other), and in the Machine's failure domain if it names one: no machine reconcile
\* acts on a copy of the cluster from before its zones were read, nor on the default
\* zones that a failed start of the cluster reconcile publishes in their place.
ServersPlaced ==
  \A m \in Machines : server[m].state # "none" =>
    /\ server[m].zone \in failureDomainsFromZones(mode.zones)
    /\ mode.failureDomain[m] \in {NoZone, server[m].zone}

\* A placeholder lies inside one of the network's prefixes when one has room for
\* it, and is never an address below the tenth: bootstrapTargetIP.
PlaceholderInNetwork ==
  \A t \in lb.pool : t.name = BootstrapTargetName =>
    \/ \E i \in DOMAIN mode.prefixes :
         /\ mode.prefixes[i].v4
         /\ t.ip \in mode.prefixes[i].base + 10 ..
                     mode.prefixes[i].base + mode.prefixes[i].size - 1
    \/ \A i \in DOMAIN mode.prefixes : mode.prefixes[i].v4 => mode.prefixes[i].size <= 10

\* The reconcile ended in an error that is not retried, and reports it.
GivenUp == Rest /\ ~cluster.ready

\* A bastion that is switched off for good is removed, in whichever reconcile the
\* switch, a failed call, a lost patch or a restart falls: the cleanup of
\* reconcileBastion is done again until it has succeeded, or until the cluster rests
\* in the error it reports.  What a switch that was taken back left behind after a
\* lost patch is not covered: BastionReady may say Skipped of an earlier cleanup.
DisabledBastionRemoved ==
  <>[](~cluster.enabled) => <>[](bastion = NoGroup \/ GivenUp \/ TakenBack)

\* After the last edit and the last fault the two reconcilers come to rest: they
\* do not keep waking each other.
Settles == <>[]Rest

=============================================================================
