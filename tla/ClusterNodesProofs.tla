-------------------------- MODULE ClusterNodesProofs --------------------------
(***************************************************************************)
(* Proofs about ClusterNodes, for any number of Machines, addresses,       *)
(* bastions, faults and edits, any zones and any prefixes: what the pure   *)
(* helpers return, types, the target pool of the load balancer, which      *)
(* follows the control plane, and the placement of servers.                *)
(***************************************************************************)
EXTENDS ClusterNodes, WellFoundedInduction, TLAPS

-----------------------------------------------------------------------------
(* Least elements, for the sorted zones and the first usable prefix.       *)

\* A set of naturals that is not empty has a least element.
LEMMA LeastNatural ==
  ASSUME NEW T \in SUBSET Nat, T # {}
  PROVE  \E x \in T : \A y \in T : x <= y
<1> DEFINE R == OpToRel(<, Nat)
<1>1. IsWellFoundedOn(R, Nat)
  BY NatLessThanWellFounded, Zenon
<1> HIDE DEF R
<1>2. PICK x \in T : \A y \in T : ~ (<<y, x>> \in R)
  BY <1>1, WFMin, Zenon
<1>3. ASSUME NEW y \in T, y < x PROVE <<y, x>> \in R
  BY <1>3 DEF R, OpToRel
<1>4. ASSUME NEW y \in T PROVE x <= y
  <2>1. ~ (y < x)
    BY <1>2, <1>3, Zenon
  <2>2. x \in Nat /\ y \in Nat
    OBVIOUS
  <2> QED BY <2>1, <2>2
<1> QED BY <1>4

\* Min picks an element of its argument.
LEMMA MinIsElement ==
  ASSUME NEW T \in SUBSET Nat, T # {}
  PROVE  Min(T) \in T
BY LeastNatural, Zenon DEF Min

\* The published zones are naturals and there is at least one.
LEMMA FailureDomainsTyped ==
  ASSUME NEW zones \in SUBSET Zones
  PROVE  /\ failureDomainsFromZones(zones) \in SUBSET Zones
         /\ failureDomainsFromZones(zones) # {}
BY DEF failureDomainsFromZones, Zones, stackitFailureDomains, MetroZones

\* The placeholder is the fallback, or the tenth address of a prefix with room.
LEMMA PlaceholderAddress ==
  ASSUME NEW prefixes \in Seq(Prefixes)
  PROVE  /\ bootstrapTargetIP(prefixes) \in Nat
         /\ \/ \E i \in DOMAIN prefixes :
                 /\ prefixes[i].v4
                 /\ bootstrapTargetIP(prefixes) \in
                      prefixes[i].base + 10 .. prefixes[i].base + prefixes[i].size - 1
            \/ \A i \in DOMAIN prefixes : prefixes[i].v4 => prefixes[i].size <= 10
<1> DEFINE usable == {i \in DOMAIN prefixes : prefixes[i].v4 /\ 10 < prefixes[i].size}
<1>1. DOMAIN prefixes \subseteq Nat /\ \A i \in DOMAIN prefixes : prefixes[i] \in Prefixes
  OBVIOUS
<1>2. usable \in SUBSET Nat
  BY <1>1
<1>3. CASE usable = {}
  <2>1. bootstrapTargetIP(prefixes) = 1
    BY <1>3 DEF bootstrapTargetIP, FallbackTargetIP
  <2>2. \A i \in DOMAIN prefixes : prefixes[i].v4 => prefixes[i].size <= 10
    BY <1>1, <1>3 DEF Prefixes
  <2> QED BY <2>1, <2>2
<1>4. CASE usable # {}
  <2>1. Min(usable) \in usable
    BY <1>2, <1>4, MinIsElement, Zenon
  <2>2. bootstrapTargetIP(prefixes) = prefixes[Min(usable)].base + 10
    BY <1>4 DEF bootstrapTargetIP
  <2> HIDE DEF usable
  <2>3. PICK i \in usable : i = Min(usable)
    BY <2>1
  <2>4. i \in DOMAIN prefixes /\ prefixes[i].v4 /\ 10 < prefixes[i].size
    BY DEF usable
  <2>5. prefixes[i].base \in Nat /\ prefixes[i].size \in Nat
    BY <1>1, <2>4 DEF Prefixes
  <2>6. bootstrapTargetIP(prefixes) = prefixes[i].base + 10
    BY <2>2, <2>3
  <2> QED BY <2>4, <2>5, <2>6
<1> QED BY <1>3, <1>4

-----------------------------------------------------------------------------
(* APIServerTargets. *)

\* The targets name control plane Machines and their addresses, and no address
\* twice.
LEMMA TargetsSound ==
  ASSUME NEW list \in [Machines -> MachineType]
  PROVE  /\ APIServerTargets(list) \in SUBSET TargetType
         /\ \A t \in APIServerTargets(list) : t.name \in ControlPlane
         /\ \A t, u \in APIServerTargets(list) : t.ip = u.ip => t = u
<1> DEFINE addressed == {m \in ControlPlane : list[m].phase = "active" /\ list[m].ip # NoIP}
<1> DEFINE first(m) == \A n \in addressed : list[n].ip = list[m].ip => m <= n
<1> DEFINE chosen == {n \in addressed : first(n)}
<1>1. APIServerTargets(list) = {[name |-> m, ip |-> list[m].ip] : m \in chosen}
  BY DEF APIServerTargets
<1>2. ASSUME NEW m \in chosen
      PROVE  m \in Machines /\ m \in ControlPlane /\ m \in Nat /\ list[m].ip \in IPs
  BY NodesAssumption DEF MachineType, Addresses
<1>3. ASSUME NEW m \in chosen, NEW n \in chosen, list[m].ip = list[n].ip
      PROVE  m = n
  <2>1. m <= n /\ n <= m
    BY <1>3
  <2>2. m \in Nat /\ n \in Nat
    BY <1>2
  <2> QED BY <2>1, <2>2
<1> HIDE DEF chosen
<1>4. ASSUME NEW t \in APIServerTargets(list)
      PROVE  t \in TargetType /\ t.name \in ControlPlane
  BY <1>1, <1>2, NodesAssumption DEF TargetType
<1>5. ASSUME NEW t \in APIServerTargets(list), NEW u \in APIServerTargets(list), t.ip = u.ip
      PROVE  t = u
  BY <1>1, <1>3, <1>5
<1> QED BY <1>4, <1>5

-----------------------------------------------------------------------------
(* Types. *)

\* TypeOK, and what the machine worker has read by the time it needs it: a
\* machine, and the group of a bastion.  There are two documents.
TypeInv ==
  /\ TypeOK
  /\ content \in {1, 2}
  /\ mw.pc # "idle" => mw.m \in Machines
  /\ mw.pc \in {"group", "rule", "attach"} => mw.obj.group \in BastionIDs

\* The fields of the shape of a cluster.
LEMMA ModeTyped ==
  ASSUME mode \in Modes
  PROVE  /\ mode.zones \in SUBSET Zones
         /\ mode.prefixes \in Seq(Prefixes)
         /\ mode.faults \in 0..MaxFaults /\ mode.edits \in 0..MaxEdits
         /\ mode.failureDomain \in [Machines -> Zones \cup {NoZone}]
         /\ mode.availabilityZone \in [Machines -> Zones \cup {NoZone}]
         /\ mode.bastion \in BOOLEAN /\ mode.ips \subseteq IPs
BY NodesAssumption DEF ModeType

\* Faults stay within their bound.
LEMMA FaultsTyped ==
  ASSUME mode \in Modes, faults \in 0..MaxFaults, Fault \/ NoFault
  PROVE  faults' \in 0..MaxFaults
BY ModeTyped, NodesAssumption DEF Fault, NoFault

\* Edits stay within their bound.
LEMMA EditsTyped ==
  ASSUME mode \in Modes, edits \in 0..MaxEdits, NEW kind, Edit(kind)
  PROVE  edits' \in 0..MaxEdits
BY ModeTyped, NodesAssumption DEF Edit

\* A view of a typed object is typed.
LEMMA ViewTyped ==
  ASSUME NEW obj \in ClusterType
  PROVE  View(obj) \in ViewType
BY DEF View, ViewType, ClusterType

\* The idle workers and the new objects are typed.
LEMMA IdleTyped ==
  /\ \A b \in BOOLEAN : NewCluster(b) \in ClusterType
  /\ IdleCluster \in ClusterWorkerType
  /\ IdleMachine \in MachineWorkerType
  /\ NoMachine \in MachineType /\ NoInfra \in InfraType /\ NoServer \in ServerType
  /\ NoLB \in LBType /\ NoNodeGroup \in NodeGroupType
<1>1. \A b \in BOOLEAN : NewCluster(b) \in ClusterType
  BY DEF NewCluster, ClusterType, Reasons, ConditionStatus
<1>2. NoMachine \in MachineType /\ NoInfra \in InfraType /\ NoServer \in ServerType
  BY DEF NoMachine, NoInfra, NoServer, MachineType, InfraType, ServerType, Phases, Addresses
<1>3. NoLB \in LBType /\ NoNodeGroup \in NodeGroupType
  BY DEF NoLB, LBType, NoNodeGroup, NodeGroupType
<1>4. IdleCluster \in ClusterWorkerType
  BY <1>1, Zenon DEF IdleCluster, ClusterWorkerType
<1>5. IdleMachine \in MachineWorkerType
  <2>1. View(NewCluster(FALSE)) \in ViewType
    BY <1>1, ViewTyped, Zenon
  <2> QED BY <1>2, <2>1, Zenon DEF IdleMachine, MachineWorkerType
<1> QED BY <1>1, <1>2, <1>3, <1>4, <1>5

\* Going on leaves the cluster worker typed.
LEMMA GotoTyped ==
  ASSUME cw \in ClusterWorkerType, NEW obj \in ClusterType,
         NEW pc \in {"ensureLB", "bastion", "revoke", "deleteGroup", "deleteBastion"},
         ClusterGoto(pc, obj)
  PROVE  /\ cw' \in ClusterWorkerType
         /\ cw'.pc = pc /\ cw'.obj = obj /\ cw'.targets = cw.targets
BY Zenon DEF ClusterGoto, ClusterWorkerType

\* Returning leaves the cluster worker typed.
LEMMA ReturnTyped ==
  ASSUME cw \in ClusterWorkerType, NEW obj \in ClusterType, NEW again \in BOOLEAN,
         ClusterReturn(obj, again)
  PROVE  /\ cw' \in ClusterWorkerType
         /\ cw'.pc = "patch" /\ cw'.obj = obj /\ cw'.targets = {}
BY Zenon DEF ClusterReturn, ClusterWorkerType

\* Returning leaves the machine worker typed.
LEMMA MachineReturnTyped ==
  ASSUME mw \in MachineWorkerType, NEW res \in InfraType, NEW again \in BOOLEAN,
         MachineReturn(res, again)
  PROVE  /\ mw' \in MachineWorkerType
         /\ mw'.pc = "patch" /\ mw'.m = mw.m
BY Zenon DEF MachineReturn, MachineWorkerType

\* Edits of a typed StackitCluster.
LEMMA ObjTyped ==
  ASSUME NEW obj \in ClusterType
  PROVE  /\ \A b \in BOOLEAN : [obj EXCEPT !.ready = b] \in ClusterType
         /\ \A b \in BOOLEAN : [obj EXCEPT !.enabled = b] \in ClusterType
         /\ \A z \in SUBSET Zones : [obj EXCEPT !.zones = z] \in ClusterType
         /\ \A b \in BOOLEAN, r \in Reasons :
              [obj EXCEPT !.ready = b, !.reason = r] \in ClusterType
         /\ [obj EXCEPT !.group = NoGroup, !.hash = 0] \in ClusterType
         /\ \A c \in ConditionStatus :
              /\ [obj EXCEPT !.network = c] \in ClusterType
              /\ [obj EXCEPT !.balancer = c] \in ClusterType
         /\ \A b \in BOOLEAN, c \in ConditionStatus :
              /\ [obj EXCEPT !.ready = b, !.network = c] \in ClusterType
              /\ [obj EXCEPT !.ready = b, !.balancer = c] \in ClusterType
         /\ \A c, d \in ConditionStatus :
              [obj EXCEPT !.network = c, !.balancer = d] \in ClusterType
         /\ StartFailed(obj) \in ClusterType
<1>1. stackitFailureDomains \subseteq Zones
  BY DEF Zones
<1> QED BY <1>1, Zenon DEF ClusterType, StartFailed

\* Edits of a typed StackitMachine status.
LEMMA ResTyped ==
  ASSUME NEW res \in InfraType
  PROVE  /\ \A b \in BOOLEAN : [res EXCEPT !.ready = b] \in InfraType
         /\ \A p \in Phases : [res EXCEPT !.phase = p] \in InfraType
         /\ \A ip \in Addresses :
              [res EXCEPT !.ip = ip, !.provisioned = TRUE] \in InfraType
BY Zenon DEF InfraType

\* ClusterStart keeps the types.
LEMMA ClusterStartTyped ==
  ASSUME TypeInv, ClusterStart PROVE TypeInv'
<1> USE DEF TypeInv, TypeOK
<1>1. faults' \in 0..MaxFaults
  BY FaultsTyped, Zenon DEF ClusterStart
<1>2. cw' \in ClusterWorkerType
  <2> DEFINE placed == [cluster EXCEPT !.zones = failureDomainsFromZones(mode.zones)]
  <2>1. placed \in ClusterType
    BY ObjTyped, ModeTyped, FailureDomainsTyped, Zenon
  <2>2. \/ ClusterGoto("ensureLB", [placed EXCEPT !.network = "True"])
        \/ ClusterGoto("bastion", [placed EXCEPT !.network = "True", !.balancer = "True"])
        \/ ClusterReturn(StartFailed(cluster), TRUE)
        \/ \E retryable \in BOOLEAN :
             ClusterReturn([placed EXCEPT !.ready = FALSE, !.network = "False"], retryable)
    BY Zenon DEF ClusterStart
  <2> HIDE DEF placed
  <2>3. "True" \in ConditionStatus /\ "False" \in ConditionStatus
    BY DEF ConditionStatus
  <2>4. /\ [placed EXCEPT !.network = "True"] \in ClusterType
        /\ [placed EXCEPT !.network = "True", !.balancer = "True"] \in ClusterType
        /\ [placed EXCEPT !.ready = FALSE, !.network = "False"] \in ClusterType
    BY <2>1, <2>3, ObjTyped, Zenon
  <2>5. StartFailed(cluster) \in ClusterType
    BY ObjTyped, Zenon
  <2> QED BY <2>2, <2>4, <2>5, GotoTyped, ReturnTyped, Zenon
<1> QED BY <1>1, <1>2, Zenon DEF ClusterStart, objectVars, cloudVars

\* EnsureAPIServerLoadBalancer keeps the types.
LEMMA EnsureLoadBalancerTyped ==
  ASSUME TypeInv, EnsureAPIServerLoadBalancer PROVE TypeInv'
<1> USE DEF TypeInv, TypeOK
<1> DEFINE targets == APIServerTargets(machineSeen)
<1> DEFINE seed == IF targets = {} THEN {BootstrapTarget(bootstrapTargetIP(mode.prefixes))}
                   ELSE targets
<1> DEFINE ensured == IF lb.state = "none" THEN [state |-> "creating", pool |-> seed] ELSE lb
<1> DEFINE notReady == [cw.obj EXCEPT !.ready = FALSE, !.balancer = "False"]
<1> DEFINE unlisted == [cw.obj EXCEPT !.balancer = "False"]
<1> DEFINE served == [cw.obj EXCEPT !.balancer = "True"]
<1>1. faults' \in 0..MaxFaults
  BY FaultsTyped, Zenon DEF EnsureAPIServerLoadBalancer
<1>2. targets \in SUBSET TargetType
  BY TargetsSound
<1>3. seed \in SUBSET TargetType
  BY <1>2, ModeTyped, PlaceholderAddress DEF BootstrapTarget, TargetType
<1>4. ensured \in LBType
  BY <1>3 DEF LBType
<1>5. notReady \in ClusterType /\ unlisted \in ClusterType /\ served \in ClusterType
  <2>1. "True" \in ConditionStatus /\ "False" \in ConditionStatus
    BY DEF ConditionStatus
  <2>2. cw.obj \in ClusterType
    BY DEF ClusterWorkerType
  <2> QED BY <2>1, <2>2, ObjTyped, Zenon
<1>6. lb' \in {lb, ensured}
  BY Zenon DEF EnsureAPIServerLoadBalancer
<1>7. \/ \E again \in BOOLEAN : ClusterReturn(notReady, again)
      \/ ClusterReturn(unlisted, TRUE)
      \/ cw' = [cw EXCEPT !.pc = "setTargets", !.targets = targets]
      \/ ClusterGoto("bastion", served)
  BY Zenon DEF EnsureAPIServerLoadBalancer
<1> HIDE DEF targets, seed, ensured, notReady, unlisted, served
<1>8. lb' \in LBType
  BY <1>4, <1>6
<1>9. cw' \in ClusterWorkerType
  <2>1. CASE cw' = [cw EXCEPT !.pc = "setTargets", !.targets = targets]
    BY <1>2, <2>1, Zenon DEF ClusterWorkerType
  <2> QED BY <1>5, <1>7, <2>1, ReturnTyped, GotoTyped, Zenon
<1> QED BY <1>1, <1>8, <1>9 DEF EnsureAPIServerLoadBalancer, objectVars

\* SetAPIServerLoadBalancerTargets keeps the types.
LEMMA SetTargetsTyped ==
  ASSUME TypeInv, SetAPIServerLoadBalancerTargets PROVE TypeInv'
<1> USE DEF TypeInv, TypeOK
<1>1. faults' \in 0..MaxFaults
  BY FaultsTyped, Zenon DEF SetAPIServerLoadBalancerTargets
<1>2. lb' \in {lb, [lb EXCEPT !.pool = cw.targets]}
  BY Zenon DEF SetAPIServerLoadBalancerTargets
<1>3. lb' \in LBType
  BY <1>2 DEF LBType, ClusterWorkerType
<1> DEFINE failed == [cw.obj EXCEPT !.balancer = "False"]
<1> DEFINE served == [cw.obj EXCEPT !.balancer = "True"]
<1>4. \/ ClusterReturn(failed, TRUE)
      \/ cw' = [cw EXCEPT !.pc = "bastion", !.obj = served, !.targets = {}]
  BY Zenon DEF SetAPIServerLoadBalancerTargets
<1>5. cw' \in ClusterWorkerType
  <2>1. "True" \in ConditionStatus /\ "False" \in ConditionStatus /\ cw.obj \in ClusterType
    BY DEF ConditionStatus, ClusterWorkerType
  <2>2. failed \in ClusterType /\ served \in ClusterType
    BY <2>1, ObjTyped, Zenon
  <2> HIDE DEF failed, served
  <2>3. CASE cw' = [cw EXCEPT !.pc = "bastion", !.obj = served, !.targets = {}]
    BY <2>2, <2>3, Zenon DEF ClusterWorkerType
  <2> QED BY <1>4, <2>2, <2>3, ReturnTyped, Zenon
<1> QED BY <1>1, <1>3, <1>5 DEF SetAPIServerLoadBalancerTargets, objectVars

\* ReconcileBastion keeps the types.
LEMMA ReconcileBastionTyped ==
  ASSUME TypeInv, ReconcileBastion PROVE TypeInv'
<1> USE DEF TypeInv, TypeOK
<1> DEFINE unread == [cw.obj EXCEPT !.ready = FALSE, !.reason = "CloudInitRefError"]
<1> DEFINE next == [cw EXCEPT !.data = content,
                      !.pc = IF bastionNeedsRecreate(cw.obj, content) THEN "revoke"
                             ELSE "ensureBastion"]
<1>1. faults' \in 0..MaxFaults
  BY FaultsTyped, Zenon DEF ReconcileBastion
<1>2. cw.obj \in ClusterType /\ "CloudInitRefError" \in Reasons
  BY DEF ClusterWorkerType, Reasons
<1>3. [cw.obj EXCEPT !.ready = TRUE] \in ClusterType /\ unread \in ClusterType
  BY <1>2, ObjTyped, Zenon
<1>4. next \in ClusterWorkerType
  BY Zenon DEF ClusterWorkerType
<1>5. \/ ClusterReturn([cw.obj EXCEPT !.ready = TRUE], FALSE)
      \/ ClusterGoto("revoke", cw.obj)
      \/ cw' = next
      \/ ClusterReturn(unread, FALSE)
  BY Zenon DEF ReconcileBastion
<1> HIDE DEF unread, next
<1>6. cw' \in ClusterWorkerType
  BY <1>2, <1>3, <1>4, <1>5, ReturnTyped, GotoTyped, Zenon
<1> QED BY <1>1, <1>6 DEF ReconcileBastion, objectVars, cloudVars

\* A failure of the bastion part returns a typed object.
LEMMA BastionFailedTyped ==
  ASSUME cw \in ClusterWorkerType, NEW retryable \in BOOLEAN, BastionFailed(retryable)
  PROVE  /\ cw' \in ClusterWorkerType
         /\ cw'.pc = "patch" /\ cw'.targets = {}
         /\ cw'.obj = [cw.obj EXCEPT !.ready = FALSE, !.reason = "BastionError"]
<1>1. cw.obj \in ClusterType
  BY DEF ClusterWorkerType
<1>2. [cw.obj EXCEPT !.ready = FALSE, !.reason = "BastionError"] \in ClusterType
  BY <1>1, ObjTyped, Zenon DEF Reasons
<1> QED BY <1>2, ReturnTyped, Zenon DEF BastionFailed

\* RevokeNodeSSHAccess keeps the types.
LEMMA RevokeTyped ==
  ASSUME TypeInv, RevokeNodeSSHAccess PROVE TypeInv'
<1> USE DEF TypeInv, TypeOK
<1>1. faults' \in 0..MaxFaults
  BY FaultsTyped DEF RevokeNodeSSHAccess, BastionCallFailed
<1>2. nodeGroup' \in NodeGroupType
  BY DEF RevokeNodeSSHAccess, NodeGroupType
<1>3. cw' \in ClusterWorkerType
  <2>1. cw.obj \in ClusterType
    BY DEF ClusterWorkerType
  <2> QED BY <2>1, GotoTyped, BastionFailedTyped DEF RevokeNodeSSHAccess, BastionCallFailed
<1> QED BY <1>1, <1>2, <1>3 DEF RevokeNodeSSHAccess, objectVars

\* DeleteNodeSSHAccess keeps the types.
LEMMA DeleteGroupTyped ==
  ASSUME TypeInv, DeleteNodeSSHAccess PROVE TypeInv'
<1> USE DEF TypeInv, TypeOK
<1>1. faults' \in 0..MaxFaults
  BY FaultsTyped DEF DeleteNodeSSHAccess, BastionCallFailed
<1>2. nodeGroup' \in {nodeGroup, [nodeGroup EXCEPT !.rules = {}], NoNodeGroup}
  BY DEF DeleteNodeSSHAccess
<1>3. nodeGroup' \in NodeGroupType
  BY <1>2, IdleTyped DEF NodeGroupType
<1>4. (\E retryable \in BOOLEAN : BastionFailed(retryable))
      \/ ClusterGoto("deleteBastion", cw.obj)
  BY DEF DeleteNodeSSHAccess, BastionCallFailed
<1>5. cw' \in ClusterWorkerType
  <2>1. cw.obj \in ClusterType
    BY DEF ClusterWorkerType
  <2> QED BY <1>4, <2>1, GotoTyped, BastionFailedTyped
<1> QED BY <1>1, <1>3, <1>5 DEF DeleteNodeSSHAccess, objectVars

\* DeleteBastion keeps the types.
LEMMA DeleteBastionTyped ==
  ASSUME TypeInv, DeleteBastion PROVE TypeInv'
<1> USE DEF TypeInv, TypeOK
<1> DEFINE cleared == [cw.obj EXCEPT !.group = NoGroup, !.hash = 0]
<1>1. faults' \in 0..MaxFaults
  BY FaultsTyped, Zenon DEF DeleteBastion, BastionCallFailed
<1>2. bastion' \in {bastion, NoGroup}
  BY Zenon DEF DeleteBastion
<1>3. cleared \in ClusterType
  BY ObjTyped, Zenon DEF ClusterWorkerType
<1>4. \/ \E retryable \in BOOLEAN : BastionFailed(retryable)
      \/ ClusterReturn([cleared EXCEPT !.reason = "Recreating", !.ready = FALSE], TRUE)
      \/ ClusterReturn([cleared EXCEPT !.reason = "Skipped", !.ready = TRUE], FALSE)
  BY Zenon DEF DeleteBastion, BastionCallFailed
<1> HIDE DEF cleared
<1>5. /\ [cleared EXCEPT !.reason = "Recreating", !.ready = FALSE] \in ClusterType
      /\ [cleared EXCEPT !.reason = "Skipped", !.ready = TRUE] \in ClusterType
  BY <1>3, Zenon DEF ClusterType, Reasons
<1>6. cw' \in ClusterWorkerType
  BY <1>4, <1>5, ReturnTyped, BastionFailedTyped, Zenon
<1> QED BY <1>1, <1>2, <1>6 DEF DeleteBastion, objectVars

\* EnsureBastion keeps the types.
LEMMA EnsureBastionTyped ==
  ASSUME TypeInv, EnsureBastion PROVE TypeInv'
<1> USE DEF TypeInv, TypeOK
<1> DEFINE ensured == IF bastion = NoGroup THEN lastBastion + 1 ELSE bastion
<1>1. faults' \in 0..MaxFaults
  BY FaultsTyped, Zenon DEF EnsureBastion, BastionCallFailed
<1>2. ensured \in BastionIDs
  BY NodesAssumption DEF EnsureBastion, BastionIDs, NoGroup
<1>3. bastion' \in {bastion, ensured}
  BY Zenon DEF EnsureBastion
<1> DEFINE recorded == [cw.obj EXCEPT !.group = ensured, !.hash = cw.data]
<1>4. \/ \E retryable \in BOOLEAN : BastionFailed(retryable)
      \/ ClusterReturn([recorded EXCEPT !.reason = "Available", !.ready = TRUE], FALSE)
      \/ ClusterReturn([recorded EXCEPT !.reason = "Provisioning", !.ready = FALSE], TRUE)
  BY Zenon DEF EnsureBastion, BastionCallFailed
<1>5. /\ [recorded EXCEPT !.reason = "Available", !.ready = TRUE] \in ClusterType
      /\ [recorded EXCEPT !.reason = "Provisioning", !.ready = FALSE] \in ClusterType
  <2> HIDE DEF ensured
  <2>1. recorded \in ClusterType
    BY <1>2, Zenon DEF ClusterWorkerType, ClusterType
  <2> HIDE DEF recorded
  <2> QED BY <2>1, Zenon DEF ClusterType, Reasons
<1> HIDE DEF ensured, recorded
<1>6. cw' \in ClusterWorkerType
  BY <1>4, <1>5, ReturnTyped, BastionFailedTyped, Zenon
<1>7. /\ bastion' \in BastionIDs \cup {NoGroup}
      /\ lastBastion' \in BastionIDs \cup {NoGroup}
  BY <1>2, <1>3 DEF EnsureBastion
<1> QED BY <1>1, <1>6, <1>7 DEF EnsureBastion, objectVars

\* ClusterPatch keeps the types.
LEMMA ClusterPatchTyped ==
  ASSUME TypeInv, ClusterPatch PROVE TypeInv'
<1> USE DEF TypeInv, TypeOK
<1>1. faults' \in 0..MaxFaults
  BY FaultsTyped DEF ClusterPatch
<1>2. cluster' \in {cluster, [cw.obj EXCEPT !.enabled = cluster.enabled]}
  BY DEF ClusterPatch
<1>3. cluster' \in ClusterType
  BY <1>2 DEF ClusterWorkerType, ClusterType
<1>4. clusterQueue' \in BOOLEAN /\ clusterNews' \in BOOLEAN
  BY Zenon DEF ClusterPatch
<1>5. cw' \in ClusterWorkerType
  BY IdleTyped DEF ClusterPatch
<1> QED BY <1>1, <1>3, <1>4, <1>5 DEF ClusterPatch, cloudVars

\* MachineStart keeps the types.
LEMMA MachineStartTyped ==
  ASSUME TypeInv, NEW m \in Machines, MachineStart(m) PROVE TypeInv'
<1> USE DEF TypeInv, TypeOK
<1> DEFINE start == [pc |-> "server", m |-> m, obj |-> clusterSeen, res |-> infra[m],
                     again |-> FALSE]
<1> DEFINE notReady == [infra[m] EXCEPT !.ready = FALSE]
<1>1. faults' \in 0..MaxFaults
  <2>1. Fault \/ NoFault
    BY DEF MachineStart, NoFault
  <2> QED BY <2>1, FaultsTyped
<1>2. infra[m] \in InfraType /\ notReady \in InfraType
  BY ResTyped, Zenon
<1>3. start \in MachineWorkerType /\ start.m = m
  BY <1>2 DEF MachineWorkerType
<1>4. mw' \in {mw, start, [start EXCEPT !.pc = "destroy"],
               [start EXCEPT !.pc = "patch", !.res = notReady, !.again = FALSE],
               [start EXCEPT !.pc = "patch", !.res = infra[m], !.again = TRUE]}
  BY Zenon DEF MachineStart
<1> HIDE DEF start, notReady
<1>5. mw' = mw \/ (mw' \in MachineWorkerType /\ mw'.m = m
                   /\ mw'.pc \in {"server", "destroy", "patch"})
  <2>1. start.pc = "server"
    BY DEF start
  <2>2. CASE mw' = [start EXCEPT !.pc = "destroy"]
    BY <1>3, <2>2 DEF MachineWorkerType
  <2>3. CASE mw' = [start EXCEPT !.pc = "patch", !.res = notReady, !.again = FALSE]
    BY <1>2, <1>3, <2>3, Zenon DEF MachineWorkerType
  <2>4. CASE mw' = [start EXCEPT !.pc = "patch", !.res = infra[m], !.again = TRUE]
    BY <1>2, <1>3, <2>4, Zenon DEF MachineWorkerType
  <2> QED BY <1>3, <1>4, <2>1, <2>2, <2>3, <2>4
<1>6. machineQueue' \subseteq Machines
  BY DEF MachineStart
<1> QED BY <1>1, <1>5, <1>6 DEF MachineStart, objectVars, cloudVars

\* What is made of a server leaves the machine worker typed.
LEMMA ServerFoundTyped ==
  ASSUME TypeInv, mw.pc # "idle", NEW srv, NEW ip \in Addresses, ServerFound(srv, ip)
  PROVE  /\ mw' \in MachineWorkerType /\ mw'.m = mw.m
         /\ mw'.pc \in {"group", "patch"}
         /\ mw'.pc = "group" => mw'.obj.group \in BastionIDs
<1> USE DEF TypeInv, TypeOK
<1> DEFINE res == [mw.res EXCEPT !.ip = ip, !.provisioned = TRUE]
<1>1. res \in InfraType
  BY ResTyped, Zenon DEF MachineWorkerType
<1>2. \/ MachineReturn([res EXCEPT !.ready = FALSE], TRUE)
      \/ MachineReturn([res EXCEPT !.ready = TRUE], FALSE)
      \/ mw.obj.group # NoGroup /\ mw' = [mw EXCEPT !.pc = "group", !.res = res]
  BY Zenon DEF ServerFound
<1> HIDE DEF res
<1>3. [res EXCEPT !.ready = FALSE] \in InfraType /\ [res EXCEPT !.ready = TRUE] \in InfraType
  BY <1>1, ResTyped, Zenon
<1>4. CASE mw.obj.group # NoGroup /\ mw' = [mw EXCEPT !.pc = "group", !.res = res]
  BY <1>1, <1>4, Zenon DEF MachineWorkerType, ViewType
<1> QED BY <1>2, <1>3, <1>4, MachineReturnTyped, Zenon

\* A failed machine reconcile leaves the machine worker typed.
LEMMA MachineFailedTyped ==
  ASSUME mw \in MachineWorkerType, MachineFailed
  PROVE  mw' \in MachineWorkerType /\ mw'.m = mw.m /\ mw'.pc = "patch"
<1>1. [mw.res EXCEPT !.ready = FALSE] \in InfraType
  BY ResTyped, Zenon DEF MachineWorkerType
<1> QED BY <1>1, MachineReturnTyped, Zenon DEF MachineFailed

\* The zone a server is created in is a zone.
LEMMA ZoneTyped ==
  ASSUME mode \in Modes, NEW m \in Machines, NEW obj \in ViewType
  PROVE  AvailabilityZone(m, obj) \in Zones
<1>1. obj.zones \in SUBSET Zones
  BY DEF ViewType
<1>2. Zones \subseteq Nat /\ stackitFailureDomains \subseteq Zones /\ stackitFailureDomains # {}
  BY DEF Zones, stackitFailureDomains, MetroZones
<1>3. obj.zones # {} => Min(obj.zones) \in Zones
  BY <1>1, <1>2, MinIsElement
<1>4. Min(stackitFailureDomains) \in Zones
  BY <1>2, MinIsElement, Zenon
<1> QED BY <1>3, <1>4, ModeTyped DEF AvailabilityZone

\* EnsureServer keeps the types.
LEMMA EnsureServerTyped ==
  ASSUME TypeInv, EnsureServer PROVE TypeInv'
<1> USE DEF TypeInv, TypeOK
<1> DEFINE m == mw.m
<1> DEFINE created(ip) == [state |-> "creating", ip |-> ip, zone |-> AvailabilityZone(m, mw.obj)]
<1> DEFINE candidates == IF server[m].state # "none" THEN {server[m]}
                         ELSE {created(ip) : ip \in FreeIPs}
<1>1. mw.pc = "server" /\ m \in Machines
  BY DEF EnsureServer
<1>2. Fault \/ NoFault
  BY Zenon DEF EnsureServer, NoFault
<1>3. faults' \in 0..MaxFaults
  BY <1>2, FaultsTyped
<1>4. candidates \in SUBSET ServerType
  <2>1. AvailabilityZone(m, mw.obj) \in Zones
    BY <1>1, ZoneTyped DEF MachineWorkerType
  <2>2. \A ip \in FreeIPs : created(ip) \in ServerType
    BY <2>1, ModeTyped DEF FreeIPs, ServerType, Addresses
  <2> QED BY <1>1, <2>2
<1>5. \/ UNCHANGED server /\ MachineReturn([mw.res EXCEPT !.ready = FALSE], FALSE)
      \/ UNCHANGED server /\ MachineFailed
      \/ \E srv \in candidates :
           /\ server' = [server EXCEPT ![m] = srv]
           /\ ServerFound(srv, srv.ip) \/ ServerFound(srv, NoIP) \/ MachineFailed
  BY Zenon DEF EnsureServer
<1> HIDE DEF candidates
<1>6. /\ mw' \in MachineWorkerType /\ mw'.m = m
      /\ mw'.pc \in {"group", "patch"}
      /\ mw'.pc = "group" => mw'.obj.group \in BastionIDs
      /\ server' \in [Machines -> ServerType]
  <2>1. CASE UNCHANGED server /\ MachineReturn([mw.res EXCEPT !.ready = FALSE], FALSE)
    BY <2>1, ResTyped, MachineReturnTyped, Zenon DEF MachineWorkerType
  <2>2. CASE UNCHANGED server /\ MachineFailed
    BY <2>2, MachineFailedTyped
  <2>3. ASSUME NEW srv \in candidates,
               server' = [server EXCEPT ![m] = srv],
               ServerFound(srv, srv.ip) \/ ServerFound(srv, NoIP) \/ MachineFailed
        PROVE  /\ mw' \in MachineWorkerType /\ mw'.m = m
               /\ mw'.pc \in {"group", "patch"}
               /\ mw'.pc = "group" => mw'.obj.group \in BastionIDs
               /\ server' \in [Machines -> ServerType]
    <3>1. srv \in ServerType
      BY <1>4
    <3>2. srv.ip \in Addresses /\ NoIP \in Addresses
      BY <3>1 DEF ServerType, Addresses
    <3>3. server' \in [Machines -> ServerType]
      BY <2>3, <3>1, Zenon
    <3> QED BY <1>1, <2>3, <3>2, <3>3, ServerFoundTyped, MachineFailedTyped
  <2> QED BY <1>5, <2>1, <2>2, <2>3, Zenon
<1> QED BY <1>1, <1>3, <1>6 DEF EnsureServer, objectVars

\* A step of EnsureNodeSSHAccess keeps the types.
LEMMA AccessTyped ==
  ASSUME TypeInv, NEW pc \in {"group", "rule", "attach"}, NEW next \in {"rule", "attach", "patch"},
         NEW done \in NodeGroupType, NEW ok, NodeAccessStep(pc, next, done, ok)
  PROVE  TypeInv'
<1> USE DEF TypeInv, TypeOK
<1>1. faults' \in 0..MaxFaults
  BY FaultsTyped, Zenon DEF NodeAccessStep
<1>2. nodeGroup' \in NodeGroupType
  BY Zenon DEF NodeAccessStep
<1>3. mw.pc = pc /\ mw.m \in Machines /\ mw.obj.group \in BastionIDs
  BY DEF NodeAccessStep
<1>4. \/ MachineFailed
      \/ MachineReturn([mw.res EXCEPT !.ready = TRUE], FALSE)
      \/ mw' = [mw EXCEPT !.pc = next]
  BY Zenon DEF NodeAccessStep
<1>5. CASE MachineFailed
  BY <1>1, <1>2, <1>3, <1>5, MachineFailedTyped DEF NodeAccessStep, objectVars
<1>6. CASE MachineReturn([mw.res EXCEPT !.ready = TRUE], FALSE)
  <2>1. [mw.res EXCEPT !.ready = TRUE] \in InfraType
    BY ResTyped, Zenon DEF MachineWorkerType
  <2> QED BY <1>1, <1>2, <1>3, <1>6, <2>1, MachineReturnTyped, Zenon DEF NodeAccessStep, objectVars
<1>7. CASE mw' = [mw EXCEPT !.pc = next]
  <2>1. mw' \in MachineWorkerType /\ mw'.m = mw.m /\ mw'.obj = mw.obj
    BY <1>7 DEF MachineWorkerType
  <2> QED BY <1>1, <1>2, <1>3, <2>1 DEF NodeAccessStep, objectVars
<1> QED BY <1>4, <1>5, <1>6, <1>7, Zenon

\* The three steps of EnsureNodeSSHAccess keep the types.
LEMMA NodeAccessTyped ==
  ASSUME TypeInv,
         \/ ensureNodeSSHSecurityGroup
         \/ ensureNodeSSHSecurityGroupRule
         \/ addSecurityGroupToServer
  PROVE  TypeInv'
<1>1. CASE ensureNodeSSHSecurityGroup
  <2>1. [nodeGroup EXCEPT !.exists = TRUE] \in NodeGroupType
    BY Zenon DEF TypeInv, TypeOK, NodeGroupType
  <2> QED BY <1>1, <2>1, AccessTyped, Zenon DEF ensureNodeSSHSecurityGroup
<1>2. CASE ensureNodeSSHSecurityGroupRule
  <2> DEFINE done == IF nodeGroup.exists
                     THEN [nodeGroup EXCEPT !.rules = @ \cup {mw.obj.group}] ELSE nodeGroup
  <2>1. mw.pc = "rule" /\ NodeAccessStep("rule", "attach", done, nodeGroup.exists)
    BY <1>2 DEF ensureNodeSSHSecurityGroupRule, NodeAccessStep
  <2>2. mw.obj.group \in BastionIDs
    BY <2>1 DEF TypeInv
  <2>3. done \in NodeGroupType
    BY <2>2 DEF TypeInv, TypeOK, NodeGroupType
  <2> HIDE DEF done
  <2> QED BY <2>1, <2>3, AccessTyped
<1>3. CASE addSecurityGroupToServer
  <2> DEFINE done == IF nodeGroup.exists /\ server[mw.m].state # "none"
                     THEN [nodeGroup EXCEPT !.attached = @ \cup {mw.m}] ELSE nodeGroup
  <2>1. mw.pc = "attach" /\ NodeAccessStep("attach", "patch", done, TRUE)
    BY <1>3, Zenon DEF addSecurityGroupToServer, NodeAccessStep
  <2>2. mw.m \in Machines
    BY <2>1 DEF TypeInv
  <2>3. done \in NodeGroupType
    BY <2>2 DEF TypeInv, TypeOK, NodeGroupType
  <2> HIDE DEF done
  <2> QED BY <2>1, <2>3, AccessTyped, Zenon
<1> QED BY <1>1, <1>2, <1>3

\* DestroyServer keeps the types.
LEMMA DestroyServerTyped ==
  ASSUME TypeInv, DestroyServer PROVE TypeInv'
<1> USE DEF TypeInv, TypeOK
<1>1. faults' \in 0..MaxFaults
  BY FaultsTyped DEF DestroyServer
<1>2. mw.m \in Machines
  BY DEF DestroyServer
<1>3. server' \in [Machines -> ServerType]
  <2>1. server' \in {server, [server EXCEPT ![mw.m] = NoServer]}
    BY DEF DestroyServer
  <2> QED BY <2>1, IdleTyped
<1>4. infra' \in [Machines -> InfraType]
  <2>1. infra' \in {infra, [infra EXCEPT ![mw.m].phase = "gone"]}
    BY DEF DestroyServer
  <2>2. [infra[mw.m] EXCEPT !.phase = "gone"] \in InfraType
    BY <1>2, ResTyped, Zenon DEF Phases
  <2> QED BY <1>2, <2>1, <2>2
<1>5. nodeGroup' \in NodeGroupType
  <2>1. nodeGroup' \in {nodeGroup, [nodeGroup EXCEPT !.attached = @ \ {mw.m}]}
    BY DEF DestroyServer
  <2> QED BY <2>1 DEF NodeGroupType
<1>6. machineQueue' \subseteq Machines
  BY <1>2 DEF DestroyServer
<1>7. mw' \in MachineWorkerType /\ mw'.pc = "idle"
  BY IdleTyped DEF DestroyServer, IdleMachine
<1> QED BY <1>1, <1>3, <1>4, <1>5, <1>6, <1>7 DEF DestroyServer

\* MachinePatch keeps the types.
LEMMA MachinePatchTyped ==
  ASSUME TypeInv, MachinePatch PROVE TypeInv'
<1> USE DEF TypeInv, TypeOK
<1> DEFINE new == [mw.res EXCEPT !.phase = infra[mw.m].phase]
<1>1. faults' \in 0..MaxFaults
  BY FaultsTyped DEF MachinePatch
<1>2. mw.m \in Machines
  BY DEF MachinePatch
<1>3. infra' \in [Machines -> InfraType]
  <2>1. infra' \in {infra, [infra EXCEPT ![mw.m] = new]}
    BY DEF MachinePatch
  <2>2. infra[mw.m].phase \in Phases /\ mw.res \in InfraType
    BY <1>2 DEF InfraType, MachineWorkerType
  <2>3. new \in InfraType
    BY <2>2, ResTyped, Zenon
  <2> HIDE DEF new
  <2> QED BY <2>1, <2>3
<1>4. machineQueue' \subseteq Machines
  BY <1>2 DEF MachinePatch
<1>5. mw' \in MachineWorkerType /\ mw'.pc = "idle"
  BY IdleTyped DEF MachinePatch, IdleMachine
<1> QED BY <1>1, <1>3, <1>4, <1>5 DEF MachinePatch, cloudVars

\* The informers keep the types.
LEMMA SyncTyped ==
  ASSUME TypeInv, SyncCluster \/ \E m \in Machines : SyncMachine(m) PROVE TypeInv'
<1> USE DEF TypeInv, TypeOK
<1>1. CASE SyncCluster
  <2>1. clusterSeen' \in ViewType /\ clusterNews' \in BOOLEAN /\ clusterQueue' \in BOOLEAN
    BY <1>1, ViewTyped, Zenon DEF SyncCluster
  <2>2. machineQueue' \subseteq Machines
    BY <1>1 DEF SyncCluster, stackitMachineRequestsForStackitCluster
  <2> QED BY <1>1, <2>1, <2>2 DEF SyncCluster, cloudVars, budgetVars
<1>2. ASSUME NEW m \in Machines, SyncMachine(m) PROVE TypeInv'
  <2>1. machineSeen' \in [Machines -> MachineType] /\ machineQueue' \subseteq Machines
    BY <1>2 DEF SyncMachine
  <2>2. clusterQueue' \in BOOLEAN
    BY <1>2 DEF SyncMachine
  <2> QED BY <1>2, <2>1, <2>2 DEF SyncMachine, cloudVars, budgetVars
<1> QED BY <1>1, <1>2

\* Cluster API keeps the types.
LEMMA MachinesTyped ==
  ASSUME TypeInv, NEW m \in Machines,
         \/ CreateMachine(m) \/ DeleteMachine(m) \/ PublishAddresses(m)
         \/ DeleteInfra(m) \/ RemoveMachine(m)
  PROVE  TypeInv'
<1> USE DEF TypeInv, TypeOK
<1>1. ASSUME NEW p \in Phases
      PROVE  /\ [machine EXCEPT ![m].phase = p] \in [Machines -> MachineType]
             /\ [infra EXCEPT ![m].phase = p] \in [Machines -> InfraType]
  <2>1. [machine[m] EXCEPT !.phase = p] \in MachineType
    BY DEF MachineType
  <2>2. [infra[m] EXCEPT !.phase = p] \in InfraType
    BY ResTyped, Zenon
  <2> QED BY <2>1, <2>2
<1>2. {"active", "deleting", "gone"} \subseteq Phases
  BY DEF Phases
<1>3. CASE CreateMachine(m)
  <2>1. /\ machine' \in [Machines -> MachineType] /\ infra' \in [Machines -> InfraType]
        /\ machineQueue' \subseteq Machines
    BY <1>1, <1>2, <1>3 DEF CreateMachine
  <2> QED BY <1>3, <2>1 DEF CreateMachine, cloudVars, budgetVars
<1>4. CASE DeleteMachine(m)
  <2>1. machine' \in [Machines -> MachineType] /\ edits' \in 0..MaxEdits
    BY <1>1, <1>2, <1>4, EditsTyped, Zenon DEF DeleteMachine
  <2> QED BY <1>4, <2>1 DEF DeleteMachine, cloudVars, workVars
<1>5. CASE PublishAddresses(m)
  <2> DEFINE new == [machine[m] EXCEPT !.provisioned = TRUE,
                       !.ip = IF infra[m].ip = NoIP THEN @ ELSE infra[m].ip]
  <2>1. infra[m].ip \in Addresses /\ machine[m] \in MachineType
    BY DEF InfraType
  <2>2. new \in MachineType
    BY <2>1, Zenon DEF MachineType
  <2>3. machine' = [machine EXCEPT ![m] = new]
    BY <1>5 DEF PublishAddresses
  <2> HIDE DEF new
  <2>4. machine' \in [Machines -> MachineType]
    BY <2>2, <2>3
  <2> QED BY <1>5, <2>4 DEF PublishAddresses, cloudVars, workVars, budgetVars
<1>6. CASE DeleteInfra(m)
  <2>1. infra' \in [Machines -> InfraType] /\ machineQueue' \subseteq Machines
    BY <1>1, <1>2, <1>6, Zenon DEF DeleteInfra
  <2> QED BY <1>6, <2>1 DEF DeleteInfra, cloudVars, budgetVars
<1>7. CASE RemoveMachine(m)
  <2>1. machine' \in [Machines -> MachineType]
    BY <1>1, <1>2, <1>7, Zenon DEF RemoveMachine
  <2> QED BY <1>7, <2>1 DEF RemoveMachine, cloudVars, workVars, budgetVars
<1> QED BY <1>3, <1>4, <1>5, <1>6, <1>7

\* The cloud keeps the types.
LEMMA CloudTyped ==
  ASSUME TypeInv,
         \/ LoadBalancerReady \/ LoadBalancerLost
         \/ \E m \in Machines : ServerActive(m) \/ ServerLost(m)
  PROVE  TypeInv'
<1> USE DEF TypeInv, TypeOK
<1>1. CASE LoadBalancerReady
  <2>1. lb' \in LBType
    BY <1>1 DEF LoadBalancerReady, LBType
  <2> QED BY <1>1, <2>1 DEF LoadBalancerReady, objectVars, workVars, budgetVars
<1>2. CASE LoadBalancerLost
  <2>1. lb' \in LBType /\ edits' \in 0..MaxEdits
    BY <1>2, IdleTyped, EditsTyped DEF LoadBalancerLost
  <2> QED BY <1>2, <2>1 DEF LoadBalancerLost, objectVars, workVars
<1>3. ASSUME NEW m \in Machines, ServerActive(m) PROVE TypeInv'
  <2>1. [server[m] EXCEPT !.state = "active"] \in ServerType
    BY DEF ServerType
  <2>2. server' \in [Machines -> ServerType]
    BY <1>3, <2>1 DEF ServerActive
  <2> QED BY <1>3, <2>2 DEF ServerActive, objectVars, workVars, budgetVars
<1>4. ASSUME NEW m \in Machines, ServerLost(m) PROVE TypeInv'
  <2>1. server' \in [Machines -> ServerType] /\ edits' \in 0..MaxEdits
    BY <1>4, IdleTyped, EditsTyped DEF ServerLost
  <2>2. nodeGroup' \in NodeGroupType
    BY <1>4 DEF ServerLost, NodeGroupType
  <2> QED BY <1>4, <2>1, <2>2 DEF ServerLost, objectVars, workVars
<1> QED BY <1>1, <1>2, <1>3, <1>4

\* The user and the manager's restart keep the types.
LEMMA UserTyped ==
  ASSUME TypeInv, ToggleBastion \/ EditCloudInit \/ Restart PROVE TypeInv'
<1> USE DEF TypeInv, TypeOK
<1>1. CASE ToggleBastion
  <2>1. cluster' \in ClusterType
    BY <1>1, Zenon DEF ToggleBastion, ClusterType
  <2>2. clusterNews' \in BOOLEAN /\ edits' \in 0..MaxEdits
    BY <1>1, EditsTyped DEF ToggleBastion
  <2> QED BY <1>1, <2>1, <2>2 DEF ToggleBastion, cloudVars, workVars
<1>2. CASE EditCloudInit
  <2>1. edits' \in 0..MaxEdits /\ clusterQueue' \in BOOLEAN
    BY <1>2, EditsTyped DEF EditCloudInit
  <2>2. content' \in {1, 2}
    BY <1>2 DEF EditCloudInit
  <2> QED BY <1>2, <2>1, <2>2 DEF EditCloudInit, cloudVars
<1>3. CASE Restart
  <2>1. faults' \in 0..MaxFaults
    BY <1>3, FaultsTyped DEF Restart
  <2>2. /\ cw' \in ClusterWorkerType /\ mw' \in MachineWorkerType /\ mw'.pc = "idle"
        /\ clusterSeen' \in ViewType
    BY <1>3, IdleTyped, ViewTyped DEF Restart, IdleMachine
  <2>3. machineQueue' \subseteq Machines
    BY <1>3 DEF Restart
  <2> QED BY <1>3, <2>1, <2>2, <2>3, Zenon DEF Restart, cloudVars
<1> QED BY <1>1, <1>2, <1>3

\* Types hold initially.
LEMMA InitTyped == Init => TypeInv
<1> SUFFICES ASSUME Init PROVE TypeInv
  OBVIOUS
<1>1. mode \in Modes /\ mode.bastion \in BOOLEAN
  BY ModeTyped DEF Init
<1>2. cluster \in ClusterType /\ clusterSeen \in ViewType
  BY <1>1, IdleTyped, ViewTyped DEF Init
<1>3. /\ machine \in [Machines -> MachineType] /\ machineSeen \in [Machines -> MachineType]
      /\ infra \in [Machines -> InfraType] /\ server \in [Machines -> ServerType]
  BY IdleTyped DEF Init
<1>4. lb \in LBType /\ nodeGroup \in NodeGroupType
  BY IdleTyped DEF Init
<1>5. cw \in ClusterWorkerType /\ mw \in MachineWorkerType /\ mw.pc = "idle"
  BY IdleTyped DEF Init, IdleMachine
<1>6. faults \in 0..MaxFaults /\ edits \in 0..MaxEdits
  BY NodesAssumption DEF Init
<1> QED BY <1>1, <1>2, <1>3, <1>4, <1>5, <1>6, Zenon DEF Init, TypeInv, TypeOK

\* Every step keeps the types.
LEMMA NextTyped == TypeInv /\ [Next]_vars => TypeInv'
<1> SUFFICES ASSUME TypeInv, [Next]_vars PROVE TypeInv'
  OBVIOUS
<1>1. CASE ClusterStep
  BY <1>1, ClusterStartTyped, EnsureLoadBalancerTyped, SetTargetsTyped,
     ReconcileBastionTyped, RevokeTyped, DeleteGroupTyped, DeleteBastionTyped,
     EnsureBastionTyped, ClusterPatchTyped DEF ClusterStep
<1>2. CASE MachineStep
  BY <1>2, MachineStartTyped, EnsureServerTyped, NodeAccessTyped, DestroyServerTyped,
     MachinePatchTyped DEF MachineStep
<1>3. CASE SyncCluster \/ \E m \in Machines : SyncMachine(m)
  BY <1>3, SyncTyped
<1>4. CASE \E m \in Machines : Progress(m) \/ CreateMachine(m) \/ DeleteMachine(m)
  BY <1>4, MachinesTyped, CloudTyped DEF Progress
<1>5. CASE LoadBalancerReady \/ LoadBalancerLost \/ \E m \in Machines : ServerLost(m)
  BY <1>5, CloudTyped
<1>6. CASE ToggleBastion \/ EditCloudInit \/ Restart
  BY <1>6, UserTyped
<1>7. CASE UNCHANGED vars
  BY <1>7 DEF TypeInv, TypeOK, vars, objectVars, cloudVars, workVars, budgetVars
<1> QED BY <1>1, <1>2, <1>3, <1>4, <1>5, <1>6, <1>7 DEF Next

\* The types and what the machine worker has read hold in every state.
THEOREM TypesHold == Spec => []TypeInv
BY InitTyped, NextTyped, PTL DEF Spec

\* Both reconcilers, the informers, Cluster API and the cloud keep every
\* variable within its type, in particular every target a name and an address
\* of the network (APIServerTargets skips Machines that have none).
THEOREM TypeCorrect == Spec => []TypeOK
<1>1. TypeInv => TypeOK
  BY DEF TypeInv
<1> QED BY <1>1, TypesHold, PTL

-----------------------------------------------------------------------------
(* The target pool: no address twice, a placeholder inside the network,    *)
(* never emptied.                                                          *)

\* What the pool and the targets of a reconcile under way contain: no address
\* twice, no placeholder among the targets of Machines, a placeholder of the
\* pool inside the network; only a list that is not empty is about to replace
\* the pool, and only an existing load balancer has one.
PoolInv ==
  /\ PoolAddressesDistinct
  /\ PlaceholderInNetwork
  /\ \A t, u \in cw.targets : t.ip = u.ip => t = u
  /\ \A t \in cw.targets : t.name # BootstrapTargetName
  /\ cw.pc = "setTargets" => cw.targets # {}
  /\ lb.state = "none" => lb.pool = {}

\* Steps that leave the load balancer alone and only pass on or drop targets.
LEMMA PoolFrame ==
  ASSUME PoolInv, UNCHANGED <<lb, mode>>,
         \/ UNCHANGED cw
         \/ cw'.targets \in {{}, cw.targets} /\ cw'.pc # "setTargets"
  PROVE  PoolInv'
<1> USE DEF PoolInv
<1>1. PoolAddressesDistinct' /\ PlaceholderInNetwork'
  BY DEF PoolAddressesDistinct, PlaceholderInNetwork
<1> QED BY <1>1

\* A pool of the targets of Machines, no address twice, is a good one.
LEMMA PoolReplaced ==
  ASSUME \A t, u \in lb'.pool : t.ip = u.ip => t = u,
         \A t \in lb'.pool : t.name # BootstrapTargetName
  PROVE  PoolAddressesDistinct' /\ PlaceholderInNetwork'
BY DEF PoolAddressesDistinct, PlaceholderInNetwork

\* The names of the targets are those of Machines.
LEMMA TargetsNamed ==
  ASSUME NEW list \in [Machines -> MachineType]
  PROVE  \A t \in APIServerTargets(list) : t.name # BootstrapTargetName
BY TargetsSound, NodesAssumption DEF BootstrapTargetName

\* EnsureAPIServerLoadBalancer keeps the pool in order, and a load balancer
\* that exists keeps its pool.
LEMMA EnsureLoadBalancerPool ==
  ASSUME TypeInv, PoolInv, EnsureAPIServerLoadBalancer
  PROVE  PoolInv' /\ (lb.state # "none" => lb' = lb)
<1> DEFINE targets == APIServerTargets(machineSeen)
<1> DEFINE placeholder == BootstrapTarget(bootstrapTargetIP(mode.prefixes))
<1> DEFINE seed == IF targets = {} THEN {placeholder} ELSE targets
<1> DEFINE ensured == IF lb.state = "none" THEN [state |-> "creating", pool |-> seed] ELSE lb
<1>1. /\ \A t, u \in targets : t.ip = u.ip => t = u
      /\ \A t \in targets : t.name # BootstrapTargetName
  BY TargetsSound, TargetsNamed DEF TypeInv, TypeOK
<1>2. lb' \in {lb, ensured} /\ mode' = mode
  BY Zenon DEF EnsureAPIServerLoadBalancer
<1>3. /\ cw.pc = "ensureLB"
      /\ \/ \E obj, again : ClusterReturn(obj, again)
         \/ targets # {} /\ cw' = [cw EXCEPT !.pc = "setTargets", !.targets = targets]
         \/ \E obj : ClusterGoto("bastion", obj)
  BY Zenon DEF EnsureAPIServerLoadBalancer, UpdatesPool
<1>4. cw \in ClusterWorkerType
  BY DEF TypeInv, TypeOK
<1>5. /\ placeholder.name = BootstrapTargetName
      /\ placeholder.ip = bootstrapTargetIP(mode.prefixes)
  BY DEF BootstrapTarget
<1>6. mode.prefixes \in Seq(Prefixes)
  BY ModeTyped DEF TypeInv, TypeOK
<1> HIDE DEF targets, placeholder
<1>7. /\ cw'.targets \in {{}, cw.targets, targets}
      /\ cw'.pc = "setTargets" => cw'.targets # {}
  <2>1. ASSUME NEW obj, NEW again, ClusterReturn(obj, again)
        PROVE  cw'.targets = {} /\ cw'.pc = "patch"
    BY <1>4, <2>1 DEF ClusterReturn, ClusterWorkerType
  <2>2. ASSUME NEW obj, ClusterGoto("bastion", obj)
        PROVE  cw'.targets = cw.targets /\ cw'.pc = "bastion"
    BY <1>4, <2>2 DEF ClusterGoto, ClusterWorkerType
  <2>3. ASSUME cw' = [cw EXCEPT !.pc = "setTargets", !.targets = targets]
        PROVE  cw'.targets = targets
    BY <1>4, <2>3 DEF ClusterWorkerType
  <2> QED BY <1>3, <2>1, <2>2, <2>3
<1>8. CASE lb.state # "none" \/ lb' = lb
  <2>1. lb' = lb
    BY <1>2, <1>8
  <2>2. PoolAddressesDistinct' /\ PlaceholderInNetwork'
    BY <1>2, <2>1 DEF PoolInv, PoolAddressesDistinct, PlaceholderInNetwork
  <2> QED BY <1>1, <1>7, <2>1, <2>2 DEF PoolInv
<1>9. CASE lb.state = "none" /\ lb' = ensured
  <2>1. lb'.pool = seed /\ lb'.state = "creating"
    BY <1>9
  <2>2. CASE targets = {}
    <3>1. lb'.pool = {placeholder}
      BY <2>1, <2>2
    <3>2. PoolAddressesDistinct'
      BY <3>1 DEF PoolAddressesDistinct
    <3>3. PlaceholderInNetwork'
      <4>1. ASSUME NEW t \in lb'.pool
            PROVE  \/ \E i \in DOMAIN mode.prefixes :
                        /\ mode.prefixes[i].v4
                        /\ t.ip \in mode.prefixes[i].base + 10 ..
                                    mode.prefixes[i].base + mode.prefixes[i].size - 1
                   \/ \A i \in DOMAIN mode.prefixes :
                        mode.prefixes[i].v4 => mode.prefixes[i].size <= 10
        <5>1. t.ip = bootstrapTargetIP(mode.prefixes)
          BY <1>5, <3>1
        <5> QED BY <1>6, <5>1, PlaceholderAddress
      <4> QED BY <1>2, <4>1 DEF PlaceholderInNetwork
    <3> QED BY <1>1, <1>7, <1>9, <2>1, <3>2, <3>3 DEF PoolInv
  <2>3. CASE targets # {}
    <3>1. lb'.pool = targets
      BY <2>1, <2>3
    <3>2. PoolAddressesDistinct' /\ PlaceholderInNetwork'
      BY <1>1, <3>1, PoolReplaced
    <3> QED BY <1>1, <1>7, <1>9, <2>1, <3>2 DEF PoolInv
  <2> QED BY <2>2, <2>3
<1> QED BY <1>2, <1>8, <1>9

\* SetAPIServerLoadBalancerTargets puts the targets of Machines in the pool of
\* an existing load balancer, or nothing.
LEMMA SetTargetsPool ==
  ASSUME TypeInv, PoolInv, SetAPIServerLoadBalancerTargets
  PROVE  PoolInv' /\ (lb' = lb \/ (lb'.pool = cw.targets /\ cw.targets # {}))
<1>1. mode' = mode /\ cw.pc = "setTargets"
  BY DEF SetAPIServerLoadBalancerTargets
<1>2. lb' = lb \/ (lb.state # "none" /\ lb' = [lb EXCEPT !.pool = cw.targets])
  BY Zenon DEF SetAPIServerLoadBalancerTargets
<1>3. \/ \E obj : ClusterReturn(obj, TRUE)
      \/ \E obj : cw' = [cw EXCEPT !.pc = "bastion", !.obj = obj, !.targets = {}]
  BY Zenon DEF SetAPIServerLoadBalancerTargets
<1>4. cw'.targets = {} /\ cw'.pc # "setTargets"
  BY <1>3, Zenon DEF ClusterReturn, TypeInv, TypeOK, ClusterWorkerType
<1>5. CASE lb' = lb
  BY <1>1, <1>4, <1>5, PoolFrame
<1>6. CASE lb.state # "none" /\ lb' = [lb EXCEPT !.pool = cw.targets]
  <2>1. lb'.pool = cw.targets /\ lb'.state # "none"
    BY <1>6 DEF TypeInv, TypeOK, LBType
  <2>2. PoolAddressesDistinct' /\ PlaceholderInNetwork'
    BY <2>1, PoolReplaced DEF PoolInv
  <2> QED BY <1>1, <1>4, <2>1, <2>2 DEF PoolInv
<1> QED BY <1>2, <1>5, <1>6

\* The other steps of the cluster reconciler leave the load balancer alone.
LEMMA ClusterStepPool ==
  ASSUME TypeInv, PoolInv,
         \/ ClusterStart \/ ReconcileBastion \/ RevokeNodeSSHAccess \/ DeleteNodeSSHAccess
         \/ DeleteBastion \/ EnsureBastion \/ ClusterPatch
  PROVE  PoolInv' /\ lb' = lb
<1> USE DEF TypeInv, TypeOK
<1>1. cw \in ClusterWorkerType /\ cw.obj \in ClusterType
  BY DEF ClusterWorkerType
<1>2. UNCHANGED <<lb, mode>>
  BY Zenon DEF ClusterStart, ReconcileBastion, RevokeNodeSSHAccess, DeleteNodeSSHAccess,
         DeleteBastion, EnsureBastion, ClusterPatch, cloudVars, budgetVars
<1> DEFINE Kept == cw'.targets \in {{}, cw.targets} /\ cw'.pc # "setTargets"
<1>3. ASSUME NEW obj, NEW again, ClusterReturn(obj, again) PROVE Kept
  BY <1>1, <1>3 DEF ClusterReturn, ClusterWorkerType
<1>4. ASSUME NEW obj, NEW pc, pc # "setTargets", ClusterGoto(pc, obj) PROVE Kept
  BY <1>1, <1>4 DEF ClusterGoto, ClusterWorkerType
<1>5. \A retryable : BastionFailed(retryable) => Kept
  BY <1>3, Zenon DEF BastionFailed
<1> SUFFICES Kept
  BY <1>2, PoolFrame
<1> HIDE DEF Kept
<1>6. CASE ClusterStart
  BY <1>3, <1>4, <1>6, Zenon DEF ClusterStart
<1>7. CASE ReconcileBastion
  <2>1. CASE cw' = [cw EXCEPT !.data = content,
                      !.pc = IF bastionNeedsRecreate(cw.obj, content) THEN "revoke"
                             ELSE "ensureBastion"]
    BY <1>1, <2>1 DEF Kept, ClusterWorkerType
  <2>2. \/ ClusterReturn([cw.obj EXCEPT !.ready = TRUE], FALSE)
        \/ ClusterGoto("revoke", cw.obj)
        \/ cw' = [cw EXCEPT !.data = content,
                    !.pc = IF bastionNeedsRecreate(cw.obj, content) THEN "revoke"
                           ELSE "ensureBastion"]
        \/ \E obj : ClusterReturn(obj, FALSE)
    BY <1>7, Zenon DEF ReconcileBastion
  <2> QED BY <1>3, <1>4, <2>1, <2>2, Zenon
<1>8. CASE RevokeNodeSSHAccess
  BY <1>4, <1>5, <1>8 DEF RevokeNodeSSHAccess, BastionCallFailed
<1>9. CASE DeleteNodeSSHAccess
  <2>1. (\E retryable : BastionFailed(retryable)) \/ ClusterGoto("deleteBastion", cw.obj)
    BY <1>9, Zenon DEF DeleteNodeSSHAccess, BastionCallFailed
  <2> QED BY <1>4, <1>5, <2>1
<1>10. CASE DeleteBastion
  <2>1. (\E retryable : BastionFailed(retryable)) \/ \E obj, again : ClusterReturn(obj, again)
    BY <1>10, Zenon DEF DeleteBastion, BastionCallFailed
  <2> QED BY <1>3, <1>5, <2>1
<1>11. CASE EnsureBastion
  <2>1. (\E retryable : BastionFailed(retryable)) \/ \E obj, again : ClusterReturn(obj, again)
    BY <1>11, Zenon DEF EnsureBastion, BastionCallFailed
  <2> QED BY <1>3, <1>5, <2>1
<1>12. CASE ClusterPatch
  BY <1>12 DEF ClusterPatch, IdleCluster, Kept
<1> QED BY <1>6, <1>7, <1>8, <1>9, <1>10, <1>11, <1>12

\* The cloud finishes or loses the load balancer with its pool.
LEMMA CloudPool ==
  ASSUME TypeInv, PoolInv, LoadBalancerReady \/ LoadBalancerLost
  PROVE  PoolInv' /\ (lb'.pool = lb.pool \/ lb'.state = "none")
<1>1. UNCHANGED <<cw, mode>>
  BY DEF LoadBalancerReady, LoadBalancerLost, workVars, budgetVars
<1>2. CASE LoadBalancerReady
  <2>1. lb'.pool = lb.pool /\ lb'.state = "ready"
    BY <1>2 DEF LoadBalancerReady, TypeInv, TypeOK, LBType
  <2>2. PoolAddressesDistinct' /\ PlaceholderInNetwork'
    BY <1>1, <2>1 DEF PoolInv, PoolAddressesDistinct, PlaceholderInNetwork
  <2> QED BY <1>1, <2>1, <2>2 DEF PoolInv
<1>3. CASE LoadBalancerLost
  <2>1. lb'.pool = {} /\ lb'.state = "none"
    BY <1>3 DEF LoadBalancerLost, NoLB
  <2>2. PoolAddressesDistinct' /\ PlaceholderInNetwork'
    BY <2>1, PoolReplaced
  <2> QED BY <1>1, <2>1, <2>2 DEF PoolInv
<1> QED BY <1>2, <1>3

\* Nobody else touches the pool or the reconcile under way, except a restart.
LEMMA OthersPool ==
  ASSUME TypeInv, PoolInv,
         \/ MachineStep \/ SyncCluster \/ Restart \/ ToggleBastion \/ EditCloudInit
         \/ \E m \in Machines :
              \/ SyncMachine(m) \/ Progress(m)
              \/ CreateMachine(m) \/ DeleteMachine(m) \/ ServerLost(m)
         \/ UNCHANGED vars
  PROVE  PoolInv' /\ lb' = lb
<1>1. CASE MachineStep
  <2>1. UNCHANGED <<lb, mode, cw>>
    <3>1. ASSUME NEW m \in Machines, MachineStart(m) PROVE UNCHANGED <<lb, mode, cw>>
      BY <3>1 DEF MachineStart, cloudVars
    <3>2. CASE EnsureServer
      BY <3>2 DEF EnsureServer
    <3>3. CASE ensureNodeSSHSecurityGroup \/ ensureNodeSSHSecurityGroupRule
                 \/ addSecurityGroupToServer
      BY <3>3, Zenon DEF ensureNodeSSHSecurityGroup, ensureNodeSSHSecurityGroupRule,
                  addSecurityGroupToServer, NodeAccessStep
    <3>4. CASE DestroyServer
      BY <3>4 DEF DestroyServer
    <3>5. CASE MachinePatch
      BY <3>5 DEF MachinePatch, cloudVars
    <3> QED BY <1>1, <3>1, <3>2, <3>3, <3>4, <3>5 DEF MachineStep
  <2> QED BY <2>1, PoolFrame
<1>2. CASE Restart
  <2>1. UNCHANGED <<lb, mode>> /\ cw'.targets = {} /\ cw'.pc = "idle"
    BY <1>2 DEF Restart, cloudVars, IdleCluster
  <2> QED BY <2>1, PoolFrame
<1>3. CASE SyncCluster \/ ToggleBastion \/ EditCloudInit \/ UNCHANGED vars
  <2>1. UNCHANGED <<lb, mode, cw>>
    BY <1>3 DEF SyncCluster, ToggleBastion, EditCloudInit, vars, cloudVars, workVars, budgetVars
  <2> QED BY <2>1, PoolFrame
<1>4. ASSUME NEW m \in Machines,
             \/ SyncMachine(m) \/ Progress(m)
             \/ CreateMachine(m) \/ DeleteMachine(m) \/ ServerLost(m)
      PROVE  PoolInv' /\ lb' = lb
  <2>1. UNCHANGED <<lb, mode, cw>>
    BY <1>4, Zenon DEF SyncMachine, Progress, PublishAddresses, DeleteInfra, RemoveMachine,
           ServerActive, CreateMachine, DeleteMachine, ServerLost,
           cloudVars, workVars, budgetVars
  <2> QED BY <2>1, PoolFrame
<1> QED BY <1>1, <1>2, <1>3, <1>4

\* A control plane behind the load balancer stays behind it.
Kept ==
  RealTargets(lb) # {} /\ lb'.state # "none" => RealTargets(lb') # {}

\* Every step keeps the pool in order and never empties it.
LEMMA NextPool ==
  TypeInv /\ PoolInv /\ [Next]_vars => PoolInv' /\ Kept
<1> SUFFICES ASSUME TypeInv, PoolInv, [Next]_vars PROVE PoolInv' /\ Kept
  OBVIOUS
<1>1. lb'.pool = lb.pool => Kept
  BY DEF Kept, RealTargets
<1>2. CASE EnsureAPIServerLoadBalancer
  <2>1. PoolInv' /\ (lb.state # "none" => lb' = lb)
    BY <1>2, EnsureLoadBalancerPool
  <2>2. lb.state = "none" => RealTargets(lb) = {}
    BY DEF PoolInv, RealTargets
  <2> QED BY <1>1, <2>1, <2>2 DEF Kept
<1>3. CASE SetAPIServerLoadBalancerTargets
  <2>1. PoolInv' /\ (lb' = lb \/ (lb'.pool = cw.targets /\ cw.targets # {}))
    BY <1>3, SetTargetsPool
  <2>2. lb'.pool = cw.targets /\ cw.targets # {} => RealTargets(lb') # {}
    BY DEF PoolInv, RealTargets
  <2> QED BY <1>1, <2>1, <2>2 DEF Kept
<1>4. CASE \/ ClusterStart \/ ReconcileBastion \/ RevokeNodeSSHAccess \/ DeleteNodeSSHAccess
           \/ DeleteBastion \/ EnsureBastion \/ ClusterPatch
  BY <1>1, <1>4, ClusterStepPool
<1>5. CASE LoadBalancerReady \/ LoadBalancerLost
  <2>1. PoolInv' /\ (lb'.pool = lb.pool \/ lb'.state = "none")
    BY <1>5, CloudPool
  <2> QED BY <1>1, <2>1 DEF Kept
<1>6. CASE \/ MachineStep \/ SyncCluster \/ Restart \/ ToggleBastion \/ EditCloudInit
           \/ \E m \in Machines :
                \/ SyncMachine(m) \/ Progress(m)
                \/ CreateMachine(m) \/ DeleteMachine(m) \/ ServerLost(m)
           \/ UNCHANGED vars
  BY <1>1, <1>6, OthersPool
<1> QED BY <1>2, <1>3, <1>4, <1>5, <1>6 DEF Next, ClusterStep

\* The pool is in order initially.
LEMMA InitPool == Init => PoolInv
<1> SUFFICES ASSUME Init PROVE PoolInv
  OBVIOUS
<1>1. lb = NoLB /\ cw = IdleCluster
  BY DEF Init
<1>2. lb.pool = {} /\ cw.targets = {} /\ cw.pc = "idle"
  BY <1>1 DEF NoLB, IdleCluster
<1> QED BY <1>2 DEF PoolInv, PoolAddressesDistinct, PlaceholderInNetwork

\* The pool is in order in every state.
THEOREM PoolHolds == Spec => []PoolInv
BY TypesHold, InitPool, NextPool, PTL DEF Spec

\* The pool of the load balancer never names an address twice, however many
\* Machines report it (APIServerTargets).
THEOREM PoolDistinct == Spec => []PoolAddressesDistinct
<1>1. PoolInv => PoolAddressesDistinct
  BY DEF PoolInv
<1> QED BY <1>1, PoolHolds, PTL

\* The placeholder a new load balancer is seeded with lies inside the network,
\* whenever one of its prefixes has room for it (bootstrapTargetIP).
THEOREM PlaceholderPlaced == Spec => []PlaceholderInNetwork
<1>1. PoolInv => PlaceholderInNetwork
  BY DEF PoolInv
<1> QED BY <1>1, PoolHolds, PTL

\* A load balancer that has a control plane Machine behind it is never left
\* without one (SetAPIServerLoadBalancerTargets is not called for an empty list).
THEOREM NeverEmptied == Spec => PoolNeverEmptied
<1>1. TypeInv /\ PoolInv /\ [Next]_vars
        => [RealTargets(lb) # {} /\ lb'.state # "none" => RealTargets(lb') # {}]_vars
  BY NextPool DEF Kept
<1> QED BY <1>1, TypesHold, PoolHolds, PTL DEF Spec, PoolNeverEmptied

-----------------------------------------------------------------------------
(* The placement of servers: only in a published zone.                     *)

\* The zones a cluster publishes.
Published == failureDomainsFromZones(mode.zones)

\* A cluster that is ready has its zones published, and a cluster reconcile past
\* its first step is going to publish them.
ClusterPublished ==
  /\ cluster.ready => cluster.zones = Published
  /\ cw.obj.ready => cw.obj.zones = Published
  /\ cw.pc \notin {"idle", "patch"} => cw.obj.zones = Published

\* So has the copy the machine reconciler reads.
SeenPublished == clusterSeen.ready => clusterSeen.zones = Published

\* A machine reconcile that may create a server works from such a copy, and the
\* zones asked for are among the published ones.
MachineAdmitted ==
  mw.pc = "server" =>
    /\ mw.obj.zones = Published
    /\ validateMachineAvailabilityZone(mw.m, mw.obj)

PlacedInv == ServersPlaced /\ ClusterPublished /\ SeenPublished /\ MachineAdmitted

\* A step of the cluster reconciler keeps its object and its copy in order, and
\* touches neither servers nor the machine worker nor its cache.
LEMMA ClusterStepPublished ==
  ASSUME TypeInv, ClusterPublished, ClusterStep
  PROVE  ClusterPublished' /\ UNCHANGED <<mode, server, clusterSeen, mw>>
<1> USE DEF TypeInv, TypeOK
<1>1. cw \in ClusterWorkerType /\ cw.obj \in ClusterType /\ cluster \in ClusterType
  BY DEF ClusterWorkerType
<1>2. UNCHANGED <<mode, server, clusterSeen, mw>>
  BY Zenon DEF ClusterStep, ClusterStart, EnsureAPIServerLoadBalancer,
         SetAPIServerLoadBalancerTargets, ReconcileBastion, RevokeNodeSSHAccess,
         DeleteNodeSSHAccess, DeleteBastion, EnsureBastion, ClusterPatch,
         objectVars, cloudVars, budgetVars
<1>3. Published' = Published
  BY <1>2 DEF Published
<1> SUFFICES ClusterPublished'
  BY <1>2
<1> DEFINE Good(obj) == obj.ready => obj.zones = Published
<1>4. ASSUME cluster' = cluster, NEW obj, NEW again, Good(obj), ClusterReturn(obj, again)
      PROVE  ClusterPublished'
  <2>1. cw'.pc = "patch" /\ cw'.obj = obj
    BY <1>1, <1>4 DEF ClusterReturn, ClusterWorkerType
  <2> QED BY <1>3, <1>4, <2>1 DEF ClusterPublished
<1>5. ASSUME cluster' = cluster, NEW obj, NEW pc, obj.zones = Published, ClusterGoto(pc, obj)
      PROVE  ClusterPublished'
  <2>1. cw'.obj = obj
    BY <1>1, <1>5 DEF ClusterGoto, ClusterWorkerType
  <2> QED BY <1>3, <1>5, <2>1 DEF ClusterPublished
<1>6. ASSUME cluster' = cluster, cw'.obj = cw.obj, cw.obj.zones = Published
      PROVE  ClusterPublished'
  BY <1>3, <1>6 DEF ClusterPublished
<1>7. ASSUME NEW retryable, BastionFailed(retryable), cluster' = cluster
      PROVE  ClusterPublished'
  <2>1. Good([cw.obj EXCEPT !.ready = FALSE, !.reason = "BastionError"])
    BY <1>1 DEF ClusterType
  <2> HIDE DEF Good
  <2> QED BY <1>4, <1>7, <2>1, Zenon DEF BastionFailed
<1>8. Good(cw.obj)
  BY DEF ClusterPublished
<1>9. cw.pc \notin {"idle", "patch"} => cw.obj.zones = Published
  BY DEF ClusterPublished
<1>10. CASE ClusterStart
  <2> DEFINE placed == [cluster EXCEPT !.zones = failureDomainsFromZones(mode.zones)]
  <2> DEFINE balanced == [placed EXCEPT !.network = "True"]
  <2> DEFINE external == [placed EXCEPT !.network = "True", !.balancer = "True"]
  <2> DEFINE refused == [placed EXCEPT !.ready = FALSE, !.network = "False"]
  <2>1. balanced.zones = Published /\ external.zones = Published /\ Good(refused)
    BY <1>1 DEF ClusterType, Published
  <2>2. Good(StartFailed(cluster))
    BY <1>1 DEF ClusterType, StartFailed
  <2>3. cluster' = cluster
    BY <1>10 DEF ClusterStart, objectVars
  <2>4. \/ ClusterGoto("ensureLB", balanced) \/ ClusterGoto("bastion", external)
        \/ ClusterReturn(StartFailed(cluster), TRUE)
        \/ \E again : ClusterReturn(refused, again)
    BY <1>10, Zenon DEF ClusterStart
  <2> HIDE DEF balanced, external, refused, Good
  <2> QED BY <1>4, <1>5, <2>1, <2>2, <2>3, <2>4, Zenon
<1>11. CASE EnsureAPIServerLoadBalancer
  <2> DEFINE notReady == [cw.obj EXCEPT !.ready = FALSE, !.balancer = "False"]
  <2> DEFINE unlisted == [cw.obj EXCEPT !.balancer = "False"]
  <2> DEFINE served == [cw.obj EXCEPT !.balancer = "True"]
  <2>1. cluster' = cluster /\ cw.pc = "ensureLB"
    BY <1>11 DEF EnsureAPIServerLoadBalancer, objectVars
  <2>2. Good(notReady) /\ Good(unlisted) /\ served.zones = Published
    BY <1>1, <1>8, <1>9, <2>1 DEF ClusterType
  <2>3. \/ \E again : ClusterReturn(notReady, again)
        \/ ClusterReturn(unlisted, TRUE)
        \/ \E targets : cw' = [cw EXCEPT !.pc = "setTargets", !.targets = targets]
        \/ ClusterGoto("bastion", served)
    BY <1>11, Zenon DEF EnsureAPIServerLoadBalancer
  <2>4. ASSUME NEW targets, cw' = [cw EXCEPT !.pc = "setTargets", !.targets = targets]
        PROVE  cw'.obj = cw.obj
    BY <1>1, <2>4 DEF ClusterWorkerType
  <2> HIDE DEF Good, notReady, unlisted, served
  <2> QED BY <1>4, <1>5, <1>6, <1>9, <2>1, <2>2, <2>3, <2>4, Zenon
<1>12. CASE SetAPIServerLoadBalancerTargets
  <2> DEFINE failed == [cw.obj EXCEPT !.balancer = "False"]
  <2> DEFINE served == [cw.obj EXCEPT !.balancer = "True"]
  <2>1. cluster' = cluster /\ cw.pc = "setTargets"
    BY <1>12 DEF SetAPIServerLoadBalancerTargets, objectVars
  <2>2. Good(failed) /\ served.zones = Published
    BY <1>1, <1>8, <1>9, <2>1 DEF ClusterType
  <2>3. \/ ClusterReturn(failed, TRUE)
        \/ cw' = [cw EXCEPT !.pc = "bastion", !.obj = served, !.targets = {}]
    BY <1>12, Zenon DEF SetAPIServerLoadBalancerTargets
  <2> HIDE DEF Good, failed, served
  <2>4. ASSUME cw' = [cw EXCEPT !.pc = "bastion", !.obj = served, !.targets = {}]
        PROVE  ClusterPublished'
    <3>1. cw'.obj = served
      BY <1>1, <2>4 DEF ClusterWorkerType
    <3> QED BY <1>3, <2>1, <2>2, <3>1 DEF ClusterPublished
  <2> QED BY <1>4, <2>1, <2>2, <2>3, <2>4, Zenon
<1>13. CASE ReconcileBastion
  <2> DEFINE unread == [cw.obj EXCEPT !.ready = FALSE, !.reason = "CloudInitRefError"]
  <2>1. cluster' = cluster /\ cw.pc = "bastion"
    BY <1>13 DEF ReconcileBastion, objectVars
  <2>2. Good([cw.obj EXCEPT !.ready = TRUE]) /\ Good(unread)
    BY <1>1, <1>9, <2>1 DEF ClusterType
  <2>3. \/ ClusterReturn([cw.obj EXCEPT !.ready = TRUE], FALSE)
        \/ ClusterReturn(unread, FALSE)
        \/ ClusterGoto("revoke", cw.obj)
        \/ \E data, pc : cw' = [cw EXCEPT !.data = data, !.pc = pc]
    BY <1>13, Zenon DEF ReconcileBastion
  <2>4. ASSUME NEW data, NEW pc, cw' = [cw EXCEPT !.data = data, !.pc = pc]
        PROVE  cw'.obj = cw.obj
    BY <1>1, <2>4 DEF ClusterWorkerType
  <2> HIDE DEF Good, unread
  <2> QED BY <1>4, <1>5, <1>6, <1>9, <2>1, <2>2, <2>3, <2>4, Zenon
<1>14. CASE RevokeNodeSSHAccess
  <2>1. cluster' = cluster /\ cw.pc = "revoke"
    BY <1>14 DEF RevokeNodeSSHAccess, objectVars
  <2>2. (\E retryable : BastionFailed(retryable)) \/ \E pc : ClusterGoto(pc, cw.obj)
    BY <1>14, Zenon DEF RevokeNodeSSHAccess, BastionCallFailed
  <2> QED BY <1>5, <1>7, <1>9, <2>1, <2>2
<1>15. CASE DeleteNodeSSHAccess
  <2>1. cluster' = cluster /\ cw.pc = "deleteGroup"
    BY <1>15 DEF DeleteNodeSSHAccess, objectVars
  <2>2. (\E retryable : BastionFailed(retryable)) \/ ClusterGoto("deleteBastion", cw.obj)
    BY <1>15, Zenon DEF DeleteNodeSSHAccess, BastionCallFailed
  <2> QED BY <1>5, <1>7, <1>9, <2>1, <2>2
<1>16. CASE DeleteBastion
  <2> DEFINE cleared == [cw.obj EXCEPT !.group = NoGroup, !.hash = 0]
  <2> DEFINE recreating == [cleared EXCEPT !.reason = "Recreating", !.ready = FALSE]
  <2> DEFINE skipped == [cleared EXCEPT !.reason = "Skipped", !.ready = TRUE]
  <2>1. cluster' = cluster /\ cw.pc = "deleteBastion"
    BY <1>16 DEF DeleteBastion, objectVars
  <2>2. Good(recreating) /\ Good(skipped)
    BY <1>1, <1>9, <2>1 DEF ClusterType
  <2>3. \/ \E retryable : BastionFailed(retryable)
        \/ ClusterReturn(recreating, TRUE) \/ ClusterReturn(skipped, FALSE)
    BY <1>16, Zenon DEF DeleteBastion, BastionCallFailed
  <2> HIDE DEF recreating, skipped, Good
  <2> QED BY <1>4, <1>7, <2>1, <2>2, <2>3, Zenon
<1>17. CASE EnsureBastion
  <2>1. cluster' = cluster /\ cw.pc = "ensureBastion"
    BY <1>17 DEF EnsureBastion, objectVars
  <2> DEFINE recorded(id) == [cw.obj EXCEPT !.group = id, !.hash = cw.data]
  <2> DEFINE available(id) == [recorded(id) EXCEPT !.reason = "Available", !.ready = TRUE]
  <2> DEFINE provisioning(id) ==
        [recorded(id) EXCEPT !.reason = "Provisioning", !.ready = FALSE]
  <2>2. \/ \E retryable : BastionFailed(retryable)
        \/ \E id : ClusterReturn(available(id), FALSE)
        \/ \E id : ClusterReturn(provisioning(id), TRUE)
    BY <1>17, Zenon DEF EnsureBastion, BastionCallFailed
  <2>3. ASSUME NEW id PROVE Good(available(id)) /\ Good(provisioning(id))
    BY <1>1, <1>9, <2>1 DEF ClusterType
  <2> HIDE DEF available, provisioning
  <2> HIDE DEF Good
  <2> QED BY <1>4, <1>7, <2>1, <2>2, <2>3, Zenon
<1>18. CASE ClusterPatch
  <2>1. cw'.pc = "idle" /\ cw'.obj.ready = FALSE
    BY <1>18 DEF ClusterPatch, IdleCluster, NewCluster
  <2>2. cluster' \in {cluster, [cw.obj EXCEPT !.enabled = cluster.enabled]}
    BY <1>18 DEF ClusterPatch
  <2>3. Good(cluster')
    BY <1>1, <1>8, <2>2 DEF ClusterType, ClusterPublished
  <2> QED BY <1>3, <2>1, <2>3 DEF ClusterPublished
<1> QED BY <1>10, <1>11, <1>12, <1>13, <1>14, <1>15, <1>16, <1>17, <1>18 DEF ClusterStep

\* A zone chosen for an admitted machine is published and is its failure domain,
\* if it has one.
LEMMA ZonePublished ==
  ASSUME TypeInv, NEW m \in Machines, NEW obj \in ViewType,
         obj.zones = Published, validateMachineAvailabilityZone(m, obj)
  PROVE  /\ AvailabilityZone(m, obj) \in Published
         /\ mode.failureDomain[m] \in {NoZone, AvailabilityZone(m, obj)}
<1>1. mode \in Modes
  BY DEF TypeInv, TypeOK
<1>2. obj.zones \in SUBSET Zones /\ obj.zones # {}
  BY <1>1, ModeTyped, FailureDomainsTyped DEF Published
<1>3. Zones \subseteq Nat
  BY DEF Zones, stackitFailureDomains, MetroZones
<1>4. Min(obj.zones) \in obj.zones
  BY <1>2, <1>3, MinIsElement
<1>5. {mode.availabilityZone[m], mode.failureDomain[m]} \subseteq obj.zones \cup {NoZone}
  BY <1>2 DEF validateMachineAvailabilityZone
<1> QED BY <1>2, <1>4, <1>5 DEF AvailabilityZone

\* The servers of others stay where they are when one machine's server is placed
\* well, moved on or removed.
LEMMA PlacedFrame ==
  ASSUME TypeInv, ServersPlaced, mode' = mode, NEW m \in Machines, NEW srv,
         server' = [server EXCEPT ![m] = srv],
         \/ srv.state = "none"
         \/ srv.zone \in Published /\ mode.failureDomain[m] \in {NoZone, srv.zone}
  PROVE  ServersPlaced'
<1>1. ASSUME NEW n \in Machines PROVE server'[n] = IF n = m THEN srv ELSE server[n]
  BY DEF TypeInv, TypeOK
<1> QED BY <1>1 DEF ServersPlaced, Published

\* MachineStart admits a machine to its server only with published zones.
LEMMA MachineStartPlaced ==
  ASSUME TypeInv, SeenPublished, MachineAdmitted, NEW m \in Machines, MachineStart(m)
  PROVE  MachineAdmitted' /\ UNCHANGED <<mode, server, cluster, clusterSeen, cw>>
<1> DEFINE start == [pc |-> "server", m |-> m, obj |-> clusterSeen, res |-> infra[m],
                     again |-> FALSE]
<1> DEFINE admitted == clusterSeen.ready /\ validateMachineAvailabilityZone(m, clusterSeen)
<1>1. UNCHANGED <<mode, server, cluster, clusterSeen, cw>>
  BY DEF MachineStart, objectVars, cloudVars
<1> DEFINE stop(res, again) == [start EXCEPT !.pc = "patch", !.res = res, !.again = again]
<1>2. \/ mw' = mw
      \/ mw' = start /\ admitted
      \/ mw' = [start EXCEPT !.pc = "destroy"]
      \/ mw' = stop([infra[m] EXCEPT !.ready = FALSE], FALSE)
      \/ mw' = stop(infra[m], TRUE)
  BY Zenon DEF MachineStart
<1>3. CASE mw' = mw
  BY <1>1, <1>3 DEF MachineAdmitted, Published, validateMachineAvailabilityZone
<1>4. CASE mw' = start /\ admitted
  <2>1. mw'.obj = clusterSeen /\ mw'.m = m
    BY <1>4
  <2>2. clusterSeen.zones = Published
    BY <1>4 DEF SeenPublished
  <2> HIDE DEF start
  <2> QED BY <1>1, <1>4, <2>1, <2>2 DEF MachineAdmitted, Published,
                                        validateMachineAvailabilityZone
<1>5. [start EXCEPT !.pc = "destroy"].pc = "destroy"
  OBVIOUS
<1>6. ASSUME NEW res, NEW again PROVE stop(res, again).pc = "patch"
  OBVIOUS
<1> HIDE DEF start, stop
<1> QED BY <1>1, <1>2, <1>3, <1>4, <1>5, <1>6, Zenon DEF MachineAdmitted

\* EnsureServer places a server where it was asked for, and leaves "server".
LEMMA EnsureServerPlaced ==
  ASSUME TypeInv, ServersPlaced, MachineAdmitted, EnsureServer
  PROVE  /\ ServersPlaced' /\ MachineAdmitted'
         /\ UNCHANGED <<mode, cluster, clusterSeen, cw>>
<1> DEFINE m == mw.m
<1> DEFINE created(ip) == [state |-> "creating", ip |-> ip, zone |-> AvailabilityZone(m, mw.obj)]
<1> DEFINE candidates == IF server[m].state # "none" THEN {server[m]}
                         ELSE {created(ip) : ip \in FreeIPs}
<1>1. UNCHANGED <<mode, cluster, clusterSeen, cw>> /\ mw.pc = "server"
  BY DEF EnsureServer, objectVars
<1>2. m \in Machines /\ mw \in MachineWorkerType /\ mw.obj \in ViewType
  BY <1>1 DEF TypeInv, TypeOK, MachineWorkerType
<1>3. /\ AvailabilityZone(m, mw.obj) \in Published
      /\ mode.failureDomain[m] \in {NoZone, AvailabilityZone(m, mw.obj)}
  BY <1>1, <1>2, ZonePublished DEF MachineAdmitted
<1>4. ASSUME NEW srv \in candidates
      PROVE  \/ srv.state = "none"
             \/ srv.zone \in Published /\ mode.failureDomain[m] \in {NoZone, srv.zone}
  <2>1. CASE server[m].state # "none"
    BY <1>2, <1>4, <2>1 DEF ServersPlaced, Published
  <2>2. CASE server[m].state = "none"
    BY <1>3, <1>4, <2>2
  <2> QED BY <2>1, <2>2
<1>5. UNCHANGED server \/ \E srv \in candidates : server' = [server EXCEPT ![m] = srv]
  BY Zenon DEF EnsureServer
<1>6. ServersPlaced'
  <2> HIDE DEF candidates, m
  <2>1. CASE UNCHANGED server
    BY <1>1, <2>1 DEF ServersPlaced
  <2>2. CASE \E srv \in candidates : server' = [server EXCEPT ![m] = srv]
    BY <1>1, <1>2, <1>4, <2>2, PlacedFrame, Zenon
  <2> QED BY <1>5, <2>1, <2>2
<1>7. mw'.pc # "server"
  <2>1. ASSUME NEW res, NEW again, MachineReturn(res, again) PROVE mw'.pc # "server"
    BY <1>2, <2>1 DEF MachineReturn, MachineWorkerType
  <2>2. ASSUME NEW res, mw' = [mw EXCEPT !.pc = "group", !.res = res] PROVE mw'.pc # "server"
    BY <1>2, <2>2 DEF MachineWorkerType
  <2>3. ASSUME NEW srv, NEW ip, ServerFound(srv, ip) PROVE mw'.pc # "server"
    <3>1. \/ \E res, again : MachineReturn(res, again)
          \/ \E res : mw' = [mw EXCEPT !.pc = "group", !.res = res]
      BY <2>3, Zenon DEF ServerFound
    <3> QED BY <2>1, <2>2, <3>1, Zenon
  <2>4. \/ \E res, again : MachineReturn(res, again)
        \/ \E srv, ip : ServerFound(srv, ip)
    BY Zenon DEF EnsureServer, MachineFailed
  <2> QED BY <2>1, <2>3, <2>4
<1> QED BY <1>1, <1>6, <1>7 DEF MachineAdmitted

\* The other steps of the machine reconciler create no server and do not go back
\* to "server".
LEMMA MachineStepPlaced ==
  ASSUME TypeInv, PlacedInv, MachineStep
  PROVE  PlacedInv'
<1> USE DEF PlacedInv
<1>1. ASSUME UNCHANGED <<mode, cluster, clusterSeen, cw>>, ServersPlaced', MachineAdmitted'
      PROVE  PlacedInv'
  BY <1>1 DEF ClusterPublished, SeenPublished, Published
<1>2. mode' = mode /\ UNCHANGED server => ServersPlaced'
  BY DEF ServersPlaced
<1>3. ASSUME NEW m \in Machines, MachineStart(m) PROVE PlacedInv'
  BY <1>1, <1>2, <1>3, MachineStartPlaced
<1>4. CASE EnsureServer
  BY <1>1, <1>4, EnsureServerPlaced
<1>5. ASSUME NEW pc, NEW next \in {"rule", "attach", "patch"}, NEW done, NEW ok,
             NodeAccessStep(pc, next, done, ok)
      PROVE  PlacedInv'
  <2>1. UNCHANGED <<mode, cluster, clusterSeen, cw, server>>
    BY <1>5 DEF NodeAccessStep, objectVars
  <2>2. mw \in MachineWorkerType
    BY DEF TypeInv, TypeOK
  <2>3. ASSUME NEW res, NEW again, MachineReturn(res, again) PROVE mw'.pc # "server"
    BY <2>2, <2>3 DEF MachineReturn, MachineWorkerType
  <2>4. mw' = [mw EXCEPT !.pc = next] => mw'.pc # "server"
    BY <2>2 DEF MachineWorkerType
  <2>5. (\E res, again : MachineReturn(res, again)) \/ mw' = [mw EXCEPT !.pc = next]
    BY <1>5, Zenon DEF NodeAccessStep, MachineFailed
  <2>6. mw'.pc # "server"
    BY <2>3, <2>4, <2>5, Zenon
  <2> QED BY <1>1, <1>2, <2>1, <2>6 DEF MachineAdmitted
<1>6. CASE ensureNodeSSHSecurityGroup \/ ensureNodeSSHSecurityGroupRule
             \/ addSecurityGroupToServer
  BY <1>5, <1>6, Zenon DEF ensureNodeSSHSecurityGroup, ensureNodeSSHSecurityGroupRule,
     addSecurityGroupToServer
<1>7. CASE DestroyServer
  <2>1. UNCHANGED <<mode, cluster, clusterSeen, cw>> /\ mw' = IdleMachine /\ mw.pc = "destroy"
    BY <1>7 DEF DestroyServer
  <2>2. mw.m \in Machines
    BY <2>1 DEF TypeInv
  <2>3. UNCHANGED server \/ server' = [server EXCEPT ![mw.m] = NoServer]
    BY <1>7 DEF DestroyServer
  <2>4. ServersPlaced'
    BY <1>2, <2>1, <2>2, <2>3, PlacedFrame DEF NoServer
  <2> QED BY <1>1, <2>1, <2>4 DEF MachineAdmitted, IdleMachine
<1>8. CASE MachinePatch
  <2>1. UNCHANGED <<mode, cluster, clusterSeen, cw, server>> /\ mw' = IdleMachine
    BY <1>8 DEF MachinePatch, cloudVars
  <2> QED BY <1>1, <1>2, <2>1 DEF MachineAdmitted, IdleMachine
<1> QED BY <1>3, <1>4, <1>6, <1>7, <1>8 DEF MachineStep

\* The informer, the switch of the bastion and a restart pass on a cluster whose
\* zones are published if it is ready.
LEMMA ClusterObjectPlaced ==
  ASSUME TypeInv, PlacedInv, SyncCluster \/ ToggleBastion \/ Restart
  PROVE  PlacedInv'
<1> USE DEF PlacedInv
<1>1. UNCHANGED <<mode, server>>
  BY DEF SyncCluster, ToggleBastion, Restart, cloudVars, budgetVars
<1>2. ServersPlaced' /\ Published' = Published
  BY <1>1 DEF ServersPlaced, Published
<1>3. cluster \in ClusterType
  BY DEF TypeInv, TypeOK
<1>4. CASE SyncCluster
  <2>1. UNCHANGED <<cluster, cw, mw>> /\ clusterSeen' = View(cluster)
    BY <1>4 DEF SyncCluster
  <2> QED BY <1>1, <1>2, <2>1 DEF ClusterPublished, SeenPublished, MachineAdmitted, View,
                                  validateMachineAvailabilityZone
<1>5. CASE ToggleBastion
  <2>1. UNCHANGED <<clusterSeen, cw, mw>> /\ cluster' = [cluster EXCEPT !.enabled = ~@]
    BY <1>5 DEF ToggleBastion, workVars
  <2>2. cluster'.ready = cluster.ready /\ cluster'.zones = cluster.zones
    BY <1>3, <2>1 DEF ClusterType
  <2> QED BY <1>1, <1>2, <2>1, <2>2 DEF ClusterPublished, SeenPublished, MachineAdmitted,
                                        validateMachineAvailabilityZone
<1>6. CASE Restart
  <2>1. UNCHANGED cluster /\ clusterSeen' = View(cluster)
    BY <1>6 DEF Restart
  <2>2. cw'.pc = "idle" /\ cw'.obj.ready = FALSE /\ mw'.pc = "idle"
    BY <1>6 DEF Restart, IdleCluster, IdleMachine, NewCluster
  <2> QED BY <1>2, <2>1, <2>2 DEF ClusterPublished, SeenPublished, MachineAdmitted, View
<1> QED BY <1>4, <1>5, <1>6

\* Cluster API, the cloud and the user create no server.
LEMMA OthersPlaced ==
  ASSUME TypeInv, PlacedInv,
         \/ LoadBalancerReady \/ LoadBalancerLost \/ EditCloudInit
         \/ \E m \in Machines :
              \/ SyncMachine(m) \/ Progress(m)
              \/ CreateMachine(m) \/ DeleteMachine(m) \/ ServerLost(m)
         \/ UNCHANGED vars
  PROVE  PlacedInv'
<1> USE DEF PlacedInv
<1>1. ASSUME UNCHANGED <<mode, cluster, clusterSeen, cw, mw>>, ServersPlaced' PROVE PlacedInv'
  BY <1>1 DEF ClusterPublished, SeenPublished, MachineAdmitted, Published,
              validateMachineAvailabilityZone
<1>2. mode' = mode /\ UNCHANGED server => ServersPlaced'
  BY DEF ServersPlaced
<1>3. CASE LoadBalancerReady \/ LoadBalancerLost \/ EditCloudInit \/ UNCHANGED vars
  <2>1. UNCHANGED <<mode, cluster, clusterSeen, cw, mw, server>>
    BY <1>3 DEF LoadBalancerReady, LoadBalancerLost, EditCloudInit, vars, objectVars,
                cloudVars, workVars, budgetVars
  <2> QED BY <1>1, <1>2, <2>1
<1>4. ASSUME NEW m \in Machines,
             \/ SyncMachine(m) \/ PublishAddresses(m) \/ DeleteInfra(m) \/ RemoveMachine(m)
             \/ CreateMachine(m) \/ DeleteMachine(m)
      PROVE  PlacedInv'
  <2>1. UNCHANGED <<mode, cluster, clusterSeen, cw, mw, server>>
    BY <1>4, Zenon DEF SyncMachine, PublishAddresses, DeleteInfra, RemoveMachine, CreateMachine,
                DeleteMachine, cloudVars, workVars, budgetVars
  <2> QED BY <1>1, <1>2, <2>1
<1>5. ASSUME NEW m \in Machines, ServerActive(m) \/ ServerLost(m) PROVE PlacedInv'
  <2>1. UNCHANGED <<mode, cluster, clusterSeen, cw, mw>>
    BY <1>5 DEF ServerActive, ServerLost, objectVars, workVars, budgetVars
  <2> DEFINE moved == [server[m] EXCEPT !.state = "active"]
  <2>2. server[m].state # "none" /\ server[m] \in ServerType
    BY <1>5 DEF ServerActive, ServerLost, TypeInv, TypeOK
  <2>3. moved.zone = server[m].zone
    BY <2>2 DEF ServerType
  <2>4. server' \in {[server EXCEPT ![m] = moved], [server EXCEPT ![m] = NoServer]}
    BY <1>5, <2>2 DEF ServerActive, ServerLost, TypeInv, TypeOK
  <2>5. moved.zone \in Published /\ mode.failureDomain[m] \in {NoZone, moved.zone}
    BY <2>2, <2>3 DEF ServersPlaced, Published
  <2> HIDE DEF moved
  <2>6. ServersPlaced'
    BY <2>1, <2>4, <2>5, PlacedFrame DEF NoServer
  <2> QED BY <1>1, <2>1, <2>6
<1> QED BY <1>3, <1>4, <1>5 DEF Progress

\* Initially nothing is placed and no copy is ready.
LEMMA InitPlaced == Init => PlacedInv
<1> SUFFICES ASSUME Init PROVE PlacedInv
  OBVIOUS
<1>1. \A m \in Machines : server[m].state = "none"
  BY DEF Init, NoServer
<1>2. cluster = NewCluster(mode.bastion) /\ clusterSeen = View(cluster)
      /\ cw = IdleCluster /\ mw = IdleMachine
  BY DEF Init
<1>3. cluster.ready = FALSE /\ clusterSeen.ready = FALSE
  BY <1>2 DEF NewCluster, View
<1>4. cw.pc = "idle" /\ cw.obj.ready = FALSE /\ mw.pc = "idle"
  BY <1>2 DEF IdleCluster, IdleMachine, NewCluster
<1> QED BY <1>1, <1>3, <1>4 DEF PlacedInv, ServersPlaced, ClusterPublished, SeenPublished,
                               MachineAdmitted

\* Every step keeps the placement.
LEMMA NextPlaced == TypeInv /\ PlacedInv /\ [Next]_vars => PlacedInv'
<1> SUFFICES ASSUME TypeInv, PlacedInv, [Next]_vars PROVE PlacedInv'
  OBVIOUS
<1>1. CASE ClusterStep
  BY <1>1, ClusterStepPublished DEF PlacedInv, ServersPlaced, SeenPublished, MachineAdmitted,
     Published, validateMachineAvailabilityZone
<1> QED BY <1>1, MachineStepPlaced, ClusterObjectPlaced, OthersPlaced DEF Next

\* No server is placed in a metro zone or one the region does not report, and
\* failure domains are honoured, however many Machines the cluster has and however
\* stale the copy of the cluster is that a machine reconcile reads
\* (validateMachineAvailabilityZone, AvailabilityZone).
THEOREM PlacementHonoured == Spec => []ServersPlaced
<1>1. PlacedInv => ServersPlaced
  BY DEF PlacedInv
<1> QED BY <1>1, TypesHold, InitPlaced, NextPlaced, PTL DEF Spec

-----------------------------------------------------------------------------
(* The target pool follows the control plane.                              *)

\* An address is known of a provisioned machine only, and it is that of its
\* server: a server is never created for a machine that has an address.
AddressOf(m) ==
  /\ ~infra[m].provisioned => infra[m].ip = NoIP /\ machine[m].ip = NoIP
  /\ server[m].state # "none" =>
       infra[m].ip \in {NoIP, server[m].ip} /\ machine[m].ip \in {NoIP, server[m].ip}

\* The same of the status a machine reconcile is going to patch.
AddressFound ==
  mw.pc \notin {"idle", "destroy"} =>
    /\ infra[mw.m].provisioned => mw.res.provisioned
    /\ ~mw.res.provisioned => mw.res.ip = NoIP
    /\ server[mw.m].state # "none" => mw.res.ip \in {NoIP, server[mw.m].ip}

AddressInv == (\A m \in Machines : AddressOf(m)) /\ AddressFound

\* The pool is the list of targets the cluster reconciler would make now, unless
\* there is nothing to list or to list it for.
PoolCurrent ==
  LET targets == APIServerTargets(machineSeen)
  IN  lb.state = "none" \/ targets = {} \/ lb.pool = targets

\* The conditions say that the network or the load balancer is not as it should be.
Blocked(obj) == obj.network # "True" \/ obj.balancer # "True"

\* It is, or a reconcile that has yet to list the Machines or to write what it
\* listed is running, or one is going to, or the last one ended in an error that its
\* conditions report.
FollowInv ==
  /\ lb.state # "none" \/ cw.pc \in {"ensureLB", "setTargets"} => mode.balanced
  /\ \/ clusterQueue
     \/ cw.pc = "ensureLB"
     \/ cw.pc = "setTargets" /\ cw.targets = APIServerTargets(machineSeen)
     \/ cw.pc = "patch" /\ (cw.again \/ Blocked(cw.obj))
     \/ cw.pc = "idle" /\ Blocked(cluster)
     \/ cw.pc # "setTargets" /\ PoolCurrent

-----------------------------------------------------------------------------
(* What the steps of the machine reconciler do to its worker.              *)

\* Returning a result leaves the rest of the machine worker alone.
LEMMA MachineReturned ==
  ASSUME mw \in MachineWorkerType, NEW res, NEW again, MachineReturn(res, again)
  PROVE  /\ mw'.pc = "patch" /\ mw'.m = mw.m /\ mw'.obj = mw.obj
         /\ mw'.res = res /\ mw'.again = again
BY DEF MachineReturn, MachineWorkerType

\* What EnsureServer does: the server srv it works with is the one there was, or
\* a new one of a machine that never had one; its address is published, or the
\* status stays and the reconcile is repeated unless there is no server.
LEMMA EnsureServerEffect ==
  ASSUME TypeInv, EnsureServer
  PROVE  /\ mw.pc = "server" /\ mw.m \in Machines
         /\ mw'.m = mw.m /\ mw'.obj = mw.obj
         /\ UNCHANGED <<objectVars, lb, bastion, nodeGroup, clusterQueue, machineQueue, cw,
                        mode, edits>>
         /\ \E srv :
              /\ server' = [server EXCEPT ![mw.m] = srv]
              /\ \/ srv = server[mw.m]
                 \/ /\ server[mw.m].state = "none" /\ ~mw.res.provisioned
                    /\ srv.state = "creating"
              /\ \/ /\ mw'.pc = "patch" /\ (mw'.again \/ srv.state = "none")
                    /\ mw'.res.ip = mw.res.ip /\ mw'.res.provisioned = mw.res.provisioned
                 \/ /\ mw'.res.ip \in {NoIP, srv.ip} /\ mw'.res.provisioned
                    /\ \/ mw'.pc = "patch" /\ mw'.again
                       \/ mw'.pc = "patch" /\ ~mw.obj.enabled
                       \/ mw'.pc = "group"
<1> DEFINE m == mw.m
<1> DEFINE created(ip) == [state |-> "creating", ip |-> ip, zone |-> AvailabilityZone(m, mw.obj)]
<1> DEFINE candidates == IF server[m].state # "none" THEN {server[m]}
                         ELSE {created(ip) : ip \in FreeIPs}
<1> DEFINE Same == mw'.res.ip = mw.res.ip /\ mw'.res.provisioned = mw.res.provisioned
<1> DEFINE Done(srv) ==
      /\ mw'.res.ip \in {NoIP, srv.ip} /\ mw'.res.provisioned
      /\ \/ mw'.pc = "patch" /\ mw'.again
         \/ mw'.pc = "patch" /\ ~mw.obj.enabled
         \/ mw'.pc = "group"
<1>1. mw.pc = "server" /\ UNCHANGED <<objectVars, lb, bastion, nodeGroup, clusterQueue,
                                      machineQueue, cw, mode, edits>>
  BY DEF EnsureServer
<1>2. m \in Machines /\ mw \in MachineWorkerType /\ mw.res \in InfraType
  BY <1>1 DEF TypeInv, TypeOK, MachineWorkerType
<1>3. \A r : [mw.res EXCEPT !.ready = r].ip = mw.res.ip
             /\ [mw.res EXCEPT !.ready = r].provisioned = mw.res.provisioned
  BY <1>2 DEF InfraType
<1>4. ASSUME NEW again, MachineReturn([mw.res EXCEPT !.ready = FALSE], again)
      PROVE  mw'.m = mw.m /\ mw'.obj = mw.obj /\ mw'.pc = "patch" /\ mw'.again = again /\ Same
  <2>1. /\ mw'.pc = "patch" /\ mw'.m = mw.m /\ mw'.obj = mw.obj
        /\ mw'.res = [mw.res EXCEPT !.ready = FALSE] /\ mw'.again = again
    BY <1>2, <1>4, MachineReturned, Zenon
  <2> QED BY <1>3, <2>1, Zenon
<1>5. ASSUME NEW srv, NEW ip \in {NoIP, srv.ip}, ServerFound(srv, ip)
      PROVE  mw'.m = mw.m /\ mw'.obj = mw.obj /\ Done(srv)
  <2> DEFINE res == [mw.res EXCEPT !.ip = ip, !.provisioned = TRUE]
  <2>1. res.ip = ip /\ res.provisioned = TRUE
    BY <1>2 DEF InfraType
  <2>2. \A r : [res EXCEPT !.ready = r].ip = ip /\ [res EXCEPT !.ready = r].provisioned = TRUE
    BY <1>2 DEF InfraType
  <2>3. ASSUME NEW r, NEW again, MachineReturn([res EXCEPT !.ready = r], again)
        PROVE  /\ mw'.m = mw.m /\ mw'.obj = mw.obj /\ mw'.pc = "patch" /\ mw'.again = again
               /\ mw'.res.ip \in {NoIP, srv.ip} /\ mw'.res.provisioned
    BY <1>2, <2>2, <2>3, MachineReturned, Zenon
  <2>4. ASSUME mw' = [mw EXCEPT !.pc = "group", !.res = res]
        PROVE  mw'.m = mw.m /\ mw'.obj = mw.obj /\ mw'.pc = "group" /\ mw'.res = res
    BY <1>2, <2>4 DEF MachineWorkerType
  <2> HIDE DEF res
  <2>5. \/ MachineReturn([res EXCEPT !.ready = FALSE], TRUE)
        \/ MachineReturn([res EXCEPT !.ready = TRUE], FALSE) /\ ~mw.obj.enabled
        \/ mw' = [mw EXCEPT !.pc = "group", !.res = res]
    BY <1>5, Zenon DEF ServerFound, res
  <2> QED BY <2>1, <2>3, <2>4, <2>5, Zenon
<1>6. server = [server EXCEPT ![m] = server[m]]
  BY <1>2 DEF TypeInv, TypeOK
<1>7. ASSUME NEW srv \in candidates, server[m].state # "none" \/ ~mw.res.provisioned
      PROVE  \/ srv = server[m]
             \/ /\ server[m].state = "none" /\ ~mw.res.provisioned
                /\ srv.state = "creating"
  BY <1>7
<1> HIDE DEF candidates, Done, m
<1>8. \/ /\ server[m].state = "none" /\ server' = server
         /\ MachineReturn([mw.res EXCEPT !.ready = FALSE], FALSE)
      \/ /\ server[m].state # "none" \/ ~mw.res.provisioned
         /\ \E srv \in candidates :
              /\ server' = [server EXCEPT ![m] = srv]
              /\ \/ ServerFound(srv, srv.ip) \/ ServerFound(srv, NoIP)
                 \/ MachineReturn([mw.res EXCEPT !.ready = FALSE], TRUE)
      \/ /\ server' = server
         /\ MachineReturn([mw.res EXCEPT !.ready = FALSE], TRUE)
  BY Zenon DEF EnsureServer, MachineFailed, candidates, m
<1>9. CASE /\ server' = server
           /\ \E again : /\ MachineReturn([mw.res EXCEPT !.ready = FALSE], again)
                         /\ again = TRUE \/ server[m].state = "none"
  BY <1>1, <1>2, <1>4, <1>6, <1>9 DEF m
<1>10. ASSUME server[m].state # "none" \/ ~mw.res.provisioned,
              NEW srv \in candidates, server' = [server EXCEPT ![m] = srv],
              \/ ServerFound(srv, srv.ip) \/ ServerFound(srv, NoIP)
              \/ MachineReturn([mw.res EXCEPT !.ready = FALSE], TRUE)
       PROVE  /\ mw'.m = mw.m /\ mw'.obj = mw.obj
              /\ \/ srv = server[m]
                 \/ /\ server[m].state = "none" /\ ~mw.res.provisioned
                    /\ srv.state = "creating"
              /\ \/ mw'.pc = "patch" /\ mw'.again /\ Same
                 \/ Done(srv)
  BY <1>4, <1>5, <1>7, <1>10, Zenon
<1> QED BY <1>1, <1>2, <1>8, <1>9, <1>10, Zenon DEF Done, m

\* What a call of EnsureNodeSSHAccess does: it is done, or it fails and the
\* reconcile is repeated.
LEMMA NodeAccessEffect ==
  ASSUME TypeInv, NEW pc \in {"group", "rule", "attach"}, NEW next, NEW done, NEW ok,
         NodeAccessStep(pc, next, done, ok)
  PROVE  /\ mw.pc = pc /\ mw.m \in Machines
         /\ mw'.m = mw.m /\ mw'.obj = mw.obj
         /\ mw'.res.ip = mw.res.ip /\ mw'.res.provisioned = mw.res.provisioned
         /\ UNCHANGED <<objectVars, server, lb, bastion, clusterQueue, machineQueue, cw,
                        mode, edits>>
         /\ \/ mw'.pc = "patch" /\ mw'.again /\ nodeGroup' \in {nodeGroup, done}
            \/ mw'.pc = next /\ ok /\ nodeGroup' = done
<1>1. mw.pc = pc /\ UNCHANGED <<objectVars, server, lb, bastion, clusterQueue,
                                machineQueue, cw, mode, edits>>
  BY DEF NodeAccessStep
<1>2. mw.m \in Machines /\ mw \in MachineWorkerType /\ mw.res \in InfraType
  BY <1>1 DEF TypeInv, TypeOK, MachineWorkerType
<1>3. \A r : [mw.res EXCEPT !.ready = r].ip = mw.res.ip
             /\ [mw.res EXCEPT !.ready = r].provisioned = mw.res.provisioned
  BY <1>2 DEF InfraType
<1>4. ASSUME NEW r, NEW again, MachineReturn([mw.res EXCEPT !.ready = r], again)
      PROVE  /\ mw'.m = mw.m /\ mw'.obj = mw.obj /\ mw'.pc = "patch" /\ mw'.again = again
             /\ mw'.res.ip = mw.res.ip /\ mw'.res.provisioned = mw.res.provisioned
  <2>1. /\ mw'.pc = "patch" /\ mw'.m = mw.m /\ mw'.obj = mw.obj
        /\ mw'.res = [mw.res EXCEPT !.ready = r] /\ mw'.again = again
    BY <1>2, <1>4, MachineReturned, Zenon
  <2> QED BY <1>3, <2>1, Zenon
<1>5. ASSUME mw' = [mw EXCEPT !.pc = next]
      PROVE  mw'.m = mw.m /\ mw'.obj = mw.obj /\ mw'.pc = next /\ mw'.res = mw.res
  BY <1>2, <1>5 DEF MachineWorkerType
<1>6. \/ /\ MachineReturn([mw.res EXCEPT !.ready = FALSE], TRUE)
         /\ nodeGroup' \in {nodeGroup, done}
      \/ /\ ok /\ nodeGroup' = done /\ next = "patch"
         /\ MachineReturn([mw.res EXCEPT !.ready = TRUE], FALSE)
      \/ ok /\ nodeGroup' = done /\ mw' = [mw EXCEPT !.pc = next]
  BY Zenon DEF NodeAccessStep, MachineFailed
<1> QED BY <1>1, <1>2, <1>4, <1>5, <1>6, Zenon

\* What MachineStart does.
LEMMA MachineStartEffect ==
  ASSUME TypeInv, NEW m \in Machines, MachineStart(m)
  PROVE  /\ mw.pc = "idle" /\ m \in machineQueue /\ machineQueue' = machineQueue \ {m}
         /\ UNCHANGED <<objectVars, cloudVars, clusterQueue, cw, mode, edits>>
         /\ \/ mw' = mw /\ infra[m].phase = "gone"
            \/ /\ mw'.m = m /\ mw'.obj = clusterSeen
               /\ mw'.res.ip = infra[m].ip /\ mw'.res.provisioned = infra[m].provisioned
               /\ machineSeen[m].phase \in {"active", "deleting"}
               /\ \/ mw'.pc = "destroy" /\ infra[m].phase = "deleting"
                  \/ /\ infra[m].phase = "active" /\ mw'.pc \in {"patch", "server"}
                     /\ \/ mw'.pc = "patch" /\ mw'.again
                        \/ mw'.pc = "server" <=>
                             /\ clusterSeen.ready
                             /\ validateMachineAvailabilityZone(m, clusterSeen)
<1> DEFINE start == [pc |-> "server", m |-> m, obj |-> clusterSeen, res |-> infra[m],
                     again |-> FALSE]
<1> DEFINE admitted == clusterSeen.ready /\ validateMachineAvailabilityZone(m, clusterSeen)
<1> DEFINE notReady == [infra[m] EXCEPT !.ready = FALSE]
<1>1. /\ mw.pc = "idle" /\ m \in machineQueue /\ machineQueue' = machineQueue \ {m}
      /\ UNCHANGED <<objectVars, cloudVars, clusterQueue, cw, mode, edits>>
  BY DEF MachineStart
<1>2. infra[m] \in InfraType
  BY DEF TypeInv, TypeOK
<1>3. notReady.ip = infra[m].ip /\ notReady.provisioned = infra[m].provisioned
  BY <1>2 DEF InfraType
<1>4. start.m = m /\ start.obj = clusterSeen /\ start.res = infra[m] /\ start.pc = "server"
  OBVIOUS
<1> DEFINE refused == [start EXCEPT !.pc = "patch", !.res = notReady, !.again = FALSE]
<1> DEFINE failed == [start EXCEPT !.pc = "patch", !.res = infra[m], !.again = TRUE]
<1>5. /\ refused.m = m /\ refused.obj = clusterSeen /\ refused.res = notReady
      /\ refused.pc = "patch"
      /\ failed.m = m /\ failed.obj = clusterSeen /\ failed.res = infra[m]
      /\ failed.pc = "patch" /\ failed.again
  OBVIOUS
<1> DEFINE destroy == [start EXCEPT !.pc = "destroy"]
<1>6. destroy.m = m /\ destroy.obj = clusterSeen /\ destroy.res = infra[m]
      /\ destroy.pc = "destroy"
  OBVIOUS
<1>7. infra[m].phase # "gone" => machineSeen[m].phase \in {"active", "deleting"}
  BY DEF MachineStart
<1>8. \/ mw' = mw /\ infra[m].phase = "gone"
      \/ mw' = destroy /\ infra[m].phase = "deleting"
      \/ mw' = refused /\ infra[m].phase = "active" /\ ~admitted
      \/ mw' = start /\ infra[m].phase = "active" /\ admitted
      \/ mw' = failed /\ infra[m].phase = "active"
  BY Zenon DEF MachineStart
<1> HIDE DEF start, refused, failed, notReady, destroy
<1>9. CASE mw' = destroy /\ infra[m].phase = "deleting"
  BY <1>1, <1>6, <1>7, <1>9
<1>10. CASE mw' = refused /\ infra[m].phase = "active" /\ ~admitted
  BY <1>1, <1>3, <1>5, <1>7, <1>10
<1>11. CASE mw' = start /\ infra[m].phase = "active" /\ admitted
  BY <1>1, <1>4, <1>7, <1>11
<1>12. CASE mw' = failed /\ infra[m].phase = "active"
  BY <1>1, <1>5, <1>7, <1>12
<1> QED BY <1>1, <1>8, <1>9, <1>10, <1>11, <1>12, Zenon

\* The steps of the machine reconciler keep the addresses.
LEMMA MachineStepAddress ==
  ASSUME TypeInv, AddressInv, MachineStep PROVE AddressInv'
<1> USE DEF AddressInv
<1>1. ASSUME NEW m \in Machines, MachineStart(m) PROVE AddressInv'
  <2>1. UNCHANGED <<infra, machine, server>>
    BY <1>1, MachineStartEffect DEF objectVars, cloudVars
  <2>2. \/ mw' = mw
        \/ /\ mw'.m = m
           /\ mw'.res.ip = infra[m].ip /\ mw'.res.provisioned = infra[m].provisioned
    BY <1>1, MachineStartEffect
  <2>3. AddressOf(m)
    OBVIOUS
  <2> QED BY <2>1, <2>2, <2>3 DEF AddressOf, AddressFound
<1>2. CASE EnsureServer
  <2>1. mw.pc = "server" /\ mw.m \in Machines /\ mw'.m = mw.m /\ UNCHANGED <<infra, machine>>
    BY <1>2, EnsureServerEffect DEF objectVars
  <2>2. PICK srv :
          /\ server' = [server EXCEPT ![mw.m] = srv]
          /\ \/ srv = server[mw.m]
             \/ server[mw.m].state = "none" /\ ~mw.res.provisioned
          /\ \/ mw'.res.ip = mw.res.ip /\ mw'.res.provisioned = mw.res.provisioned
             \/ mw'.res.ip \in {NoIP, srv.ip} /\ mw'.res.provisioned
    BY <1>2, EnsureServerEffect, Zenon
  <2>3. server'[mw.m] = srv /\ \A n \in Machines \ {mw.m} : server'[n] = server[n]
    BY <2>1, <2>2 DEF TypeInv, TypeOK
  <2>4. /\ AddressOf(mw.m)
        /\ infra[mw.m].provisioned => mw.res.provisioned
        /\ ~mw.res.provisioned => mw.res.ip = NoIP
        /\ server[mw.m].state # "none" => mw.res.ip \in {NoIP, server[mw.m].ip}
    BY <2>1 DEF AddressFound
  <2>5. AddressOf(mw.m)'
    <3>1. CASE srv = server[mw.m]
      BY <2>1, <2>3, <2>4, <3>1 DEF AddressOf
    <3>2. CASE ~mw.res.provisioned
      <4>1. infra[mw.m].ip = NoIP /\ machine[mw.m].ip = NoIP
        BY <2>4, <3>2 DEF AddressOf
      <4> QED BY <2>1, <4>1 DEF AddressOf
    <3> QED BY <2>2, <3>1, <3>2
  <2>6. ASSUME NEW n \in Machines, n # mw.m PROVE AddressOf(n)'
    BY <2>1, <2>3, <2>6 DEF AddressOf
  <2>7. AddressFound'
    <3>1. CASE mw'.res.ip \in {NoIP, srv.ip} /\ mw'.res.provisioned
      BY <2>1, <2>3, <3>1 DEF AddressFound
    <3>2. CASE mw'.res.ip = mw.res.ip /\ mw'.res.provisioned = mw.res.provisioned
      <4>1. mw.res.ip = NoIP \/ srv = server[mw.m]
        BY <2>2, <2>4
      <4>2. server'[mw.m].state # "none" => mw'.res.ip \in {NoIP, server'[mw.m].ip}
        BY <2>3, <2>4, <3>2, <4>1
      <4> QED BY <2>1, <2>4, <3>2, <4>2 DEF AddressFound
    <3> QED BY <2>2, <3>1, <3>2
  <2> QED BY <2>1, <2>5, <2>6, <2>7
<1>3. CASE ensureNodeSSHSecurityGroup \/ ensureNodeSSHSecurityGroupRule
             \/ addSecurityGroupToServer
  <2>1. /\ mw.pc \in {"group", "rule", "attach"} /\ mw'.m = mw.m
        /\ mw'.res.ip = mw.res.ip /\ mw'.res.provisioned = mw.res.provisioned
        /\ UNCHANGED <<infra, machine, server>>
    BY <1>3, NodeAccessEffect, Zenon DEF ensureNodeSSHSecurityGroup, objectVars,
       ensureNodeSSHSecurityGroupRule, addSecurityGroupToServer
  <2> QED BY <2>1 DEF AddressOf, AddressFound
<1>4. CASE DestroyServer
  <2>1. /\ mw.pc = "destroy" /\ mw' = IdleMachine /\ machine' = machine
        /\ server' \in {server, [server EXCEPT ![mw.m] = NoServer]}
        /\ infra' \in {infra, [infra EXCEPT ![mw.m].phase = "gone"]}
    BY <1>4 DEF DestroyServer
  <2>2. mw.m \in Machines /\ \A n \in Machines : infra[n] \in InfraType
    BY <2>1 DEF TypeInv, TypeOK
  <2>3. ASSUME NEW n \in Machines
        PROVE  /\ infra'[n].ip = infra[n].ip /\ infra'[n].provisioned = infra[n].provisioned
               /\ server'[n].state = "none" \/ server'[n] = server[n]
    BY <2>1, <2>2 DEF TypeInv, TypeOK, InfraType, NoServer
  <2>4. mw'.pc = "idle"
    BY <2>1 DEF IdleMachine
  <2> QED BY <2>1, <2>3, <2>4 DEF AddressOf, AddressFound
<1>5. CASE MachinePatch
  <2> DEFINE new == [mw.res EXCEPT !.phase = infra[mw.m].phase]
  <2>1. /\ mw.pc = "patch" /\ mw' = IdleMachine /\ UNCHANGED <<machine, server>>
        /\ infra' \in {infra, [infra EXCEPT ![mw.m] = new]}
    BY <1>5 DEF MachinePatch, cloudVars
  <2>2. mw.m \in Machines /\ mw.res \in InfraType
    BY <2>1 DEF TypeInv, TypeOK, MachineWorkerType
  <2>3. new.ip = mw.res.ip /\ new.provisioned = mw.res.provisioned
    BY <2>2 DEF InfraType
  <2> HIDE DEF new
  <2>4. ASSUME NEW n \in Machines
        PROVE  infra'[n] = infra[n] \/ (n = mw.m /\ infra'[n] = new)
    BY <2>1, <2>2 DEF TypeInv, TypeOK
  <2>5. AddressFound
    OBVIOUS
  <2>6. ASSUME NEW n \in Machines PROVE AddressOf(n)'
    BY <2>1, <2>3, <2>4, <2>5 DEF AddressOf, AddressFound
  <2>7. mw'.pc = "idle"
    BY <2>1 DEF IdleMachine
  <2> QED BY <2>6, <2>7 DEF AddressFound
<1> QED BY <1>1, <1>2, <1>3, <1>4, <1>5 DEF MachineStep

\* Everyone else keeps them too.
LEMMA OthersAddress ==
  ASSUME TypeInv, AddressInv,
         \/ ClusterStep \/ SyncCluster \/ Restart \/ ToggleBastion \/ EditCloudInit
         \/ LoadBalancerReady \/ LoadBalancerLost
         \/ \E m \in Machines :
              \/ SyncMachine(m) \/ Progress(m)
              \/ CreateMachine(m) \/ DeleteMachine(m) \/ ServerLost(m)
         \/ UNCHANGED vars
  PROVE  AddressInv'
<1> USE DEF AddressInv
<1>1. CASE ClusterStep
  BY <1>1, Zenon DEF ClusterStep, ClusterStart, EnsureAPIServerLoadBalancer,
     SetAPIServerLoadBalancerTargets, ReconcileBastion, RevokeNodeSSHAccess,
     DeleteNodeSSHAccess, DeleteBastion, EnsureBastion, ClusterPatch, objectVars, cloudVars,
     AddressOf, AddressFound
<1>2. CASE Restart
  <2>1. UNCHANGED <<infra, machine, server>> /\ mw'.pc = "idle"
    BY <1>2 DEF Restart, cloudVars, IdleMachine
  <2> QED BY <2>1 DEF AddressOf, AddressFound
<1>3. CASE \/ SyncCluster \/ ToggleBastion \/ EditCloudInit \/ UNCHANGED vars
           \/ LoadBalancerReady \/ LoadBalancerLost
  <2>1. UNCHANGED <<infra, machine, server, mw>>
    BY <1>3, Zenon DEF SyncCluster, ToggleBastion, EditCloudInit, LoadBalancerReady,
           LoadBalancerLost, vars, objectVars, cloudVars, workVars
  <2> QED BY <2>1 DEF AddressOf, AddressFound
<1>4. ASSUME NEW m \in Machines,
             \/ SyncMachine(m) \/ Progress(m)
             \/ CreateMachine(m) \/ DeleteMachine(m) \/ ServerLost(m)
      PROVE  AddressInv'
  <2>1. /\ mw' = mw
        /\ machine \in [Machines -> MachineType] /\ infra \in [Machines -> InfraType]
        /\ server \in [Machines -> ServerType]
    BY <1>4, Zenon DEF SyncMachine, Progress, PublishAddresses, DeleteInfra, RemoveMachine,
           ServerActive, CreateMachine, DeleteMachine, ServerLost, workVars, TypeInv, TypeOK
  <2>2. AddressOf(m)
    OBVIOUS
  <2> DEFINE Calm ==
        \A n \in Machines :
          /\ infra'[n].ip = infra[n].ip /\ infra'[n].provisioned = infra[n].provisioned
          /\ server'[n].state = "none"
             \/ (server[n].state # "none" /\ server'[n].ip = server[n].ip)
          /\ \/ machine'[n].ip = machine[n].ip
             \/ machine'[n].ip = infra[n].ip /\ infra[n].provisioned
  <2>3. ASSUME PublishAddresses(m) PROVE Calm
    <3> DEFINE new == [machine[m] EXCEPT !.provisioned = TRUE,
                         !.ip = IF infra[m].ip = NoIP THEN @ ELSE infra[m].ip]
    <3>1. /\ infra[m].provisioned /\ machine' = [machine EXCEPT ![m] = new]
          /\ UNCHANGED <<infra, server>>
      BY <2>3 DEF PublishAddresses, cloudVars
    <3>2. new.ip \in {machine[m].ip, infra[m].ip}
      BY <2>1 DEF MachineType
    <3> HIDE DEF new
    <3>3. \A n \in Machines : machine'[n] = IF n = m THEN new ELSE machine[n]
      BY <2>1, <3>1
    <3> QED BY <3>1, <3>2, <3>3
  <2>4. ASSUME \/ SyncMachine(m) \/ DeleteInfra(m) \/ RemoveMachine(m)
               \/ CreateMachine(m) \/ DeleteMachine(m)
        PROVE  Calm
    <3>1. UNCHANGED server
      BY <2>4, Zenon DEF SyncMachine, DeleteInfra, RemoveMachine, CreateMachine, DeleteMachine,
         cloudVars
    <3>2. /\ \/ UNCHANGED infra
             \/ \E p : infra' = [infra EXCEPT ![m].phase = p]
          /\ \/ UNCHANGED machine
             \/ \E p : machine' = [machine EXCEPT ![m].phase = p]
      BY <2>4, Zenon DEF SyncMachine, DeleteInfra, RemoveMachine, CreateMachine, DeleteMachine
    <3>3. ASSUME NEW n \in Machines
          PROVE  infra'[n].ip = infra[n].ip /\ infra'[n].provisioned = infra[n].provisioned
      BY <2>1, <3>2 DEF InfraType
    <3>4. ASSUME NEW n \in Machines PROVE machine'[n].ip = machine[n].ip
      BY <2>1, <3>2 DEF MachineType
    <3> QED BY <3>1, <3>3, <3>4
  <2>5. ASSUME ServerActive(m) \/ ServerLost(m) PROVE Calm
    BY <2>1, <2>5 DEF ServerActive, ServerLost, objectVars, ServerType, NoServer
  <2>6. Calm
    BY <1>4, <2>3, <2>4, <2>5 DEF Progress
  <2>7. ASSUME NEW n \in Machines PROVE AddressOf(n)'
    BY <2>6 DEF AddressOf
  <2>8. mw.pc # "idle" => mw.m \in Machines
    BY DEF TypeInv
  <2>9. AddressFound'
    BY <2>1, <2>6, <2>8 DEF AddressFound
  <2> QED BY <2>7, <2>9
<1> QED BY <1>1, <1>2, <1>3, <1>4

-----------------------------------------------------------------------------
(* What the steps of the cluster reconciler do to its worker.              *)

\* Two copies of a StackitCluster agree on the bastion.
SameRecord(o, p) == o.enabled = p.enabled /\ o.group = p.group /\ o.hash = p.hash

\* Returning leaves the document that was read, going on the rest of the worker.
LEMMA ClusterMoved ==
  ASSUME cw \in ClusterWorkerType, NEW obj
  PROVE  /\ \A again : ClusterReturn(obj, again) =>
              cw'.pc = "patch" /\ cw'.obj = obj /\ cw'.again = again
         /\ \A pc : ClusterGoto(pc, obj) =>
              cw'.pc = pc /\ cw'.obj = obj /\ cw'.targets = cw.targets /\ cw'.data = cw.data
BY Zenon DEF ClusterReturn, ClusterGoto, ClusterWorkerType

\* A reconcile that failed: the cluster is not ready.
Fails == cw'.pc = "patch" /\ ~cw'.obj.ready /\ SameRecord(cw'.obj, cw.obj)

LEMMA BastionFailedEffect ==
  ASSUME TypeInv, NEW retryable, BastionFailed(retryable) PROVE Fails
<1> DEFINE o == [cw.obj EXCEPT !.ready = FALSE, !.reason = "BastionError"]
<1>1. cw \in ClusterWorkerType /\ cw.obj \in ClusterType
  BY DEF TypeInv, TypeOK, ClusterWorkerType
<1>2. SameRecord(o, cw.obj) /\ o.ready = FALSE
  BY <1>1 DEF SameRecord, ClusterType
<1>3. ClusterReturn(o, retryable)
  BY Zenon DEF BastionFailed
<1> HIDE DEF o
<1>4. cw'.pc = "patch" /\ cw'.obj = o
  BY <1>1, <1>3, ClusterMoved, Zenon
<1> QED BY <1>2, <1>4, Zenon DEF Fails

\* A fault is counted.
LEMMA FaultCounts ==
  ASSUME TypeInv, Fault PROVE faults' # 0
BY NodesAssumption DEF TypeInv, TypeOK, Fault

\* The first step: the copy of the object is fresh.
LEMMA ClusterStartEffect ==
  ASSUME TypeInv, ClusterStart
  PROVE  /\ cw.pc = "idle" /\ clusterQueue /\ SameRecord(cw'.obj, cluster)
         /\ UNCHANGED <<objectVars, cloudVars, machineQueue, mw, mode, edits>>
         /\ \/ cw'.pc = "ensureLB" /\ mode.balanced
            \/ cw'.pc = "bastion" /\ ~mode.balanced
            \/ /\ cw'.pc = "patch" /\ ~cw'.obj.ready
               /\ cw'.again \/ cw'.obj.network = "False"
<1> DEFINE placed == [cluster EXCEPT !.zones = failureDomainsFromZones(mode.zones)]
<1> DEFINE balanced == [placed EXCEPT !.network = "True"]
<1> DEFINE external == [placed EXCEPT !.network = "True", !.balancer = "True"]
<1> DEFINE refused == [placed EXCEPT !.ready = FALSE, !.network = "False"]
<1> DEFINE failed == StartFailed(cluster)
<1>1. cw \in ClusterWorkerType /\ cluster \in ClusterType
  BY DEF TypeInv, TypeOK
<1>2. /\ SameRecord(balanced, cluster) /\ SameRecord(external, cluster)
      /\ SameRecord(refused, cluster) /\ ~refused.ready /\ refused.network = "False"
      /\ SameRecord(failed, cluster) /\ ~failed.ready
  BY <1>1 DEF SameRecord, ClusterType, StartFailed
<1>3. /\ cw.pc = "idle" /\ clusterQueue
      /\ UNCHANGED <<objectVars, cloudVars, machineQueue, mw, mode, edits>>
      /\ \/ mode.balanced /\ ClusterGoto("ensureLB", balanced)
         \/ ~mode.balanced /\ ClusterGoto("bastion", external)
         \/ ClusterReturn(failed, TRUE)
         \/ \E again : ClusterReturn(refused, again)
  BY Zenon DEF ClusterStart
<1> HIDE DEF balanced, external, refused, failed
<1>4. \/ mode.balanced /\ cw'.pc = "ensureLB" /\ cw'.obj = balanced
      \/ ~mode.balanced /\ cw'.pc = "bastion" /\ cw'.obj = external
      \/ cw'.pc = "patch" /\ cw'.obj = failed /\ cw'.again = TRUE
      \/ cw'.pc = "patch" /\ cw'.obj = refused
  BY <1>1, <1>3, ClusterMoved, Zenon
<1> QED BY <1>2, <1>3, <1>4

\* The list of Machines is made here, or the reconcile ends; it is repeated unless the
\* cluster is not ready.
LEMMA EnsureLoadBalancerEffect ==
  ASSUME TypeInv, EnsureAPIServerLoadBalancer
  PROVE  /\ cw.pc = "ensureLB" /\ SameRecord(cw'.obj, cw.obj)
         /\ UNCHANGED <<objectVars, server, bastion, nodeGroup, clusterQueue, machineQueue,
                        mw, mode, edits>>
         /\ \/ /\ cw'.pc = "patch" /\ cw'.obj.balancer = "False"
               /\ cw'.again \/ ~cw'.obj.ready
            \/ /\ lb' = lb
               /\ \/ cw'.pc = "setTargets" /\ cw'.targets = APIServerTargets(machineSeen)
                  \/ cw'.pc = "bastion" /\ APIServerTargets(machineSeen) = {}
<1> DEFINE targets == APIServerTargets(machineSeen)
<1> DEFINE notReady == [cw.obj EXCEPT !.ready = FALSE, !.balancer = "False"]
<1> DEFINE unlisted == [cw.obj EXCEPT !.balancer = "False"]
<1> DEFINE served == [cw.obj EXCEPT !.balancer = "True"]
<1> DEFINE next == [cw EXCEPT !.pc = "setTargets", !.targets = targets]
<1>1. cw \in ClusterWorkerType /\ cw.obj \in ClusterType
  BY DEF TypeInv, TypeOK, ClusterWorkerType
<1>2. /\ SameRecord(notReady, cw.obj) /\ notReady.ready = FALSE /\ notReady.balancer = "False"
      /\ SameRecord(unlisted, cw.obj) /\ unlisted.balancer = "False"
      /\ SameRecord(served, cw.obj) /\ SameRecord(cw.obj, cw.obj)
  BY <1>1 DEF SameRecord, ClusterType
<1>3. next.obj = cw.obj /\ next.targets = targets /\ next.pc = "setTargets"
  BY <1>1 DEF ClusterWorkerType
<1>4. /\ cw.pc = "ensureLB"
      /\ UNCHANGED <<objectVars, server, bastion, nodeGroup, clusterQueue, machineQueue,
                     mw, mode, edits>>
  BY DEF EnsureAPIServerLoadBalancer
<1>5. \/ \E again : ClusterReturn(notReady, again)
      \/ ClusterReturn(unlisted, TRUE)
      \/ lb' = lb /\ cw' = next
      \/ lb' = lb /\ targets = {} /\ ClusterGoto("bastion", served)
  <2> DEFINE seed == IF targets = {} THEN {BootstrapTarget(bootstrapTargetIP(mode.prefixes))}
                     ELSE targets
  <2> DEFINE new == [state |-> "creating", pool |-> seed]
  <2> DEFINE ensured == IF lb.state = "none" THEN new ELSE lb
  <2> HIDE DEF seed
  <2>1. new.state # "ready"
    OBVIOUS
  <2> HIDE DEF new
  <2>2. \/ \E again : ClusterReturn(notReady, again)
        \/ ClusterReturn(unlisted, TRUE)
        \/ /\ lb' = ensured /\ ensured.state = "ready"
           /\ cw' = next \/ (targets = {} /\ ClusterGoto("bastion", served))
    BY Zenon DEF EnsureAPIServerLoadBalancer, UpdatesPool, new, seed
  <2> QED BY <2>1, <2>2, Zenon
<1> HIDE DEF notReady, unlisted, served, next, targets
<1>6. \/ cw'.pc = "patch" /\ cw'.obj = notReady
      \/ cw'.pc = "patch" /\ cw'.obj = unlisted /\ cw'.again = TRUE
      \/ lb' = lb /\ cw' = next
      \/ lb' = lb /\ targets = {} /\ cw'.pc = "bastion" /\ cw'.obj = served
  BY <1>1, <1>5, ClusterMoved, Zenon
<1> QED BY <1>2, <1>3, <1>4, <1>6 DEF targets

\* The pool is the list, or the reconcile is repeated.
LEMMA SetTargetsEffect ==
  ASSUME TypeInv, SetAPIServerLoadBalancerTargets
  PROVE  /\ cw.pc = "setTargets" /\ SameRecord(cw'.obj, cw.obj) /\ lb'.state = lb.state
         /\ UNCHANGED <<objectVars, server, bastion, nodeGroup, clusterQueue, machineQueue,
                        mw, mode, edits>>
         /\ \/ cw'.pc = "patch" /\ cw'.again
            \/ cw'.pc = "bastion" /\ lb'.pool = cw.targets
<1> DEFINE filled == [lb EXCEPT !.pool = cw.targets]
<1> DEFINE failed == [cw.obj EXCEPT !.balancer = "False"]
<1> DEFINE served == [cw.obj EXCEPT !.balancer = "True"]
<1> DEFINE next == [cw EXCEPT !.pc = "bastion", !.obj = served, !.targets = {}]
<1>1. cw \in ClusterWorkerType /\ cw.obj \in ClusterType /\ lb \in LBType
  BY DEF TypeInv, TypeOK, ClusterWorkerType
<1>2. filled.state = lb.state /\ filled.pool = cw.targets
  BY <1>1 DEF LBType
<1>3. SameRecord(failed, cw.obj) /\ SameRecord(served, cw.obj)
  BY <1>1 DEF SameRecord, ClusterType
<1>4. next.pc = "bastion" /\ next.obj = served
  BY <1>1 DEF ClusterWorkerType
<1>5. /\ cw.pc = "setTargets"
      /\ UNCHANGED <<objectVars, server, bastion, nodeGroup, clusterQueue, machineQueue,
                     mw, mode, edits>>
      /\ \/ ClusterReturn(failed, TRUE) /\ lb' \in {lb, filled}
         \/ cw' = next /\ lb' = filled
  BY Zenon DEF SetAPIServerLoadBalancerTargets
<1> HIDE DEF filled, failed, served, next
<1>6. ClusterReturn(failed, TRUE) => cw'.pc = "patch" /\ cw'.obj = failed /\ cw'.again = TRUE
  BY <1>1, ClusterMoved, Zenon
<1>7. CASE cw'.pc = "patch" /\ cw'.obj = failed /\ cw'.again = TRUE /\ lb' \in {lb, filled}
  BY <1>2, <1>3, <1>5, <1>7
<1>8. CASE cw' = next /\ lb' = filled
  BY <1>2, <1>3, <1>4, <1>5, <1>8
<1> QED BY <1>5, <1>6, <1>7, <1>8, Zenon

\* An enabled bastion is recreated for another document only, and a document that
\* cannot be read ends the reconcile.
LEMMA ReconcileBastionEffect ==
  ASSUME TypeInv, ReconcileBastion
  PROVE  /\ cw.pc = "bastion" /\ SameRecord(cw'.obj, cw.obj)
         /\ UNCHANGED <<objectVars, cloudVars, clusterQueue, machineQueue, mw, mode, edits>>
         /\ \/ ~cw.obj.enabled /\ cw'.pc = "patch"
            \/ ~cw.obj.enabled /\ cw'.pc = "revoke"
            \/ /\ cw.obj.enabled /\ cw'.data = content
               /\ cw'.pc = IF cw.obj.group # NoGroup /\ cw.obj.hash # content THEN "revoke"
                           ELSE "ensureBastion"
            \/ cw'.pc = "patch" /\ ~cw'.obj.ready
<1> DEFINE ready == [cw.obj EXCEPT !.ready = TRUE]
<1> DEFINE unread == [cw.obj EXCEPT !.ready = FALSE, !.reason = "CloudInitRefError"]
<1> DEFINE next == [cw EXCEPT !.data = content,
                      !.pc = IF bastionNeedsRecreate(cw.obj, content) THEN "revoke"
                             ELSE "ensureBastion"]
<1>1. cw \in ClusterWorkerType /\ cw.obj \in ClusterType
  BY DEF TypeInv, TypeOK, ClusterWorkerType
<1>2. /\ SameRecord(ready, cw.obj) /\ SameRecord(cw.obj, cw.obj)
      /\ SameRecord(unread, cw.obj) /\ unread.ready = FALSE
  BY <1>1 DEF SameRecord, ClusterType
<1>3. /\ next.obj = cw.obj /\ next.data = content
      /\ next.pc = IF cw.obj.group # NoGroup /\ cw.obj.hash # content THEN "revoke"
                   ELSE "ensureBastion"
  BY <1>1 DEF ClusterWorkerType, bastionNeedsRecreate
<1>4. /\ cw.pc = "bastion"
      /\ UNCHANGED <<objectVars, cloudVars, clusterQueue, machineQueue, mw, mode, edits>>
      /\ \/ ~cw.obj.enabled /\ ClusterReturn(ready, FALSE)
         \/ ~cw.obj.enabled /\ ClusterGoto("revoke", cw.obj)
         \/ cw.obj.enabled /\ cw' = next
         \/ ClusterReturn(unread, FALSE)
  BY Zenon DEF ReconcileBastion
<1> HIDE DEF ready, unread, next
<1>5. /\ ClusterReturn(ready, FALSE) => cw'.pc = "patch" /\ cw'.obj = ready
      /\ ClusterReturn(unread, FALSE) => cw'.pc = "patch" /\ cw'.obj = unread
      /\ ClusterGoto("revoke", cw.obj) => cw'.pc = "revoke" /\ cw'.obj = cw.obj
  BY <1>1, ClusterMoved, Zenon
<1> QED BY <1>2, <1>3, <1>4, <1>5, Zenon

\* The bastion and its record stay until the access is revoked.
LEMMA RevokeEffect ==
  ASSUME TypeInv, RevokeNodeSSHAccess
  PROVE  /\ cw.pc = "revoke" /\ SameRecord(cw'.obj, cw.obj)
         /\ UNCHANGED <<objectVars, server, lb, bastion, clusterQueue, machineQueue, mw,
                        mode, edits>>
         /\ \/ cw'.pc \in {"deleteGroup", "deleteBastion"}
            \/ Fails /\ UNCHANGED nodeGroup
<1>1. cw \in ClusterWorkerType /\ SameRecord(cw.obj, cw.obj)
  BY DEF TypeInv, TypeOK, SameRecord
<1>2. /\ cw.pc = "revoke"
      /\ UNCHANGED <<objectVars, server, lb, bastion, clusterQueue, machineQueue, mw,
                     mode, edits>>
      /\ \/ ClusterGoto(IF nodeGroup.exists THEN "deleteGroup" ELSE "deleteBastion", cw.obj)
         \/ (\E retryable : BastionFailed(retryable)) /\ UNCHANGED nodeGroup
  BY Zenon DEF RevokeNodeSSHAccess, BastionCallFailed
<1>3. CASE ClusterGoto(IF nodeGroup.exists THEN "deleteGroup" ELSE "deleteBastion", cw.obj)
  <2>1. /\ cw'.pc = (IF nodeGroup.exists THEN "deleteGroup" ELSE "deleteBastion")
        /\ cw'.obj = cw.obj
    BY <1>1, <1>3, ClusterMoved, Zenon
  <2> QED BY <1>1, <1>2, <2>1
<1>4. CASE (\E retryable : BastionFailed(retryable)) /\ UNCHANGED nodeGroup
  BY <1>2, <1>4, BastionFailedEffect DEF Fails
<1> QED BY <1>2, <1>3, <1>4

\* They stay until the group is deleted, too.
LEMMA DeleteGroupEffect ==
  ASSUME TypeInv, DeleteNodeSSHAccess
  PROVE  /\ cw.pc = "deleteGroup" /\ SameRecord(cw'.obj, cw.obj)
         /\ UNCHANGED <<objectVars, server, lb, bastion, clusterQueue, machineQueue, mw,
                        mode, edits>>
         /\ cw'.pc = "deleteBastion" \/ Fails
<1>1. cw \in ClusterWorkerType /\ SameRecord(cw.obj, cw.obj)
  BY DEF TypeInv, TypeOK, SameRecord
<1>2. /\ cw.pc = "deleteGroup"
      /\ UNCHANGED <<objectVars, server, lb, bastion, clusterQueue, machineQueue, mw,
                     mode, edits>>
      /\ \/ ClusterGoto("deleteBastion", cw.obj)
         \/ \E retryable : BastionFailed(retryable)
  BY Zenon DEF DeleteNodeSSHAccess, BastionCallFailed
<1>3. CASE ClusterGoto("deleteBastion", cw.obj)
  <2>1. cw'.pc = "deleteBastion" /\ cw'.obj = cw.obj
    BY <1>1, <1>3, ClusterMoved, Zenon
  <2> QED BY <1>1, <1>2, <2>1
<1>4. CASE \E retryable : BastionFailed(retryable)
  BY <1>2, <1>4, BastionFailedEffect DEF Fails
<1> QED BY <1>2, <1>3, <1>4

\* The record goes with the bastion.
LEMMA DeleteBastionEffect ==
  ASSUME TypeInv, DeleteBastion
  PROVE  /\ cw.pc = "deleteBastion" /\ cw'.obj.enabled = cw.obj.enabled
         /\ UNCHANGED <<objectVars, server, lb, nodeGroup, clusterQueue, machineQueue, mw,
                        mode, edits>>
         /\ \/ /\ cw'.pc = "patch" /\ cw'.obj.group = NoGroup
               /\ cw.obj.enabled => cw'.again
               /\ bastion' = IF cw.obj.group \in {NoGroup, bastion} THEN NoGroup ELSE bastion
            \/ Fails /\ faults' # 0
<1> DEFINE left == IF cw.obj.group \in {NoGroup, bastion} THEN NoGroup ELSE bastion
<1> DEFINE cleared == [cw.obj EXCEPT !.group = NoGroup, !.hash = 0]
<1> DEFINE recreating == [cleared EXCEPT !.reason = "Recreating", !.ready = FALSE]
<1> DEFINE skipped == [cleared EXCEPT !.reason = "Skipped", !.ready = TRUE]
<1>1. cw \in ClusterWorkerType /\ cw.obj \in ClusterType
  BY DEF TypeInv, TypeOK, ClusterWorkerType
<1>2. /\ recreating.group = NoGroup /\ recreating.enabled = cw.obj.enabled
      /\ skipped.group = NoGroup /\ skipped.enabled = cw.obj.enabled
  BY <1>1 DEF ClusterType
<1>3. /\ cw.pc = "deleteBastion"
      /\ UNCHANGED <<objectVars, server, lb, nodeGroup, clusterQueue, machineQueue, mw,
                     mode, edits>>
      /\ \/ bastion' = left /\ cw.obj.enabled /\ ClusterReturn(recreating, TRUE)
         \/ bastion' = left /\ ~cw.obj.enabled /\ ClusterReturn(skipped, FALSE)
         \/ (\E retryable : BastionFailed(retryable)) /\ Fault
  BY Zenon DEF DeleteBastion, BastionCallFailed
<1> HIDE DEF recreating, skipped, left
<1>4. CASE bastion' = left /\ cw.obj.enabled /\ ClusterReturn(recreating, TRUE)
  <2>1. cw'.pc = "patch" /\ cw'.obj = recreating /\ cw'.again = TRUE
    BY <1>1, <1>4, ClusterMoved, Zenon
  <2> QED BY <1>2, <1>3, <1>4, <2>1, Zenon DEF left
<1>5. CASE bastion' = left /\ ~cw.obj.enabled /\ ClusterReturn(skipped, FALSE)
  <2>1. cw'.pc = "patch" /\ cw'.obj = skipped
    BY <1>1, <1>5, ClusterMoved, Zenon
  <2> QED BY <1>2, <1>3, <1>5, <2>1 DEF left
<1>6. CASE (\E retryable : BastionFailed(retryable)) /\ Fault
  BY <1>3, <1>6, BastionFailedEffect, FaultCounts DEF Fails, SameRecord
<1> QED BY <1>3, <1>4, <1>5, <1>6, Zenon

\* The bastion there is stays, and it is recorded with the document that was read.
LEMMA EnsureBastionEffect ==
  ASSUME TypeInv, EnsureBastion
  PROVE  /\ cw.pc = "ensureBastion" /\ cw'.pc = "patch" /\ cw'.obj.enabled = cw.obj.enabled
         /\ UNCHANGED <<objectVars, server, lb, nodeGroup, clusterQueue, machineQueue, mw,
                        mode, edits>>
         /\ bastion # NoGroup => bastion' = bastion
         /\ \/ /\ cw'.obj.group = bastion' /\ cw'.obj.hash = cw.data
               /\ bastion' # NoGroup
            \/ Fails /\ faults' # 0
<1> DEFINE ensured == IF bastion = NoGroup THEN lastBastion + 1 ELSE bastion
<1> DEFINE recorded == [cw.obj EXCEPT !.group = ensured, !.hash = cw.data]
<1> DEFINE available == [recorded EXCEPT !.reason = "Available", !.ready = TRUE]
<1> DEFINE provisioning == [recorded EXCEPT !.reason = "Provisioning", !.ready = FALSE]
<1>1. cw \in ClusterWorkerType /\ cw.obj \in ClusterType
  BY DEF TypeInv, TypeOK, ClusterWorkerType
<1>2. \A o \in {available, provisioning} :
        o.group = ensured /\ o.hash = cw.data /\ o.enabled = cw.obj.enabled
  BY <1>1 DEF ClusterType
<1>3. ensured # NoGroup
  BY NodesAssumption DEF TypeInv, TypeOK, NoGroup, BastionIDs
<1>4. /\ cw.pc = "ensureBastion"
      /\ UNCHANGED <<objectVars, server, lb, nodeGroup, clusterQueue, machineQueue, mw,
                     mode, edits>>
      /\ \/ /\ bastion' = ensured
            /\ \E o \in {available, provisioning}, again \in BOOLEAN : ClusterReturn(o, again)
         \/ /\ bastion' \in {bastion, ensured} /\ Fault
            /\ \E retryable : BastionFailed(retryable)
  BY Zenon DEF EnsureBastion, BastionCallFailed
<1> HIDE DEF available, provisioning
<1>5. CASE /\ bastion' = ensured
           /\ \E o \in {available, provisioning}, again \in BOOLEAN : ClusterReturn(o, again)
  <2>1. cw'.pc = "patch" /\ cw'.obj \in {available, provisioning}
    BY <1>1, <1>5, ClusterMoved, Zenon
  <2> QED BY <1>2, <1>3, <1>4, <1>5, <2>1
<1>6. CASE /\ bastion' \in {bastion, ensured} /\ Fault
           /\ \E retryable : BastionFailed(retryable)
  <2>1. Fails /\ faults' # 0
    BY <1>6, BastionFailedEffect, FaultCounts
  <2> QED BY <1>4, <1>6, <2>1 DEF Fails, SameRecord
<1> QED BY <1>4, <1>5, <1>6, Zenon

\* What is patched is the copy, and a change is news.
LEMMA ClusterPatchEffect ==
  ASSUME TypeInv, ClusterPatch
  PROVE  /\ cw.pc = "patch" /\ cw' = IdleCluster /\ cw'.pc = "idle"
         /\ UNCHANGED <<clusterSeen, content, machine, machineSeen, infra, cloudVars,
                        machineQueue, mw, mode, edits>>
         /\ \/ /\ cluster'.enabled = cluster.enabled /\ cluster'.ready = cw.obj.ready
               /\ cluster'.group = cw.obj.group /\ cluster'.hash = cw.obj.hash
               /\ cluster'.network = cw.obj.network /\ cluster'.balancer = cw.obj.balancer
               /\ clusterQueue' = (clusterQueue \/ cw.again)
               /\ clusterNews' = (clusterNews \/ cluster' # cluster)
            \/ /\ clusterQueue' /\ faults' # 0 /\ UNCHANGED <<cluster, clusterNews>>
<1> DEFINE o == [cw.obj EXCEPT !.enabled = cluster.enabled]
<1>1. cw \in ClusterWorkerType /\ cw.obj \in ClusterType
  BY DEF TypeInv, TypeOK, ClusterWorkerType
<1>2. /\ o.enabled = cluster.enabled /\ o.ready = cw.obj.ready
      /\ o.group = cw.obj.group /\ o.hash = cw.obj.hash
      /\ o.network = cw.obj.network /\ o.balancer = cw.obj.balancer
  BY <1>1 DEF ClusterType
<1> HIDE DEF o
<1>3. /\ cw.pc = "patch" /\ cw' = IdleCluster
      /\ UNCHANGED <<clusterSeen, content, machine, machineSeen, infra, cloudVars,
                     machineQueue, mw, mode, edits>>
      /\ \/ /\ cluster' = o
            /\ clusterQueue' = (clusterQueue \/ cw.again)
            /\ clusterNews' = (clusterNews \/ cluster' # cluster)
         \/ clusterQueue' = TRUE /\ Fault /\ UNCHANGED <<cluster, clusterNews>>
  BY Zenon DEF ClusterPatch, o
<1>4. cw'.pc = "idle"
  BY <1>3 DEF IdleCluster
<1>5. Fault => faults' # 0
  BY FaultCounts
<1> QED BY <1>2, <1>3, <1>4, <1>5, Zenon

-----------------------------------------------------------------------------
(* The target pool follows the control plane: proofs.                      *)

\* The list depends on phases and addresses only, which is what the watch's
\* predicate compares.
LEMMA TargetsUnmoved ==
  ASSUME \A m \in ControlPlane : /\ machineSeen'[m].phase = machineSeen[m].phase
                                 /\ machineSeen'[m].ip = machineSeen[m].ip
  PROVE  APIServerTargets(machineSeen)' = APIServerTargets(machineSeen)
<1> DEFINE old == {m \in ControlPlane : machineSeen[m].phase = "active" /\ machineSeen[m].ip # NoIP}
<1> DEFINE new == {m \in ControlPlane : machineSeen'[m].phase = "active" /\ machineSeen'[m].ip # NoIP}
<1> DEFINE first(m) == \A n \in old : machineSeen[n].ip = machineSeen[m].ip => m <= n
<1> DEFINE firstNow(m) == \A n \in new : machineSeen'[n].ip = machineSeen'[m].ip => m <= n
<1>1. new = old
  OBVIOUS
<1>2. \A m \in old : firstNow(m) <=> first(m)
  BY <1>1
<1>3. {m \in new : firstNow(m)} = {m \in old : first(m)}
  BY <1>1, <1>2
<1> DEFINE chosen == {m \in old : first(m)}
<1>4. \A m \in chosen : machineSeen'[m].ip = machineSeen[m].ip
  OBVIOUS
<1>5. /\ APIServerTargets(machineSeen) = {[name |-> m, ip |-> machineSeen[m].ip] : m \in chosen}
      /\ APIServerTargets(machineSeen)' = {[name |-> m, ip |-> machineSeen'[m].ip] : m \in {n \in new : firstNow(n)}}
  BY DEF APIServerTargets
<1> HIDE DEF chosen, new, firstNow
<1>6. {[name |-> m, ip |-> machineSeen[m].ip] : m \in chosen}
        = {[name |-> m, ip |-> machineSeen'[m].ip] : m \in chosen}
  BY <1>4
<1>7. {m \in new : firstNow(m)} = chosen
  BY <1>3 DEF chosen
<1> QED BY <1>5, <1>6, <1>7

\* An address that a control plane Machine reports is in the list.
LEMMA TargetsComplete ==
  ASSUME NEW list \in [Machines -> MachineType], NEW m \in ControlPlane,
         list[m].phase = "active", list[m].ip # NoIP
  PROVE  \E t \in APIServerTargets(list) : t.ip = list[m].ip
<1> DEFINE addressed == {n \in ControlPlane : list[n].phase = "active" /\ list[n].ip # NoIP}
<1> DEFINE sharing == {n \in addressed : list[n].ip = list[m].ip}
<1>1. sharing \in SUBSET Nat /\ sharing # {}
  BY NodesAssumption, Zenon
<1>2. PICK x \in sharing : \A y \in sharing : x <= y
  BY <1>1, LeastNatural, Zenon
<1>3. x \in addressed /\ (\A n \in addressed : list[n].ip = list[x].ip => x <= n)
      /\ list[x].ip = list[m].ip
  BY <1>2
<1>4. [name |-> x, ip |-> list[x].ip] \in APIServerTargets(list)
  BY <1>3 DEF APIServerTargets
<1>5. [name |-> x, ip |-> list[x].ip].ip = list[m].ip
  BY <1>3
<1> QED BY <1>4, <1>5

\* The list names active Machines.
LEMMA TargetsActive ==
  ASSUME NEW list, NEW t \in APIServerTargets(list)
  PROVE  t.name \in ControlPlane /\ list[t.name].phase = "active"
BY DEF APIServerTargets

\* The watch of the Machines: a change of the list wakes up the cluster reconciler.
LEMMA WatchFollows ==
  ASSUME TypeInv, NEW m \in Machines, SyncMachine(m)
  PROVE  /\ UNCHANGED <<lb, cw, mode, cluster>> /\ (clusterQueue => clusterQueue')
         /\ \/ clusterQueue'
            \/ APIServerTargets(machineSeen)' = APIServerTargets(machineSeen)
<1>1. UNCHANGED <<lb, cw, mode, cluster>> /\ (clusterQueue => clusterQueue')
  BY DEF SyncMachine, cloudVars, budgetVars
<1>2. CASE clusterQueue'
  BY <1>1, <1>2
<1>3. CASE ~clusterQueue'
  <2>1. machineSeen' = [machineSeen EXCEPT ![m] = machine[m]]
        /\ (m \in ControlPlane =>
              machineSeen[m].phase = machine[m].phase /\ machineSeen[m].ip = machine[m].ip)
    BY <1>3 DEF SyncMachine, machineTargetPoolChanged
  <2>2. \A n \in ControlPlane : /\ machineSeen'[n].phase = machineSeen[n].phase
                                /\ machineSeen'[n].ip = machineSeen[n].ip
    BY <2>1, NodesAssumption DEF TypeInv, TypeOK
  <2> QED BY <1>1, <2>2, TargetsUnmoved
<1> QED BY <1>2, <1>3

\* The steps of the cluster reconciler.
LEMMA ClusterStepFollows ==
  ASSUME TypeInv, FollowInv, ClusterStep PROVE FollowInv'
<1> USE DEF FollowInv, PoolCurrent
<1>1. CASE ClusterStart
  <2>1. UNCHANGED <<lb, mode, machineSeen>>
    BY <1>1, ClusterStartEffect DEF objectVars, cloudVars
  <2>2. \/ cw'.pc = "ensureLB" /\ mode.balanced
        \/ cw'.pc = "bastion" /\ lb.state = "none"
        \/ cw'.pc = "patch" /\ (cw'.again \/ Blocked(cw'.obj))
    BY <1>1, ClusterStartEffect DEF Blocked
  <2> QED BY <2>1, <2>2
<1>2. CASE EnsureAPIServerLoadBalancer
  <2>1. UNCHANGED <<mode, machineSeen, clusterQueue>> /\ mode.balanced
    BY <1>2, EnsureLoadBalancerEffect DEF objectVars
  <2>2. \/ cw'.pc = "patch" /\ Blocked(cw'.obj)
        \/ /\ lb' = lb
           /\ \/ cw'.pc = "setTargets" /\ cw'.targets = APIServerTargets(machineSeen)
              \/ cw'.pc = "bastion" /\ APIServerTargets(machineSeen) = {}
    BY <1>2, EnsureLoadBalancerEffect DEF Blocked
  <2> QED BY <2>1, <2>2
<1>3. CASE SetAPIServerLoadBalancerTargets
  <2>1. /\ UNCHANGED <<mode, machineSeen, clusterQueue>> /\ mode.balanced
        /\ cw.pc = "setTargets"
    BY <1>3, SetTargetsEffect DEF objectVars
  <2>2. \/ cw'.pc = "patch" /\ cw'.again
        \/ cw'.pc = "bastion" /\ lb'.pool = cw.targets
    BY <1>3, SetTargetsEffect
  <2> QED BY <2>1, <2>2
<1>4. CASE \/ ReconcileBastion \/ RevokeNodeSSHAccess \/ DeleteNodeSSHAccess
           \/ DeleteBastion \/ EnsureBastion
  <2>1. /\ cw.pc \in {"bastion", "revoke", "deleteGroup", "deleteBastion", "ensureBastion"}
        /\ UNCHANGED <<lb, mode, machineSeen, clusterQueue>>
    BY <1>4, ReconcileBastionEffect, RevokeEffect, DeleteGroupEffect, DeleteBastionEffect,
       EnsureBastionEffect, Zenon DEF objectVars, cloudVars, budgetVars
  <2>2. cw'.pc \in {"patch", "revoke", "deleteGroup", "deleteBastion", "ensureBastion"}
    <3>1. CASE ReconcileBastion
      BY <3>1, ReconcileBastionEffect
    <3>2. CASE RevokeNodeSSHAccess
      BY <3>2, RevokeEffect DEF Fails
    <3>3. CASE DeleteNodeSSHAccess
      BY <3>3, DeleteGroupEffect DEF Fails
    <3>4. CASE DeleteBastion
      BY <3>4, DeleteBastionEffect DEF Fails
    <3>5. CASE EnsureBastion
      BY <3>5, EnsureBastionEffect DEF Fails
    <3> QED BY <1>4, <3>1, <3>2, <3>3, <3>4, <3>5
  <2> QED BY <2>1, <2>2
<1>5. CASE ClusterPatch
  <2>1. UNCHANGED <<lb, mode, machineSeen>> /\ cw.pc = "patch" /\ cw'.pc = "idle"
    BY <1>5, ClusterPatchEffect DEF cloudVars
  <2>2. clusterQueue \/ cw.again => clusterQueue'
    BY <1>5, ClusterPatchEffect, Zenon
  <2>3. clusterQueue' \/ (Blocked(cw.obj) => Blocked(cluster'))
    BY <1>5, ClusterPatchEffect, Zenon DEF Blocked
  <2> QED BY <2>1, <2>2, <2>3
<1> QED BY <1>1, <1>2, <1>3, <1>4, <1>5 DEF ClusterStep

\* Everyone else.
LEMMA OthersFollow ==
  ASSUME TypeInv, FollowInv,
         \/ MachineStep \/ SyncCluster \/ Restart \/ ToggleBastion \/ EditCloudInit
         \/ LoadBalancerReady \/ LoadBalancerLost
         \/ \E m \in Machines :
              \/ SyncMachine(m) \/ Progress(m)
              \/ CreateMachine(m) \/ DeleteMachine(m) \/ ServerLost(m)
         \/ UNCHANGED vars
  PROVE  FollowInv'
<1> USE DEF FollowInv, PoolCurrent
<1>1. ASSUME UNCHANGED <<lb, cw, mode, machineSeen>>, clusterQueue => clusterQueue',
             Blocked(cluster) => Blocked(cluster')
      PROVE  FollowInv'
  BY <1>1
<1>2. CASE MachineStep
  <2>1. UNCHANGED <<lb, cw, mode, machineSeen, clusterQueue, cluster>>
    <3>1. ASSUME NEW m \in Machines, MachineStart(m)
          PROVE  UNCHANGED <<lb, cw, mode, machineSeen, clusterQueue, cluster>>
      BY <3>1 DEF MachineStart, objectVars, cloudVars
    <3>2. CASE EnsureServer
      BY <3>2 DEF EnsureServer, objectVars
    <3>3. CASE ensureNodeSSHSecurityGroup \/ ensureNodeSSHSecurityGroupRule
                 \/ addSecurityGroupToServer
      BY <3>3, Zenon DEF ensureNodeSSHSecurityGroup, ensureNodeSSHSecurityGroupRule,
                  addSecurityGroupToServer, NodeAccessStep, objectVars
    <3>4. CASE DestroyServer
      BY <3>4 DEF DestroyServer
    <3>5. CASE MachinePatch
      BY <3>5 DEF MachinePatch, cloudVars
    <3> QED BY <1>2, <3>1, <3>2, <3>3, <3>4, <3>5 DEF MachineStep
  <2> QED BY <1>1, <2>1
<1>3. CASE Restart
  <2>1. UNCHANGED <<lb, mode>> /\ cw'.pc = "idle" /\ clusterQueue'
    BY <1>3 DEF Restart, cloudVars, IdleCluster
  <2> QED BY <2>1
<1>4. CASE SyncCluster \/ ToggleBastion \/ EditCloudInit \/ UNCHANGED vars
  <2>1. UNCHANGED <<lb, cw, mode, machineSeen>> /\ (clusterQueue => clusterQueue')
    BY <1>4 DEF SyncCluster, ToggleBastion, EditCloudInit, vars, objectVars, cloudVars, workVars,
       budgetVars
  <2>2. cluster' \in {cluster, [cluster EXCEPT !.enabled = ~@]}
    BY <1>4 DEF SyncCluster, ToggleBastion, EditCloudInit, vars, objectVars
  <2>3. cluster'.network = cluster.network /\ cluster'.balancer = cluster.balancer
    BY <2>2 DEF TypeInv, TypeOK, ClusterType
  <2> QED BY <1>1, <2>1, <2>3 DEF Blocked
<1>5. CASE LoadBalancerReady \/ LoadBalancerLost
  <2>1. UNCHANGED <<cw, mode, machineSeen, clusterQueue, cluster>>
    BY <1>5 DEF LoadBalancerReady, LoadBalancerLost, objectVars, workVars, budgetVars
  <2>2. lb'.state = "none" \/ (lb.state # "none" /\ lb'.pool = lb.pool)
    BY <1>5 DEF LoadBalancerReady, LoadBalancerLost, NoLB, TypeInv, TypeOK, LBType
  <2> QED BY <2>1, <2>2 DEF Blocked
<1>6. ASSUME NEW m \in Machines, SyncMachine(m) PROVE FollowInv'
  BY <1>6, WatchFollows DEF Blocked
<1>7. ASSUME NEW m \in Machines,
             Progress(m) \/ CreateMachine(m) \/ DeleteMachine(m) \/ ServerLost(m)
      PROVE  FollowInv'
  <2>1. UNCHANGED <<lb, cw, mode, machineSeen, clusterQueue, cluster>>
    BY <1>7, Zenon DEF Progress, PublishAddresses, DeleteInfra, RemoveMachine,
           ServerActive, CreateMachine, DeleteMachine, ServerLost,
           objectVars, cloudVars, workVars, budgetVars
  <2> QED BY <1>1, <2>1
<1> QED BY <1>2, <1>3, <1>4, <1>5, <1>6, <1>7

\* Nothing has an address at first, and the cluster is queued.
LEMMA InitServed == Init => AddressInv /\ FollowInv
<1> SUFFICES ASSUME Init PROVE AddressInv /\ FollowInv
  OBVIOUS
<1>1. mw.pc = "idle" /\ cw.pc = "idle" /\ lb.state = "none" /\ clusterQueue
  BY DEF Init, IdleMachine, IdleCluster, NoLB
<1>2. \A m \in Machines : infra[m].ip = NoIP /\ machine[m].ip = NoIP
  BY DEF Init, NoMachine, NoInfra
<1> QED BY <1>1, <1>2 DEF AddressInv, AddressOf, AddressFound, FollowInv

\* Every step keeps the addresses and the pool.
LEMMA NextServed ==
  TypeInv /\ AddressInv /\ FollowInv /\ [Next]_vars => AddressInv' /\ FollowInv'
BY MachineStepAddress, OthersAddress, ClusterStepFollows, OthersFollow, Zenon DEF Next

\* When all is at rest every running control plane server whose address reached
\* its Machine is behind the load balancer and nothing else is, for every number
\* of Machines, faults and edits: no change of the list escapes
\* machineTargetPoolChanged, and a reconcile that was past its list when the
\* change came is followed by another (APIServerTargets,
\* SetAPIServerLoadBalancerTargets).
THEOREM PoolServed == Spec => []PoolServesControlPlane
<1>1. TypeInv /\ AddressInv /\ FollowInv => PoolServesControlPlane
  <2> SUFFICES ASSUME TypeInv, AddressInv, FollowInv, Rest, lb.state = "ready",
                      cluster.network = "True", cluster.balancer = "True",
                      NEW s \in ControlPlane,
                      machine[s].phase = "active", machine[s].ip # NoIP,
                      server[s].state = "active"
               PROVE  /\ \A m \in ControlPlane :
                           /\ machine[m].phase = "active" /\ machine[m].ip # NoIP
                           /\ server[m].state = "active"
                           => \E t \in lb.pool : t.ip = server[m].ip
                      /\ \A t \in lb.pool : /\ t.name # BootstrapTargetName
                                            /\ machine[t.name].phase = "active"
    BY DEF PoolServesControlPlane
  <2>1. cw.pc = "idle" /\ ~clusterQueue /\ machineSeen = machine
    BY DEF Rest
  <2>2. machine \in [Machines -> MachineType] /\ ControlPlane \subseteq Machines
        /\ Machines \subseteq Nat \ {0}
    BY NodesAssumption DEF TypeInv, TypeOK
  <2>3. ASSUME NEW m \in ControlPlane, machine[m].phase = "active", machine[m].ip # NoIP
        PROVE  \E t \in APIServerTargets(machine) : t.ip = machine[m].ip
    BY <2>2, <2>3, TargetsComplete
  <2>4. lb.pool = APIServerTargets(machine)
    BY <2>1, <2>3 DEF FollowInv, PoolCurrent, Blocked
  <2>5. ASSUME NEW m \in ControlPlane, machine[m].ip # NoIP, server[m].state = "active"
        PROVE  machine[m].ip = server[m].ip
    BY <2>2, <2>5 DEF AddressInv, AddressOf
  <2>6. \A t \in lb.pool : t.name \in ControlPlane /\ machine[t.name].phase = "active"
    BY <2>4, TargetsActive
  <2> QED BY <2>2, <2>3, <2>4, <2>5, <2>6 DEF BootstrapTargetName
<1> QED BY <1>1, TypesHold, InitServed, NextServed, PTL DEF Spec

=============================================================================
