------------------------ MODULE StackitClusterProofs ------------------------
(***************************************************************************)
(* Proofs about StackitCluster, for any number of resources, faults and    *)
(* edits, any labels and documents, with and without stale reads.          *)
(***************************************************************************)
EXTENDS StackitCluster, TLAPS

-----------------------------------------------------------------------------
(* The parts of the type invariant *)

PCs == {"idle", "zones", "network", "loadBalancer", "targets", "bastion",
        "ensureSG", "ensureServer", "ensureIP",
        "machines", "deleteLB", "dropNodeSSH", "resolveBastion",
        "dropServer", "dropIP", "dropSG", "deleteNetwork",
        "patchConditions", "patchSpec", "patchStatus", "patchDone"}

Outcomes == {"none", "retry", "settled", "waiting", "paused", "orphaned"}

RecordedIDs == IDs \cup {NoID}

StoredTyped == api \in Objects /\ cache \in Objects /\ before \in Objects

\* What a step of a handler moves besides the cloud: see Return and Continue.
MoveTyped ==
  /\ mem \in Objects
  /\ pc \in PCs
  /\ resume \in {"zones", "deferred", "idle"}
  /\ queued \in BOOLEAN
  /\ outcome \in Outcomes

CallTyped ==
  /\ ids \in [server : RecordedIDs, ip : RecordedIDs, sg : RecordedIDs,
              active : BOOLEAN]
  /\ why \in {"none", "disable", "recreate", "delete"}
  /\ userData \in Contents

CloudTyped ==
  /\ state \in [Resources -> States]
  /\ tags \in [Resources -> LabelSets]
  /\ bootData \in [IDs -> Contents]
  /\ groups \in [IDs -> SUBSET IDs]

WorldTyped ==
  /\ content \in Contents
  /\ machines \in {"none", "present", "gone"}
  /\ edits \in 0..mode.edits
  /\ mode \in Modes

FaultsTyped == faults \in 0..mode.faults

\* TypeOK, and what it needs to be inductive: EnsureBastion attaches a group to
\* the server that it resolved before.
TypeInv ==
  /\ StoredTyped /\ MoveTyped /\ CallTyped /\ CloudTyped /\ WorldTyped
  /\ FaultsTyped
  /\ skipped \in BOOLEAN
  /\ pc = "ensureServer" => ids.sg \in IDs

LEMMA TypeInvImpliesTypeOK == TypeInv => TypeOK
  BY DEF TypeInv, TypeOK, StoredTyped, MoveTyped, CallTyped, CloudTyped,
         WorldTyped, FaultsTyped, PCs, Outcomes, RecordedIDs

-----------------------------------------------------------------------------
(* The object *)

LEMMA IDFacts == /\ IDs \subseteq Nat /\ 1 \in IDs /\ NoID \notin IDs
                 /\ LoadBalancerID \in IDs /\ ByoNetworkID \in IDs
  BY ClusterAssumption DEF IDs, NoID, LoadBalancerID, ByoNetworkID

LEMMA ModeFacts ==
  ASSUME mode \in Modes
  PROVE  /\ mode.managed \in BOOLEAN /\ mode.balanced \in BOOLEAN
         /\ mode.faults \in Nat /\ mode.edits \in Nat
         /\ mode.kinds \subseteq Disturbances
  BY ClusterAssumption DEF ModeType

LEMMA NewObjects ==
  ASSUME mode \in Modes
  PROVE  NewObject \in Objects /\ NoObject \in Objects
<1> DEFINE e == ~LoadBalancer
<1>1. e \in BOOLEAN /\ InitialLabels \in LabelSets /\ BastionAtStart \in BOOLEAN
  BY ClusterAssumption
<1>2. NewObject \in Objects
  <2>1. NewObject =
          [exists |-> TRUE, deleting |-> FALSE, finalizer |-> FALSE,
           labels |-> InitialLabels, enabled |-> BastionAtStart, endpoint |-> e,
           network |-> NoID, lbID |-> NoID,
           server |-> NoID, ip |-> NoID, sg |-> NoID, hash |-> NoHash,
           ready |-> FALSE, provisioned |-> FALSE,
           lbReady |-> "Unknown", bastionReady |-> "Unknown", readyCond |-> "Unknown"]
    BY DEF NewObject
  <2> HIDE DEF e
  <2> QED BY <1>1, <2>1 DEF Objects, ConditionStatus
<1>3. NoObject \in Objects
  BY <1>2, Zenon DEF NoObject, Objects
<1> QED BY <1>2, <1>3

\* The assignments of the handlers keep an object an object.
LEMMA SetFlags ==
  ASSUME NEW o \in Objects, NEW b \in BOOLEAN
  PROVE  /\ [o EXCEPT !.finalizer = b] \in Objects
         /\ [o EXCEPT !.deleting = b] \in Objects
         /\ [o EXCEPT !.enabled = b] \in Objects
         /\ [o EXCEPT !.endpoint = b] \in Objects
<1>1. [o EXCEPT !.finalizer = b] \in Objects
  BY DEF Objects
<1>2. [o EXCEPT !.deleting = b] \in Objects
  BY DEF Objects
<1>3. [o EXCEPT !.enabled = b] \in Objects
  BY DEF Objects
<1>4. [o EXCEPT !.endpoint = b] \in Objects
  BY DEF Objects
<1> QED BY <1>1, <1>2, <1>3, <1>4

LEMMA SetConditions ==
  ASSUME NEW o \in Objects, NEW c \in ConditionStatus
  PROVE  /\ [o EXCEPT !.lbReady = c] \in Objects
         /\ [o EXCEPT !.bastionReady = c] \in Objects
         /\ [o EXCEPT !.ready = FALSE, !.readyCond = "False"] \in Objects
         /\ [o EXCEPT !.ready = TRUE, !.provisioned = TRUE, !.readyCond = "True"]
              \in Objects
<1>1. [o EXCEPT !.lbReady = c] \in Objects
  BY DEF Objects
<1>2. [o EXCEPT !.bastionReady = c] \in Objects
  BY DEF Objects
<1>3. [o EXCEPT !.ready = FALSE, !.readyCond = "False"] \in Objects
  BY Zenon DEF Objects, ConditionStatus
<1>4. [o EXCEPT !.ready = TRUE, !.provisioned = TRUE, !.readyCond = "True"]
        \in Objects
  BY Zenon DEF Objects, ConditionStatus
<1> QED BY <1>1, <1>2, <1>3, <1>4

LEMMA SetIDs ==
  ASSUME NEW o \in Objects, NEW i \in RecordedIDs
  PROVE  /\ [o EXCEPT !.network = i] \in Objects
         /\ [o EXCEPT !.lbID = i] \in Objects
         /\ WithoutBastion(o) \in Objects
<1>1. [o EXCEPT !.network = i] \in Objects
  BY DEF Objects, RecordedIDs
<1>2. [o EXCEPT !.lbID = i] \in Objects
  BY DEF Objects, RecordedIDs
<1>3. WithoutBastion(o) \in Objects
  BY Zenon DEF Objects, WithoutBastion
<1> QED BY <1>1, <1>2, <1>3

LEMMA SetBastion ==
  ASSUME mem \in Objects, CallTyped, NEW i \in IDs
  PROVE  WithBastion(i) \in Objects
<1>1. ids.server \in IDs \cup {NoID} /\ ids.sg \in IDs \cup {NoID}
  BY DEF CallTyped, RecordedIDs
<1>2. CloudInitHash(userData) \in {NoHash} \cup {CloudInitHash(c) : c \in Contents}
  BY DEF CallTyped
<1> QED BY <1>1, <1>2, Zenon DEF WithBastion, Objects

\* A merge patch takes every field from one object or the other.
LEMMA PatchedTyped ==
  ASSUME StoredTyped, mem \in Objects, mode \in Modes, NEW fields
  PROVE  Patched(fields) \in Objects /\ Collected(Patched(fields)) \in Objects
<1>1. api \in Objects /\ mem \in Objects
  BY DEF StoredTyped
<1>2. Patched(fields) \in Objects
  BY <1>1, SMTT(60) DEF Patched, Merged, Objects
<1> QED BY <1>2, NewObjects DEF Collected

-----------------------------------------------------------------------------
(* Moves of a handler *)

LEMMA ReturnTyped ==
  ASSUME NEW m \in Objects, NEW how \in Outcomes, queued \in BOOLEAN,
         Return(m, how)
  PROVE  MoveTyped' /\ pc' # "ensureServer"
  BY DEF Return, MoveTyped, PCs

LEMMA ContinueTyped ==
  ASSUME NEW m \in Objects, NEW next \in PCs, MoveTyped, Continue(m, next)
  PROVE  MoveTyped' /\ pc' = next
  BY DEF Continue, MoveTyped

LEMMA CloudFailsTyped ==
  ASSUME NEW m \in Objects, NEW err, queued \in BOOLEAN, CloudFails(m, err)
  PROVE  MoveTyped' /\ pc' # "ensureServer"
<1> DEFINE o == [m EXCEPT !.ready = FALSE, !.readyCond = "False"]
           how == IF err = "retryable" THEN "retry" ELSE "waiting"
<1>1. o \in Objects
  BY SetConditions, Zenon DEF ConditionStatus
<1>2. how \in Outcomes
  BY DEF Outcomes
<1>3. Return(o, how)
  BY DEF CloudFails
<1> QED BY <1>1, <1>2, <1>3, ReturnTyped

LEMMA SetReadyTyped ==
  ASSUME NEW m \in Objects, queued \in BOOLEAN, SetReady(m)
  PROVE  MoveTyped' /\ pc' # "ensureServer"
<1> DEFINE o == [m EXCEPT !.ready = TRUE, !.provisioned = TRUE, !.readyCond = "True"]
<1>1. o \in Objects
  BY SetConditions, Zenon DEF ConditionStatus
<1>2. Return(o, "settled")
  BY DEF SetReady
<1> QED BY <1>1, <1>2, ReturnTyped DEF Outcomes

LEMMA BastionFailsTyped ==
  ASSUME MoveTyped, NEW err, BastionFails(err)
  PROVE  MoveTyped' /\ pc' # "ensureServer"
<1> DEFINE o == [mem EXCEPT !.bastionReady = "False"]
<1>1. o \in Objects
  BY SetConditions, Zenon DEF MoveTyped, ConditionStatus
<1>2. CloudFails(o, err)
  BY DEF BastionFails
<1> QED BY <1>1, <1>2, CloudFailsTyped DEF MoveTyped

LEMMA RetryTyped ==
  ASSUME MoveTyped, Return(mem, "retry")
  PROVE  MoveTyped' /\ pc' # "ensureServer"
  BY ReturnTyped DEF MoveTyped, Outcomes

LEMMA DropFailsTyped ==
  ASSUME MoveTyped, NEW err, DropFails(err)
  PROVE  MoveTyped' /\ pc' # "ensureServer"
  BY BastionFailsTyped, RetryTyped DEF DropFails

LEMMA FaultsBounded ==
  ASSUME mode \in Modes, FaultsTyped, Fault \/ NoFault, mode' = mode
  PROVE  FaultsTyped'
  BY ModeFacts DEF FaultsTyped, Fault, NoFault

LEMMA LookupFailsTyped ==
  ASSUME MoveTyped, NEW ambiguous, LookupFails(ambiguous)
  PROVE  MoveTyped' /\ pc' # "ensureServer" /\ (Fault \/ NoFault)
  BY DropFailsTyped DEF LookupFails

-----------------------------------------------------------------------------
(* Cloud calls *)

LEMMA AttachTyped ==
  ASSUME CloudTyped, NEW k, NEW i \in IDs, k = "server" => ids.sg \in IDs,
         Attach(k, i)
  PROVE  (groups \in [IDs -> SUBSET IDs])'
  BY DEF CloudTyped, Attach

LEMMA CreateTyped ==
  ASSUME CloudTyped, mem \in Objects, userData \in Contents,
         NEW k \in Kinds, NEW i \in IDs, k = "server" => ids.sg \in IDs,
         Create(k, i)
  PROVE  CloudTyped'
<1>1. (groups \in [IDs -> SUBSET IDs])'
  BY AttachTyped DEF Create
<1>2. (state \in [Resources -> States])'
  BY Zenon DEF Create, CloudTyped, States
<1>3. (tags \in [Resources -> LabelSets])'
  BY Zenon DEF Create, CloudTyped, Objects
<1>4. (bootData \in [IDs -> Contents])'
  BY DEF Create, CloudTyped
<1> QED BY <1>1, <1>2, <1>3, <1>4 DEF CloudTyped

LEMMA EnsureTyped ==
  ASSUME CloudTyped, mem \in Objects, userData \in Contents,
         NEW k \in Kinds, NEW id \in RecordedIDs, NEW err,
         k = "server" => ids.sg \in IDs,
         err = "none" => id \in IDs,
         Ensure(k, id, err)
  PROVE  CloudTyped' /\ (Fault \/ NoFault)
<1>1. CASE /\ err = "none" /\ NoFault /\ Attach(k, id)
           /\ UNCHANGED <<state, tags, bootData>>
  BY <1>1, AttachTyped DEF CloudTyped
<1>2. CASE err = "none" /\ Create(k, id) /\ NoFault
  BY <1>2, CreateTyped
<1>3. CASE (Fault \/ NoFault) /\ UNCHANGED cloudVars
  BY <1>3 DEF CloudTyped, cloudVars
<1>4. CASE Fault /\ \E i \in IDs : Create(k, i)
  BY <1>4, CreateTyped
<1> QED BY <1>1, <1>2, <1>3, <1>4 DEF Ensure

LEMMA DeletedTyped ==
  ASSUME CloudTyped, NEW k, NEW i
  PROVE  Deleted(k, i) \in [Resources -> States]
  BY DEF CloudTyped, Deleted, States, Live

LEMMA DropTyped ==
  ASSUME CloudTyped, MoveTyped, NEW k, NEW i, NEW next \in PCs,
         next # "ensureServer", Drop(k, i, next)
  PROVE  /\ MoveTyped' /\ pc' # "ensureServer" /\ (Fault \/ NoFault)
         /\ (state \in [Resources -> States])'
<1>1. Deleted(k, i) \in [Resources -> States] /\ state \in [Resources -> States]
  BY DeletedTyped DEF CloudTyped
<1>2. mem \in Objects
  BY DEF MoveTyped
<1>3. CASE NoFault /\ state' = Deleted(k, i) /\ Continue(mem, next)
  BY <1>1, <1>2, <1>3, ContinueTyped
<1>4. CASE /\ Fault /\ state' \in {state, Deleted(k, i)}
           /\ \E err \in Errors : DropFails(err)
  BY <1>1, <1>4, DropFailsTyped
<1> QED BY <1>3, <1>4 DEF Drop

-----------------------------------------------------------------------------
(* Every action keeps the types *)

LEMMA StepTyped ==
  ASSUME TypeInv, StoredTyped', MoveTyped', CallTyped', CloudTyped',
         skipped' \in BOOLEAN, UNCHANGED worldVars, Fault \/ NoFault,
         pc' = "ensureServer" => ids'.sg \in IDs
  PROVE  TypeInv'
<1>1. WorldTyped' /\ mode' = mode /\ mode \in Modes /\ FaultsTyped
  BY DEF TypeInv, WorldTyped, worldVars
<1>2. FaultsTyped'
  BY <1>1, FaultsBounded
<1> QED BY <1>1, <1>2 DEF TypeInv

\* The steps of reconcileNormal and of the teardown leave the stored object alone.
LEMMA HandlerTyped ==
  ASSUME TypeInv, UNCHANGED <<api, cache, before, worldVars>>,
         MoveTyped', CallTyped', CloudTyped', skipped' \in BOOLEAN,
         Fault \/ NoFault, pc' = "ensureServer" => ids'.sg \in IDs
  PROVE  TypeInv'
<1>1. StoredTyped'
  BY DEF TypeInv, StoredTyped
<1> QED BY <1>1, StepTyped

LEMMA SameCall ==
  ASSUME TypeInv, UNCHANGED callVars
  PROVE  CallTyped'
  BY DEF TypeInv, CallTyped, callVars

LEMMA SameCloud ==
  ASSUME TypeInv, UNCHANGED cloudVars
  PROVE  CloudTyped'
  BY DEF TypeInv, CloudTyped, cloudVars

LEMMA CheckZonesTyped ==
  ASSUME TypeInv, CheckZones
  PROVE  TypeInv'
<1>0. mem \in Objects /\ queued \in BOOLEAN /\ MoveTyped /\ "network" \in PCs
  BY DEF TypeInv, MoveTyped, PCs
<1>1. MoveTyped' /\ pc' # "ensureServer" /\ (Fault \/ NoFault)
  BY <1>0, ContinueTyped, CloudFailsTyped DEF CheckZones
<1> QED BY <1>1, HandlerTyped, SameCall, SameCloud DEF CheckZones, TypeInv

LEMMA EnsureNetworkTyped ==
  ASSUME TypeInv, EnsureNetwork
  PROVE  TypeInv'
<1> USE DEF EnsureNetwork
<1>0. mem \in Objects /\ queued \in BOOLEAN /\ MoveTyped /\ CloudTyped
      /\ userData \in Contents /\ skipped \in BOOLEAN
  BY DEF TypeInv, MoveTyped, CallTyped
<1>1. ASSUME NEW i \in IDs
      PROVE  [mem EXCEPT !.network = i] \in Objects
  BY <1>0, SetIDs, Zenon DEF RecordedIDs
<1>2. "loadBalancer" \in PCs /\ "network" \in Kinds /\ ByoNetworkID \in IDs
  BY IDFacts DEF PCs, Kinds
<1>3. CASE ~ManagedNetwork
  <2>1. MoveTyped' /\ pc' # "ensureServer" /\ (Fault \/ NoFault) /\ UNCHANGED cloudVars
    BY <1>0, <1>1, <1>2, <1>3, ContinueTyped, CloudFailsTyped
  <2> QED BY <1>0, <2>1, HandlerTyped, SameCall, SameCloud
<1>4. CASE ManagedNetwork /\ Present("network", mem.network)
  <2>1. MoveTyped' /\ pc' # "ensureServer" /\ (Fault \/ NoFault) /\ UNCHANGED cloudVars
    BY <1>0, <1>2, <1>4, ContinueTyped, CloudFailsTyped
  <2> QED BY <1>0, <2>1, HandlerTyped, SameCall, SameCloud
<1>5. CASE ManagedNetwork /\ ~Present("network", mem.network)
  <2>1. ASSUME NEW id \in IDs, Ensure("network", id, "none"),
               Continue([mem EXCEPT !.network = id], "loadBalancer")
        PROVE  TypeInv'
    <3>1. MoveTyped' /\ pc' # "ensureServer"
      BY <1>0, <1>1, <1>2, <2>1, ContinueTyped
    <3>2. CloudTyped' /\ (Fault \/ NoFault)
      BY <1>0, <1>2, <2>1, EnsureTyped DEF RecordedIDs
    <3> QED BY <1>0, <3>1, <3>2, HandlerTyped, SameCall
  <2>2. ASSUME NEW err \in Errors, Ensure("network", NoID, err), CloudFails(mem, err)
        PROVE  TypeInv'
    <3>1. MoveTyped' /\ pc' # "ensureServer"
      BY <1>0, <2>2, CloudFailsTyped
    <3>2. CloudTyped' /\ (Fault \/ NoFault)
      BY <1>0, <1>2, <2>2, EnsureTyped DEF RecordedIDs, Errors
    <3> QED BY <1>0, <3>1, <3>2, HandlerTyped, SameCall
  <2> QED BY <1>5, <2>1, <2>2, Zenon
<1> QED BY <1>3, <1>4, <1>5

LEMMA EnsureLoadBalancerTyped ==
  ASSUME TypeInv, EnsureLoadBalancer
  PROVE  TypeInv'
<1> USE DEF EnsureLoadBalancer
<1> DEFINE found == [mem EXCEPT !.lbID = LoadBalancerID]
           denied == [mem EXCEPT !.lbReady = "False"]
<1>0. mem \in Objects /\ queued \in BOOLEAN /\ MoveTyped /\ CloudTyped
      /\ userData \in Contents /\ skipped \in BOOLEAN
  BY DEF TypeInv, MoveTyped, CallTyped
<1>1. "lb" \in Kinds /\ LoadBalancerID \in IDs /\ "targets" \in PCs
      /\ "bastion" \in PCs /\ "retry" \in Outcomes
  BY IDFacts DEF Kinds, PCs, Outcomes
<1>2. found \in Objects
  BY <1>0, <1>1, SetIDs, Zenon DEF RecordedIDs
<1>3. denied \in Objects /\ [mem EXCEPT !.lbReady = "Skipped"] \in Objects
  BY <1>0, SetConditions, Zenon DEF ConditionStatus
<1>4. [found EXCEPT !.lbReady = "False"] \in Objects
      /\ [found EXCEPT !.endpoint = TRUE] \in Objects
  BY <1>2, SetConditions, SetFlags, Zenon DEF ConditionStatus
<1> HIDE DEF found, denied
<1>5. CASE Fault /\ Return(denied, "retry") /\ UNCHANGED cloudVars
  <2>1. MoveTyped' /\ pc' # "ensureServer"
    BY <1>0, <1>1, <1>3, <1>5, ReturnTyped
  <2> QED BY <1>0, <1>5, <2>1, HandlerTyped, SameCall, SameCloud
<1>6. CASE /\ Ensure("lb", LoadBalancerID, "none")
           /\ \/ CloudFails([found EXCEPT !.lbReady = "False"], "retryable")
              \/ Continue([found EXCEPT !.endpoint = TRUE], "targets")
  <2>1. MoveTyped' /\ pc' # "ensureServer"
    BY <1>0, <1>1, <1>4, <1>6, CloudFailsTyped, ContinueTyped
  <2>2. CloudTyped' /\ (Fault \/ NoFault)
    BY <1>0, <1>1, <1>6, EnsureTyped DEF RecordedIDs
  <2> QED BY <1>0, <2>1, <2>2, HandlerTyped, SameCall
<1>7. CASE \E err \in Errors : Ensure("lb", NoID, err) /\ CloudFails(denied, err)
  <2>1. PICK err \in Errors : Ensure("lb", NoID, err) /\ CloudFails(denied, err)
    BY <1>7
  <2>2. MoveTyped' /\ pc' # "ensureServer"
    BY <1>0, <1>3, <2>1, CloudFailsTyped
  <2>3. CloudTyped' /\ (Fault \/ NoFault)
    BY <1>0, <1>1, <2>1, EnsureTyped DEF RecordedIDs, Errors
  <2> QED BY <1>0, <2>2, <2>3, HandlerTyped, SameCall
<1>8. CASE NoFault /\ Continue([mem EXCEPT !.lbReady = "Skipped"], "bastion")
           /\ UNCHANGED cloudVars
  <2>1. MoveTyped' /\ pc' # "ensureServer"
    BY <1>0, <1>1, <1>3, <1>8, ContinueTyped
  <2> QED BY <1>0, <1>8, <2>1, HandlerTyped, SameCall, SameCloud
<1> QED BY <1>5, <1>6, <1>7, <1>8 DEF found, denied

LEMMA SetTargetsTyped ==
  ASSUME TypeInv, SetTargets
  PROVE  TypeInv'
<1> USE DEF SetTargets
<1>0. mem \in Objects /\ queued \in BOOLEAN /\ MoveTyped /\ skipped \in BOOLEAN
  BY DEF TypeInv, MoveTyped
<1>1. [mem EXCEPT !.lbReady = "True"] \in Objects
      /\ [mem EXCEPT !.lbReady = "False"] \in Objects
  BY <1>0, SetConditions, Zenon DEF ConditionStatus
<1>2. MoveTyped' /\ pc' # "ensureServer" /\ (Fault \/ NoFault)
  BY <1>0, <1>1, ContinueTyped, ReturnTyped DEF PCs, Outcomes
<1> QED BY <1>0, <1>2, HandlerTyped, SameCall, SameCloud

LEMMA ReconcileBastionTyped ==
  ASSUME TypeInv, ReconcileBastion
  PROVE  TypeInv'
<1> USE DEF ReconcileBastion
<1>0. mem \in Objects /\ queued \in BOOLEAN /\ MoveTyped /\ CallTyped
      /\ content \in Contents /\ skipped \in BOOLEAN
  BY DEF TypeInv, MoveTyped, WorldTyped
<1>1. [mem EXCEPT !.bastionReady = "Skipped"] \in Objects
      /\ [mem EXCEPT !.bastionReady = "False"] \in Objects
  BY <1>0, SetConditions, Zenon DEF ConditionStatus
<1>2. MoveTyped' /\ pc' # "ensureServer" /\ (Fault \/ NoFault)
  BY <1>0, <1>1, ContinueTyped, SetReadyTyped, CloudFailsTyped DEF PCs
<1>3. CallTyped'
  BY <1>0 DEF CallTyped
<1> QED BY <1>0, <1>2, <1>3, HandlerTyped, SameCloud

LEMMA EnsureSecurityGroupTyped ==
  ASSUME TypeInv, EnsureSecurityGroup
  PROVE  TypeInv'
<1> USE DEF EnsureSecurityGroup
<1>0. mem \in Objects /\ MoveTyped /\ CloudTyped /\ CallTyped
      /\ userData \in Contents /\ skipped \in BOOLEAN
      /\ "sg" \in Kinds /\ "ensureServer" \in PCs
  BY DEF TypeInv, MoveTyped, CallTyped, Kinds, PCs
<1>1. ASSUME NEW id \in IDs, Ensure("sg", id, "none"),
             ids' = [NoIDs EXCEPT !.sg = id], Continue(mem, "ensureServer")
      PROVE  TypeInv'
  <2>1. MoveTyped'
    BY <1>0, <1>1, ContinueTyped
  <2>2. CloudTyped' /\ (Fault \/ NoFault)
    BY <1>0, <1>1, EnsureTyped DEF RecordedIDs
  <2>3. CallTyped' /\ ids'.sg \in IDs
    BY <1>0, <1>1, Zenon DEF CallTyped, NoIDs, RecordedIDs
  <2> QED BY <1>0, <2>1, <2>2, <2>3, HandlerTyped
<1>2. ASSUME NEW err \in Errors, Ensure("sg", NoID, err), BastionFails(err),
             UNCHANGED ids
      PROVE  TypeInv'
  <2>1. MoveTyped' /\ pc' # "ensureServer"
    BY <1>0, <1>2, BastionFailsTyped
  <2>2. CloudTyped' /\ (Fault \/ NoFault)
    BY <1>0, <1>2, EnsureTyped DEF RecordedIDs, Errors
  <2>3. CallTyped'
    BY <1>0, <1>2 DEF CallTyped
  <2> QED BY <1>0, <2>1, <2>2, <2>3, HandlerTyped
<1> QED BY <1>1, <1>2

LEMMA EnsureServerTyped ==
  ASSUME TypeInv, EnsureServer
  PROVE  TypeInv'
<1> USE DEF EnsureServer
<1>0. mem \in Objects /\ MoveTyped /\ CloudTyped /\ CallTyped
      /\ userData \in Contents /\ skipped \in BOOLEAN
      /\ "server" \in Kinds /\ "ensureIP" \in PCs /\ ids.sg \in IDs
  BY Zenon DEF TypeInv, MoveTyped, CallTyped, Kinds, PCs
<1>1. ASSUME NEW id \in IDs, NEW active \in BOOLEAN, Ensure("server", id, "none"),
             ids' = [ids EXCEPT !.server = id, !.active = active],
             Continue(mem, "ensureIP")
      PROVE  TypeInv'
  <2>1. MoveTyped' /\ pc' # "ensureServer"
    BY <1>0, <1>1, ContinueTyped, Zenon
  <2>2. CloudTyped' /\ (Fault \/ NoFault)
    BY <1>0, <1>1, EnsureTyped, Zenon DEF RecordedIDs
  <2>3. CallTyped'
    BY <1>0, <1>1, Zenon DEF CallTyped, RecordedIDs
  <2> QED BY <1>0, <2>1, <2>2, <2>3, HandlerTyped, Zenon
<1>2. ASSUME NEW err \in Errors, Ensure("server", NoID, err), BastionFails(err),
             UNCHANGED ids
      PROVE  TypeInv'
  <2>1. MoveTyped' /\ pc' # "ensureServer"
    BY <1>0, <1>2, BastionFailsTyped, Zenon
  <2>2. CloudTyped' /\ (Fault \/ NoFault)
    BY <1>0, <1>2, EnsureTyped, Zenon DEF RecordedIDs, Errors
  <2>3. CallTyped'
    BY <1>0, <1>2, Zenon DEF CallTyped
  <2> QED BY <1>0, <2>1, <2>2, <2>3, HandlerTyped, Zenon
<1> QED BY <1>1, <1>2, Zenon

LEMMA EnsurePublicIPTyped ==
  ASSUME TypeInv, EnsurePublicIP
  PROVE  TypeInv'
<1> USE DEF EnsurePublicIP
<1>0. mem \in Objects /\ queued \in BOOLEAN /\ MoveTyped /\ CloudTyped /\ CallTyped
      /\ userData \in Contents /\ skipped \in BOOLEAN /\ "ip" \in Kinds
  BY DEF TypeInv, MoveTyped, CallTyped, Kinds
<1>1. ASSUME NEW id \in IDs, Ensure("ip", id, "none"),
             \/ SetReady([WithBastion(id) EXCEPT !.bastionReady = "True"])
             \/ CloudFails([WithBastion(id) EXCEPT !.bastionReady = "False"],
                           "retryable")
      PROVE  TypeInv'
  <2>1. WithBastion(id) \in Objects
    BY <1>0, SetBastion
  <2>2. /\ [WithBastion(id) EXCEPT !.bastionReady = "True"] \in Objects
        /\ [WithBastion(id) EXCEPT !.bastionReady = "False"] \in Objects
    BY <2>1, SetConditions, Zenon DEF ConditionStatus
  <2>3. MoveTyped' /\ pc' # "ensureServer"
    BY <1>0, <1>1, <2>2, SetReadyTyped, CloudFailsTyped
  <2>4. CloudTyped' /\ (Fault \/ NoFault)
    BY <1>0, <1>1, EnsureTyped DEF RecordedIDs
  <2> QED BY <1>0, <2>3, <2>4, HandlerTyped, SameCall
<1>2. ASSUME NEW err \in Errors, Ensure("ip", NoID, err), BastionFails(err)
      PROVE  TypeInv'
  <2>1. MoveTyped' /\ pc' # "ensureServer"
    BY <1>0, <1>2, BastionFailsTyped
  <2>2. CloudTyped' /\ (Fault \/ NoFault)
    BY <1>0, <1>2, EnsureTyped DEF RecordedIDs, Errors
  <2> QED BY <1>0, <2>1, <2>2, HandlerTyped, SameCall
<1> QED BY <1>1, <1>2, Zenon

\* The teardown only changes the states of resources.
LEMMA TeardownTyped ==
  ASSUME TypeInv, UNCHANGED <<api, cache, before, worldVars, tags, bootData>>,
         (state \in [Resources -> States])', (groups \in [IDs -> SUBSET IDs])',
         MoveTyped', CallTyped', skipped' \in BOOLEAN,
         Fault \/ NoFault, pc' # "ensureServer"
  PROVE  TypeInv'
<1>1. CloudTyped'
  BY DEF TypeInv, CloudTyped
<1> QED BY <1>1, HandlerTyped

LEMMA DropNodeSSHTyped ==
  ASSUME TypeInv, DropNodeSSH
  PROVE  TypeInv'
<1> USE DEF DropNodeSSH
<1>0. mem \in Objects /\ MoveTyped /\ CloudTyped /\ skipped \in BOOLEAN
      /\ "resolveBastion" \in PCs
  BY DEF TypeInv, MoveTyped, PCs
<1>1. MoveTyped' /\ pc' # "ensureServer" /\ (Fault \/ NoFault)
  BY <1>0, ContinueTyped, DropFailsTyped, LookupFailsTyped
<1>2. (state \in [Resources -> States])' /\ (groups \in [IDs -> SUBSET IDs])'
  BY <1>0, DeletedTyped DEF CloudTyped
<1> QED BY <1>0, <1>1, <1>2, TeardownTyped, SameCall

LEMMA ResolveBastionTyped ==
  ASSUME TypeInv, ResolveBastion
  PROVE  TypeInv'
<1> USE DEF ResolveBastion
<1>0. mem \in Objects /\ MoveTyped /\ CallTyped /\ skipped \in BOOLEAN
      /\ "dropServer" \in PCs
  BY DEF TypeInv, MoveTyped, PCs
<1>1. MoveTyped' /\ pc' # "ensureServer" /\ (Fault \/ NoFault)
  BY <1>0, ContinueTyped, LookupFailsTyped, Zenon
<1>2. ids' \in [server : RecordedIDs, ip : RecordedIDs, sg : RecordedIDs,
                  active : BOOLEAN]
  <2>1. CASE UNCHANGED ids
    BY <1>0, <2>1 DEF CallTyped
  <2>2. ASSUME NEW s \in RecordedIDs, NEW p \in RecordedIDs, NEW g \in RecordedIDs,
               ids' = [server |-> s, ip |-> p, sg |-> g, active |-> FALSE]
        PROVE  ids' \in [server : RecordedIDs, ip : RecordedIDs, sg : RecordedIDs,
                         active : BOOLEAN]
    BY <2>2
  <2>3. \/ UNCHANGED ids
        \/ \E s, p, g \in RecordedIDs :
             ids' = [server |-> s, ip |-> p, sg |-> g, active |-> FALSE]
    BY Zenon DEF RecordedIDs
  <2> QED BY <2>1, <2>2, <2>3
<1>3. CallTyped'
  BY <1>0, <1>2 DEF CallTyped
<1> QED BY <1>0, <1>1, <1>3, HandlerTyped, SameCloud

LEMMA DropServerTyped ==
  ASSUME TypeInv, DropServer
  PROVE  TypeInv'
<1> USE DEF DropServer
<1>0. MoveTyped /\ CloudTyped /\ skipped \in BOOLEAN /\ "dropIP" \in PCs
  BY DEF TypeInv, PCs
<1>1. /\ MoveTyped' /\ pc' # "ensureServer" /\ (Fault \/ NoFault)
      /\ (state \in [Resources -> States])'
  BY <1>0, DropTyped
<1>2. (groups \in [IDs -> SUBSET IDs])'
  <2> DEFINE detached == [i \in IDs |->
                IF i = ids.server THEN groups[i] \ {ids.sg} ELSE groups[i]]
  <2>1. groups \in [IDs -> SUBSET IDs] /\ detached \in [IDs -> SUBSET IDs]
    BY <1>0 DEF CloudTyped
  <2>2. groups' \in {groups, detached}
    OBVIOUS
  <2> HIDE DEF detached
  <2> QED BY <2>1, <2>2
<1> QED BY <1>0, <1>1, <1>2, TeardownTyped, SameCall

LEMMA DropIPTyped ==
  ASSUME TypeInv, DropIP
  PROVE  TypeInv'
<1> USE DEF DropIP
<1>0. MoveTyped /\ CloudTyped /\ skipped \in BOOLEAN /\ "dropSG" \in PCs
  BY DEF TypeInv, PCs
<1>1. /\ MoveTyped' /\ pc' # "ensureServer" /\ (Fault \/ NoFault)
      /\ (state \in [Resources -> States])'
  BY <1>0, DropTyped
<1>2. (groups \in [IDs -> SUBSET IDs])'
  BY <1>0 DEF CloudTyped
<1> QED BY <1>0, <1>1, <1>2, TeardownTyped, SameCall

LEMMA BastionDroppedTyped ==
  ASSUME MoveTyped, BastionDropped
  PROVE  MoveTyped' /\ pc' # "ensureServer"
<1> DEFINE o == WithoutBastion(mem)
<1>1. o \in Objects
  BY SetIDs, Zenon DEF MoveTyped, RecordedIDs
<1> HIDE DEF o
<1>2. [o EXCEPT !.bastionReady = "Skipped"] \in Objects
      /\ [o EXCEPT !.bastionReady = "False"] \in Objects
  BY <1>1, SetConditions, Zenon DEF ConditionStatus
<1>3. \/ SetReady([o EXCEPT !.bastionReady = "Skipped"])
      \/ CloudFails([o EXCEPT !.bastionReady = "False"], "retryable")
      \/ Continue(o, "deleteNetwork")
  BY DEF BastionDropped, o
<1> QED BY <1>1, <1>2, <1>3, SetReadyTyped, CloudFailsTyped, ContinueTyped
        DEF MoveTyped, PCs

LEMMA DropSGTyped ==
  ASSUME TypeInv, DropSG
  PROVE  TypeInv'
<1> USE DEF DropSG
<1>0. MoveTyped /\ CloudTyped /\ skipped \in BOOLEAN
  BY DEF TypeInv
<1>1. MoveTyped' /\ pc' # "ensureServer" /\ (Fault \/ NoFault)
  BY <1>0, BastionDroppedTyped, DropFailsTyped
<1>2. (state \in [Resources -> States])' /\ (groups \in [IDs -> SUBSET IDs])'
  BY <1>0, DeletedTyped DEF CloudTyped
<1> QED BY <1>0, <1>1, <1>2, TeardownTyped, SameCall

LEMMA AwaitMachinesTyped ==
  ASSUME TypeInv, AwaitMachines
  PROVE  TypeInv'
<1> USE DEF AwaitMachines
<1>0. mem \in Objects /\ queued \in BOOLEAN /\ MoveTyped /\ skipped \in BOOLEAN
  BY DEF TypeInv, MoveTyped
<1>1. [mem EXCEPT !.finalizer = FALSE] \in Objects
  BY <1>0, SetFlags, Zenon
<1>2. MoveTyped' /\ pc' # "ensureServer" /\ (Fault \/ NoFault)
  BY <1>0, <1>1, ReturnTyped, ContinueTyped DEF PCs, Outcomes
<1> QED BY <1>0, <1>2, HandlerTyped, SameCall, SameCloud, Zenon

LEMMA DeleteLoadBalancerTyped ==
  ASSUME TypeInv, DeleteLoadBalancer
  PROVE  TypeInv'
<1> USE DEF DeleteLoadBalancer
<1>0. mem \in Objects /\ queued \in BOOLEAN /\ MoveTyped /\ CloudTyped /\ CallTyped
      /\ skipped \in BOOLEAN
  BY DEF TypeInv, MoveTyped
<1>1. [mem EXCEPT !.lbID = NoID] \in Objects
  BY <1>0, SetIDs, Zenon DEF RecordedIDs
<1>2. MoveTyped' /\ pc' # "ensureServer" /\ (Fault \/ NoFault)
  BY <1>0, <1>1, ReturnTyped, ContinueTyped DEF PCs, Outcomes
<1>3. (state \in [Resources -> States])' /\ (groups \in [IDs -> SUBSET IDs])'
  BY <1>0, DeletedTyped DEF CloudTyped
<1>4. CallTyped'
  BY <1>0 DEF CallTyped
<1> QED BY <1>0, <1>2, <1>3, <1>4, TeardownTyped

LEMMA DeleteNetworkTyped ==
  ASSUME TypeInv, DeleteNetwork
  PROVE  TypeInv'
<1> USE DEF DeleteNetwork
<1>0. mem \in Objects /\ queued \in BOOLEAN /\ MoveTyped /\ CloudTyped
      /\ skipped \in BOOLEAN /\ "retry" \in Outcomes /\ "settled" \in Outcomes
  BY Zenon DEF TypeInv, MoveTyped, Outcomes
<1>1. ASSUME NEW id \in IDs \cup {NoID}
      PROVE  [mem EXCEPT !.finalizer = FALSE,
                         !.network = IF id = NoID THEN @ ELSE NoID] \in Objects
  <2> DEFINE o == [mem EXCEPT !.finalizer = FALSE]
             n == IF id = NoID THEN o.network ELSE NoID
  <2>1. o \in Objects
    BY <1>0, SetFlags, Zenon
  <2>2. n \in RecordedIDs
    BY <2>1, Zenon DEF Objects, RecordedIDs
  <2>3. [mem EXCEPT !.finalizer = FALSE, !.network = IF id = NoID THEN @ ELSE NoID]
          = [o EXCEPT !.network = n]
    BY Zenon
  <2> HIDE DEF o, n
  <2> QED BY <2>1, <2>2, <2>3, SetIDs, Zenon
<1>2. MoveTyped' /\ pc' # "ensureServer" /\ (Fault \/ NoFault)
  <2>1. Return(mem, "retry") => MoveTyped' /\ pc' # "ensureServer"
    BY <1>0, ReturnTyped, Zenon
  <2>2. ASSUME NEW id \in IDs \cup {NoID},
               Return([mem EXCEPT !.finalizer = FALSE,
                                  !.network = IF id = NoID THEN @ ELSE NoID],
                      "settled")
        PROVE  MoveTyped' /\ pc' # "ensureServer"
    BY <1>0, <1>1, <2>2, ReturnTyped, Zenon
  <2>3. /\ \/ Return(mem, "retry")
           \/ \E id \in IDs \cup {NoID} :
                Return([mem EXCEPT !.finalizer = FALSE,
                                   !.network = IF id = NoID THEN @ ELSE NoID],
                       "settled")
        /\ Fault \/ NoFault
    BY Zenon
  <2> QED BY <2>1, <2>2, <2>3, Zenon
<1>3. (state \in [Resources -> States])' /\ (groups \in [IDs -> SUBSET IDs])'
  <2>1. /\ groups' = groups
        /\ state' = state \/ \E id \in IDs \cup {NoID} : state' = Deleted("network", id)
    BY Zenon
  <2>2. /\ groups \in [IDs -> SUBSET IDs]
        /\ state \in [Resources -> States]
        /\ \A id : Deleted("network", id) \in [Resources -> States]
    BY <1>0, DeletedTyped, Zenon DEF CloudTyped
  <2> HIDE DEF DeleteNetwork
  <2> QED BY <2>1, <2>2
<1> QED BY <1>0, <1>2, <1>3, TeardownTyped, SameCall, Zenon

LEMMA SendTyped ==
  ASSUME TypeInv, NEW fields, NEW admitted, NEW tolerated,
         Send(fields, admitted, tolerated), pc' \in PCs, pc' # "ensureServer",
         UNCHANGED <<cache, mem, before, callVars, cloudVars, worldVars, outcome,
                     skipped>>
  PROVE  TypeInv'
<1>1. api' \in {api, Collected(Patched(fields))} /\ (Fault \/ NoFault)
      /\ queued' \in {queued, TRUE} /\ resume' \in {resume, "deferred"}
  BY Zenon DEF Send
<1>2. StoredTyped'
  BY <1>1, PatchedTyped DEF TypeInv, StoredTyped, MoveTyped, WorldTyped
<1>3. MoveTyped' /\ skipped' \in BOOLEAN
  BY <1>1, Zenon DEF TypeInv, MoveTyped
<1> QED BY <1>1, <1>2, <1>3, StepTyped, SameCall, SameCloud

LEMMA PatchesTyped ==
  ASSUME TypeInv, PatchConditions \/ PatchSpec \/ PatchStatus
  PROVE  TypeInv'
  BY SendTyped, Zenon DEF PatchConditions, PatchSpec, PatchStatus, PCs

\* What a reconcile has in memory is gone when it ends or crashes.
LEMMA ForgetTyped ==
  ASSUME mode \in Modes, ids' = NoIDs, why' = "none", userData' = InitialContent,
         mem' = NoObject, before' = NoObject
  PROVE  CallTyped' /\ mem' \in Objects /\ before' \in Objects
  BY NewObjects, ClusterAssumption DEF CallTyped, NoIDs, RecordedIDs

LEMMA PatchDoneTyped ==
  ASSUME TypeInv, PatchDone
  PROVE  TypeInv'
<1> USE DEF PatchDone
<1>0. mode \in Modes /\ NoFault /\ UNCHANGED worldVars /\ UNCHANGED cloudVars
      /\ skipped' \in BOOLEAN /\ UNCHANGED <<api, cache, queued>>
  BY DEF TypeInv, WorldTyped, NoFault, objectVars
<1>1. pc' \in PCs /\ pc' # "ensureServer" /\ resume' = "idle" /\ outcome' \in Outcomes
  BY DEF TypeInv, MoveTyped, PCs, Outcomes
<1>2. CallTyped' /\ mem' \in Objects /\ before' \in Objects
  BY <1>0, ForgetTyped, SameCall DEF TypeInv, StoredTyped, MoveTyped
<1>3. StoredTyped' /\ MoveTyped'
  BY <1>0, <1>1, <1>2 DEF TypeInv, StoredTyped, MoveTyped
<1> QED BY <1>0, <1>1, <1>2, <1>3, StepTyped, SameCloud

LEMMA ReconcileNothingTyped ==
  ASSUME TypeInv, ReconcileNothing
  PROVE  TypeInv'
<1>1. MoveTyped' /\ pc' # "ensureServer" /\ (Fault \/ NoFault) /\ skipped' \in BOOLEAN
  BY Zenon DEF TypeInv, MoveTyped, ReconcileNothing, Dequeue, Outcomes
<1> QED BY <1>1, HandlerTyped, SameCall, SameCloud DEF ReconcileNothing, Dequeue

LEMMA ReconcileActiveTyped ==
  ASSUME TypeInv, ReconcileActive
  PROVE  TypeInv'
<1> USE DEF ReconcileActive, Dequeue
<1>1. cache \in Objects /\ [cache EXCEPT !.finalizer = TRUE] \in Objects
  BY SetFlags, Zenon DEF TypeInv, StoredTyped
<1>2. StoredTyped'
  BY <1>1 DEF TypeInv, StoredTyped
<1>3. MoveTyped' /\ pc' # "ensureServer"
  BY <1>1, Zenon DEF TypeInv, MoveTyped, PCs, Outcomes
<1> QED BY <1>2, <1>3, StepTyped, SameCall, SameCloud DEF TypeInv

LEMMA ReconcileTyped ==
  ASSUME TypeInv, Reconcile
  PROVE  TypeInv'
  BY ReconcileNothingTyped, ReconcileActiveTyped, CheckZonesTyped,
     EnsureNetworkTyped, EnsureLoadBalancerTyped, SetTargetsTyped,
     ReconcileBastionTyped, EnsureSecurityGroupTyped, EnsureServerTyped,
     EnsurePublicIPTyped, DropNodeSSHTyped, ResolveBastionTyped, DropServerTyped,
     DropIPTyped, DropSGTyped, AwaitMachinesTyped, DeleteLoadBalancerTyped,
     DeleteNetworkTyped, PatchesTyped, PatchDoneTyped
  DEF Reconcile

\* Everybody else leaves what a reconcile holds in memory alone.
LEMMA BystanderTyped ==
  ASSUME TypeInv, UNCHANGED reconcileVars, UNCHANGED outcome, UNCHANGED skipped
  PROVE  /\ before' \in Objects /\ CallTyped' /\ skipped' \in BOOLEAN
         /\ queued' \in BOOLEAN => MoveTyped'
         /\ pc' = "ensureServer" => ids'.sg \in IDs
  BY DEF TypeInv, reconcileVars, callVars, StoredTyped, MoveTyped, CallTyped

LEMMA ObjectEditsTyped ==
  ASSUME TypeInv, Observe \/ WatchEvent \/ DeleteObject
  PROVE  TypeInv'
<1> USE DEF Observe, WatchEvent, DeleteObject
<1>1. mode \in Modes /\ UNCHANGED worldVars /\ UNCHANGED cloudVars /\ NoFault
      /\ UNCHANGED reconcileVars /\ UNCHANGED outcome /\ UNCHANGED skipped
      /\ queued' \in BOOLEAN
  BY Zenon DEF TypeInv, WorldTyped, NoFault, MoveTyped
<1>2. Collected([api EXCEPT !.deleting = TRUE]) \in Objects
  BY <1>1, NewObjects, SetFlags, Zenon DEF Collected, TypeInv, StoredTyped
<1>3. api' \in Objects /\ cache' \in Objects
  BY <1>2 DEF TypeInv, StoredTyped
<1>4. StoredTyped'
  BY <1>1, <1>3, BystanderTyped DEF StoredTyped
<1> HIDE DEF Observe, WatchEvent, DeleteObject
<1> QED BY <1>1, <1>4, BystanderTyped, SameCloud, StepTyped

LEMMA UserEditsTyped ==
  ASSUME TypeInv, ToggleBastion \/ EditLabels \/ EditContent
  PROVE  TypeInv'
<1> USE DEF ToggleBastion, EditLabels, EditContent, Edit
<1>1. /\ UNCHANGED reconcileVars /\ UNCHANGED outcome /\ UNCHANGED skipped
      /\ UNCHANGED cloudVars /\ cache' = cache /\ faults' = faults
      /\ machines' = machines /\ mode' = mode
      /\ edits < mode.edits /\ edits' = edits + 1
  OBVIOUS
<1>2. queued' \in BOOLEAN
  BY Zenon DEF TypeInv, MoveTyped
<1>3. ASSUME NEW l \in LabelSets
      PROVE  [api EXCEPT !.labels = l] \in Objects
  BY DEF TypeInv, StoredTyped, Objects
<1>4. [api EXCEPT !.enabled = ~@] \in Objects
  <2> DEFINE b == ~api.enabled
  <2>1. b \in BOOLEAN /\ api \in Objects
    BY DEF TypeInv, StoredTyped
  <2>2. [api EXCEPT !.enabled = ~@] = [api EXCEPT !.enabled = b]
    OBVIOUS
  <2> HIDE DEF b
  <2> QED BY <2>1, <2>2, SetFlags, Zenon
<1>5. api' \in Objects
  BY <1>3, <1>4 DEF TypeInv, StoredTyped
<1>6. content' \in Contents
  BY DEF TypeInv, WorldTyped
<1> HIDE DEF ToggleBastion, EditLabels, EditContent, Edit
<1>7. StoredTyped' /\ MoveTyped' /\ CallTyped' /\ CloudTyped'
  BY <1>1, <1>2, <1>5, BystanderTyped, SameCloud DEF TypeInv, StoredTyped
<1>8. WorldTyped' /\ FaultsTyped'
  <2>1. mode.edits \in Nat
    BY ModeFacts DEF TypeInv, WorldTyped
  <2> QED BY <1>1, <1>6, <2>1 DEF TypeInv, WorldTyped, FaultsTyped
<1> QED BY <1>1, <1>7, <1>8, BystanderTyped DEF TypeInv

LEMMA MachinesChangeTyped ==
  ASSUME TypeInv, MachinesChange
  PROVE  TypeInv'
<1>1. /\ UNCHANGED objectVars /\ UNCHANGED reconcileVars /\ UNCHANGED cloudVars
      /\ UNCHANGED <<content, edits, mode, faults, outcome, skipped>>
      /\ machines' \in {"present", "gone"}
  BY DEF MachinesChange
<1>2. StoredTyped' /\ MoveTyped' /\ CallTyped' /\ CloudTyped'
  BY <1>1, BystanderTyped, SameCloud DEF TypeInv, StoredTyped, MoveTyped, objectVars
<1>3. WorldTyped' /\ FaultsTyped'
  BY <1>1 DEF TypeInv, WorldTyped, FaultsTyped
<1> QED BY <1>1, <1>2, <1>3, BystanderTyped DEF TypeInv

LEMMA CloudChangesTyped ==
  ASSUME TypeInv,
         GrantNodeSSH \/ \E r \in Resources : ResourceChanges(r) \/ DeleteOutOfBand(r)
  PROVE  TypeInv'
<1> USE DEF GrantNodeSSH, ResourceChanges, DeleteOutOfBand
<1>1. /\ UNCHANGED objectVars /\ UNCHANGED reconcileVars /\ UNCHANGED worldVars
      /\ UNCHANGED <<bootData, groups, outcome, skipped>>
      /\ Fault \/ NoFault
  BY DEF NoFault
<1>2. StoredTyped' /\ MoveTyped' /\ CallTyped'
  BY <1>1, BystanderTyped DEF TypeInv, StoredTyped, MoveTyped, objectVars
<1>3. state' \in [Resources -> States]
  BY Zenon DEF TypeInv, CloudTyped, States
<1>4. tags' \in [Resources -> LabelSets]
  BY Zenon DEF TypeInv, CloudTyped, StoredTyped, Objects
<1> HIDE DEF GrantNodeSSH, ResourceChanges, DeleteOutOfBand
<1>5. CloudTyped'
  BY <1>1, <1>3, <1>4 DEF TypeInv, CloudTyped
<1> QED BY <1>1, <1>2, <1>5, BystanderTyped, StepTyped

LEMMA RestartTyped ==
  ASSUME TypeInv, Restart
  PROVE  TypeInv'
<1> USE DEF Restart
<1>1. CallTyped' /\ mem' \in Objects /\ before' \in Objects
  BY ForgetTyped DEF TypeInv, WorldTyped
<1>2. StoredTyped' /\ MoveTyped' /\ skipped' \in BOOLEAN /\ pc' # "ensureServer"
  BY <1>1 DEF TypeInv, StoredTyped, MoveTyped, PCs, Outcomes
<1> QED BY <1>1, <1>2, SameCloud, StepTyped

LEMMA InitTyped == Init => TypeInv
<1> SUFFICES ASSUME Init PROVE TypeInv
  OBVIOUS
<1>1. mode \in Modes /\ NewObject \in Objects /\ NoObject \in Objects
      /\ InitialContent \in Contents /\ InitialLabels \in LabelSets
  BY NewObjects, ClusterAssumption DEF Init
<1>2. StoredTyped /\ MoveTyped /\ CallTyped
  BY <1>1 DEF Init, StoredTyped, MoveTyped, CallTyped, NoIDs, RecordedIDs, PCs, Outcomes
<1>3. CloudTyped
  BY <1>1 DEF Init, CloudTyped, States
<1>4. WorldTyped /\ FaultsTyped
  <2>1. mode.faults \in Nat /\ mode.edits \in Nat
    BY <1>1, ModeFacts
  <2> QED BY <1>1, <2>1 DEF Init, WorldTyped, FaultsTyped
<1> QED BY <1>2, <1>3, <1>4, Zenon DEF TypeInv, Init

LEMMA NextTyped ==
  ASSUME TypeInv, [Next]_vars
  PROVE  TypeInv'
<1>1. CASE UNCHANGED vars
  BY <1>1 DEF vars, objectVars, reconcileVars, callVars, cloudVars, worldVars, TypeInv,
              StoredTyped, MoveTyped, CallTyped, CloudTyped, WorldTyped, FaultsTyped
<1>2. CASE Next
  BY <1>2, ReconcileTyped, ObjectEditsTyped, UserEditsTyped, MachinesChangeTyped,
     CloudChangesTyped, RestartTyped
  DEF Next
<1> QED BY <1>1, <1>2

\* The inductive invariant behind TypeOK.
THEOREM TypesHold == Spec => []TypeInv
  BY InitTyped, NextTyped, PTL DEF Spec

\* TypeOK, for any number of resources, faults and edits: what the cluster
\* reconciler records is well formed, and it is always between two known calls.
THEOREM TypeCorrect == Spec => []TypeOK
  BY TypesHold, TypeInvImpliesTypeOK, PTL

-----------------------------------------------------------------------------
(* The network that the spec names *)

ByoNetwork == <<"network", ByoNetworkID>>

NamedNetworkUp == ~ManagedNetwork => state[ByoNetwork] = "up"

LEMMA DeletedElsewhere ==
  ASSUME CloudTyped, NEW k, NEW i, k # "network" \/ i = NoID
  PROVE  Deleted(k, i)[ByoNetwork] = state[ByoNetwork]
  BY IDFacts DEF Deleted, ByoNetwork, CloudTyped, Resources, Kinds

LEMMA CreatedElsewhere ==
  ASSUME CloudTyped, NEW k, NEW i, k # "network", Create(k, i)
  PROVE  state'[ByoNetwork] = state[ByoNetwork]
  BY IDFacts DEF Create, ByoNetwork, CloudTyped, Resources, Kinds

LEMMA EnsuredElsewhere ==
  ASSUME CloudTyped, NEW k, NEW id, NEW err, k # "network", Ensure(k, id, err)
  PROVE  state'[ByoNetwork] = state[ByoNetwork]
<1>1. state' = state \/ \E i \in IDs \cup {id} : Create(k, i)
  BY DEF Ensure, cloudVars
<1> QED BY <1>1, CreatedElsewhere

LEMMA DroppedElsewhere ==
  ASSUME CloudTyped, NEW k, NEW i, NEW next, k # "network", Drop(k, i, next)
  PROVE  state'[ByoNetwork] = state[ByoNetwork]
<1>1. state' \in {state, Deleted(k, i)}
  BY DEF Drop
<1> QED BY <1>1, DeletedElsewhere

\* Only EnsureNetwork and DeleteNetwork are about networks, and with an ID in
\* the spec neither of them creates or deletes one.
LEMMA ReconcileSparesNetwork ==
  ASSUME TypeInv, ~ManagedNetwork, Reconcile
  PROVE  state'[ByoNetwork] = state[ByoNetwork]
<1>0. CloudTyped
  BY DEF TypeInv
<1>1. CASE ReconcileNothing \/ ReconcileActive \/ CheckZones \/ SetTargets
           \/ ReconcileBastion \/ ResolveBastion \/ AwaitMachines
           \/ PatchConditions \/ PatchSpec \/ PatchStatus \/ PatchDone
  <2>1. UNCHANGED cloudVars
    BY <1>1, Zenon
           DEF ReconcileNothing, ReconcileActive, Dequeue, CheckZones, SetTargets,
                ReconcileBastion, ResolveBastion, AwaitMachines, PatchConditions,
                PatchSpec, PatchStatus, PatchDone
  <2> QED BY <2>1 DEF cloudVars
<1>2. CASE EnsureNetwork
  BY <1>2 DEF EnsureNetwork, cloudVars
<1>3. CASE EnsureLoadBalancer
  <2>1. UNCHANGED cloudVars \/ \E id, err : Ensure("lb", id, err)
    BY <1>3 DEF EnsureLoadBalancer
  <2> QED BY <1>0, <2>1, EnsuredElsewhere DEF cloudVars
<1>4. CASE EnsureSecurityGroup
  BY <1>0, <1>4, EnsuredElsewhere DEF EnsureSecurityGroup
<1>5. CASE EnsureServer
  BY <1>0, <1>5, EnsuredElsewhere, Zenon DEF EnsureServer
<1>6. CASE EnsurePublicIP
  BY <1>0, <1>6, EnsuredElsewhere, Zenon DEF EnsurePublicIP
<1>7. CASE DropNodeSSH
  <2>1. state' = state \/ \E i \in IDs : state' = Deleted("nodeSG", i)
    BY <1>7 DEF DropNodeSSH
  <2> QED BY <1>0, <2>1, DeletedElsewhere
<1>8. CASE DropServer
  BY <1>0, <1>8, DroppedElsewhere DEF DropServer
<1>9. CASE DropIP
  BY <1>0, <1>9, DroppedElsewhere DEF DropIP
<1>10. CASE DropSG
  <2>1. state' = state \/ state' = Deleted("sg", ids.sg)
    BY <1>10 DEF DropSG
  <2> QED BY <1>0, <2>1, DeletedElsewhere
<1>11. CASE DeleteLoadBalancer
  <2>1. state' = state \/ \E i \in IDs \cup {NoID} : state' = Deleted("lb", i)
    BY <1>11 DEF DeleteLoadBalancer
  <2> QED BY <1>0, <2>1, DeletedElsewhere
<1>12. CASE DeleteNetwork
  <2>1. \/ state' = state
        \/ \E id \in IDs \cup {NoID} :
             ManagedNetworkID(id) /\ state' = Deleted("network", id)
    BY <1>12, Zenon DEF DeleteNetwork
  <2>2. state' = state \/ state' = Deleted("network", NoID)
    BY <2>1 DEF ManagedNetworkID
  <2> QED BY <1>0, <2>2, DeletedElsewhere
<1> QED BY <1>1, <1>2, <1>3, <1>4, <1>5, <1>6, <1>7, <1>8, <1>9, <1>10, <1>11, <1>12
        DEF Reconcile

LEMMA ModeKept ==
  ASSUME [Next]_vars
  PROVE  mode' = mode
  BY Zenon DEF Next, Reconcile, ReconcileNothing, ReconcileActive, Dequeue, CheckZones,
         EnsureNetwork, EnsureLoadBalancer, SetTargets, ReconcileBastion,
         EnsureSecurityGroup, EnsureServer, EnsurePublicIP, DropNodeSSH,
         ResolveBastion, DropServer, DropIP, DropSG, AwaitMachines,
         DeleteLoadBalancer, DeleteNetwork, PatchConditions, PatchSpec, PatchStatus,
         PatchDone, Observe, WatchEvent, DeleteObject, Restart, ToggleBastion,
         EditLabels, EditContent, Edit, MachinesChange, GrantNodeSSH,
         ResourceChanges, DeleteOutOfBand, vars, worldVars

LEMMA NetworkSpared ==
  ASSUME TypeInv, NamedNetworkUp, [Next]_vars
  PROVE  NamedNetworkUp'
<1> SUFFICES ASSUME ~ManagedNetwork'
             PROVE  state'[ByoNetwork] = "up"
  BY DEF NamedNetworkUp
<1>1. mode' = mode
  BY ModeKept
<1>2. ~ManagedNetwork /\ state[ByoNetwork] = "up"
  BY <1>1 DEF ManagedNetwork, NamedNetworkUp
<1>3. CASE Reconcile
  BY <1>2, <1>3, ReconcileSparesNetwork
<1>4. CASE \/ Observe \/ WatchEvent \/ DeleteObject \/ Restart
           \/ ToggleBastion \/ EditLabels \/ EditContent \/ MachinesChange
           \/ UNCHANGED vars
  <2>1. UNCHANGED cloudVars
    BY <1>4 DEF Observe, WatchEvent, DeleteObject, Restart, ToggleBastion, EditLabels,
                EditContent, Edit, MachinesChange, vars
  <2> QED BY <1>2, <2>1 DEF cloudVars
<1>5. CASE GrantNodeSSH
  BY <1>2, <1>5, IDFacts DEF GrantNodeSSH, TypeInv, CloudTyped, ByoNetwork,
                             Resources, Kinds
<1>6. ASSUME NEW r \in Resources, ResourceChanges(r) \/ DeleteOutOfBand(r)
      PROVE  state'[ByoNetwork] = "up"
  <2>1. r # ByoNetwork
    <3>1. CASE ResourceChanges(r)
      BY <1>2, <3>1 DEF ResourceChanges
    <3>2. CASE DeleteOutOfBand(r)
      <4>1. r[1] # "network"
        BY <1>2, <3>2 DEF DeleteOutOfBand, Owned
      <4>2. ByoNetwork[1] = "network"
        BY DEF ByoNetwork
      <4> QED BY <4>1, <4>2
    <3> QED BY <1>6, <3>1, <3>2
  <2>2. PICK s : state' = [state EXCEPT ![r] = s]
    BY <1>6 DEF ResourceChanges, DeleteOutOfBand
  <2>3. ByoNetwork \in Resources /\ state \in [Resources -> States]
    BY IDFacts DEF TypeInv, CloudTyped, ByoNetwork, Resources, Kinds
  <2> QED BY <1>2, <2>1, <2>2, <2>3
<1> QED BY <1>3, <1>4, <1>5, <1>6 DEF Next

\* The network that spec.network.id names outlives every reconcile and the
\* deletion of the cluster, whatever fails and whatever is recorded in the
\* status (cloud/services/network/network.go:47).
THEOREM ByoNetworkNeverDeleted == Spec => []ByoNetworkKept
<1>1. Init => NamedNetworkUp
  BY IDFacts DEF Init, NamedNetworkUp, ByoNetwork, ManagedNetwork, Resources, Kinds
<1>2. TypeInv /\ NamedNetworkUp /\ [Next]_vars => NamedNetworkUp'
  BY NetworkSpared
<1>3. NamedNetworkUp => ByoNetworkKept
  BY DEF NamedNetworkUp, ByoNetworkKept, ByoNetwork
<1> QED BY <1>1, <1>2, <1>3, TypesHold, PTL DEF Spec

-----------------------------------------------------------------------------
(* The teardown waits for the Machines *)

\* Deletion is final: whoever saw the object being deleted may count on it.
Going == api.deleting \/ ~api.exists

\* What a reconcile that got past the check for Machines relies on.  No Machine
\* can appear behind its back, since nobody creates Machines for a cluster that
\* is being deleted.
Cleared == mem.deleting /\ machines # "present"

KeepInv ==
  /\ api.finalizer => api.exists
  /\ cache.deleting \/ mem.deleting => Going
  /\ pc = "machines" => mem.deleting
  /\ pc = "idle" => why # "delete"
  /\ pc \in {"deleteLB", "deleteNetwork"} \/ why = "delete" => Cleared
  /\ before.finalizer /\ ~mem.finalizer => Cleared

\* The metadata that the invariant is about, which few steps change.
SameMeta(m, o) == m.deleting = o.deleting /\ m.finalizer = o.finalizer

LEMMA MetaKept ==
  ASSUME NEW o \in Objects, NEW c
  PROVE  /\ SameMeta([o EXCEPT !.lbReady = c], o)
         /\ SameMeta([o EXCEPT !.bastionReady = c], o)
         /\ SameMeta([o EXCEPT !.network = c], o)
         /\ SameMeta([o EXCEPT !.lbID = c], o)
         /\ SameMeta([o EXCEPT !.endpoint = c], o)
         /\ SameMeta([o EXCEPT !.ready = FALSE, !.readyCond = "False"], o)
         /\ SameMeta([o EXCEPT !.ready = TRUE, !.provisioned = TRUE,
                               !.readyCond = "True"], o)
         /\ SameMeta(WithoutBastion(o), o)
<1>1. SameMeta([o EXCEPT !.lbReady = c], o)
  BY DEF SameMeta, Objects
<1>2. SameMeta([o EXCEPT !.bastionReady = c], o)
  BY DEF SameMeta, Objects
<1>3. SameMeta([o EXCEPT !.network = c], o)
  BY DEF SameMeta, Objects
<1>4. SameMeta([o EXCEPT !.lbID = c], o)
  BY DEF SameMeta, Objects
<1>5. SameMeta([o EXCEPT !.endpoint = c], o)
  BY DEF SameMeta, Objects
<1>6. SameMeta([o EXCEPT !.ready = FALSE, !.readyCond = "False"], o)
  BY DEF SameMeta, Objects
<1>7. SameMeta([o EXCEPT !.ready = TRUE, !.provisioned = TRUE,
                         !.readyCond = "True"], o)
  BY DEF SameMeta, Objects
<1>8. SameMeta(WithoutBastion(o), o)
  BY DEF SameMeta, Objects, WithoutBastion
<1> QED BY <1>1, <1>2, <1>3, <1>4, <1>5, <1>6, <1>7, <1>8

LEMMA MetaThrough ==
  ASSUME NEW m, NEW o, SameMeta(m, o), SameMeta(o, mem)
  PROVE  SameMeta(m, mem)
  BY DEF SameMeta

\* Setting a condition on top of other changes.
LEMMA ConditionMeta ==
  ASSUME NEW o \in Objects, NEW c \in ConditionStatus, SameMeta(o, mem)
  PROVE  /\ [o EXCEPT !.lbReady = c] \in Objects
         /\ [o EXCEPT !.bastionReady = c] \in Objects
         /\ SameMeta([o EXCEPT !.lbReady = c], mem)
         /\ SameMeta([o EXCEPT !.bastionReady = c], mem)
<1>1. SameMeta([o EXCEPT !.lbReady = c], o) /\ SameMeta([o EXCEPT !.bastionReady = c], o)
  BY MetaKept, Zenon
<1>2. SameMeta([o EXCEPT !.lbReady = c], mem)
  BY <1>1, MetaThrough, Zenon
<1>3. SameMeta([o EXCEPT !.bastionReady = c], mem)
  BY <1>1, MetaThrough, Zenon
<1> QED BY <1>2, <1>3, SetConditions, Zenon

\* The steps of a handler that neither enter nor leave the teardown.
Calls == {"idle", "machines", "deleteLB", "deleteNetwork"}

Routine == SameMeta(mem', mem) /\ pc' \notin Calls

LEMMA ReturnRoutine ==
  ASSUME NEW m, NEW how, SameMeta(m, mem), Return(m, how)
  PROVE  Routine
  BY DEF Return, Routine, SameMeta, Calls

LEMMA ContinueRoutine ==
  ASSUME NEW m, NEW next, next \notin Calls, SameMeta(m, mem), Continue(m, next)
  PROVE  Routine
  BY DEF Continue, Routine, SameMeta

LEMMA CloudFailsRoutine ==
  ASSUME NEW m \in Objects, NEW err, SameMeta(m, mem), CloudFails(m, err)
  PROVE  Routine
<1>1. SameMeta([m EXCEPT !.ready = FALSE, !.readyCond = "False"], m)
  BY MetaKept, Zenon
<1>2. PICK o, how : SameMeta(o, m) /\ Return(o, how)
  BY <1>1, Zenon DEF CloudFails
<1>3. SameMeta(o, mem)
  BY <1>2 DEF SameMeta
<1> QED BY <1>2, <1>3, ReturnRoutine

LEMMA SetReadyRoutine ==
  ASSUME NEW m \in Objects, SameMeta(m, mem), SetReady(m)
  PROVE  Routine
<1>1. SameMeta([m EXCEPT !.ready = TRUE, !.provisioned = TRUE,
                         !.readyCond = "True"], m)
  BY MetaKept, Zenon
<1>2. PICK o, how : SameMeta(o, m) /\ Return(o, how)
  BY <1>1, Zenon DEF SetReady
<1>3. SameMeta(o, mem)
  BY <1>2 DEF SameMeta
<1> QED BY <1>2, <1>3, ReturnRoutine

LEMMA BastionFailsRoutine ==
  ASSUME MoveTyped, NEW err, BastionFails(err)
  PROVE  Routine
<1> DEFINE o == [mem EXCEPT !.bastionReady = "False"]
<1>1. o \in Objects /\ SameMeta(o, mem)
  BY SetConditions, MetaKept, Zenon DEF MoveTyped, ConditionStatus
<1>2. CloudFails(o, err)
  BY DEF BastionFails
<1> HIDE DEF o
<1> QED BY <1>1, <1>2, CloudFailsRoutine

LEMMA SameAsBefore == SameMeta(mem, mem)
  BY DEF SameMeta

LEMMA DropFailsRoutine ==
  ASSUME MoveTyped, NEW err, DropFails(err)
  PROVE  Routine
  BY BastionFailsRoutine, ReturnRoutine, SameAsBefore DEF DropFails

\* A routine step keeps the invariant, if it does not begin a deletion.
LEMMA RoutineKeeps ==
  ASSUME KeepInv, Routine, UNCHANGED <<api, cache, before, machines>>,
         why' = why \/ why' # "delete"
  PROVE  KeepInv'
  BY DEF KeepInv, Routine, SameMeta, Calls, Cleared, Going

LEMMA NetworkRoutine ==
  ASSUME MoveTyped, CheckZones \/ EnsureNetwork
  PROVE  Routine
<1>0. mem \in Objects /\ {"network", "loadBalancer"} \cap Calls = {}
  BY DEF MoveTyped, Calls
<1>1. ASSUME NEW i, Continue([mem EXCEPT !.network = i], "loadBalancer")
      PROVE  Routine
  <2>1. SameMeta([mem EXCEPT !.network = i], mem)
    BY <1>0, MetaKept, Zenon
  <2> QED BY <1>0, <1>1, <2>1, ContinueRoutine
<1>2. ASSUME NEW err, CloudFails(mem, err)
      PROVE  Routine
  BY <1>0, <1>2, SameAsBefore, CloudFailsRoutine
<1>3. ASSUME NEW next \in {"network", "loadBalancer"}, Continue(mem, next)
      PROVE  Routine
  BY <1>0, <1>3, SameAsBefore, ContinueRoutine
<1>4. \/ \E i : Continue([mem EXCEPT !.network = i], "loadBalancer")
      \/ \E err : CloudFails(mem, err)
      \/ \E next \in {"network", "loadBalancer"} : Continue(mem, next)
  BY Zenon DEF CheckZones, EnsureNetwork
<1> QED BY <1>1, <1>2, <1>3, <1>4, Zenon

LEMMA LoadBalancerRoutine ==
  ASSUME MoveTyped, EnsureLoadBalancer \/ SetTargets
  PROVE  Routine
<1> DEFINE found == [mem EXCEPT !.lbID = LoadBalancerID]
<1>0. mem \in Objects /\ {"targets", "bastion"} \cap Calls = {}
  BY DEF MoveTyped, Calls
<1>1. found \in Objects /\ SameMeta(found, mem)
  BY <1>0, IDFacts, SetIDs, MetaKept, Zenon DEF RecordedIDs
<1>2. /\ \/ \E how : Return([mem EXCEPT !.lbReady = "False"], how)
         \/ CloudFails([found EXCEPT !.lbReady = "False"], "retryable")
         \/ Continue([found EXCEPT !.endpoint = TRUE], "targets")
         \/ \E err : CloudFails([mem EXCEPT !.lbReady = "False"], err)
         \/ \E c : Continue([mem EXCEPT !.lbReady = c], "bastion")
  BY Zenon DEF EnsureLoadBalancer, SetTargets
<1> HIDE DEF found
<1>3. /\ [mem EXCEPT !.lbReady = "False"] \in Objects
      /\ \A c : SameMeta([mem EXCEPT !.lbReady = c], mem)
  BY <1>0, SetConditions, MetaKept, Zenon DEF ConditionStatus
<1>4. /\ [found EXCEPT !.lbReady = "False"] \in Objects
      /\ SameMeta([found EXCEPT !.lbReady = "False"], mem)
  BY <1>1, ConditionMeta, Zenon DEF ConditionStatus
<1>5. SameMeta([found EXCEPT !.endpoint = TRUE], mem)
  <2>1. SameMeta([found EXCEPT !.endpoint = TRUE], found)
    BY <1>1, MetaKept, Zenon
  <2> QED BY <1>1, <2>1, MetaThrough, Zenon
<1> QED BY <1>0, <1>2, <1>3, <1>4, <1>5, ReturnRoutine, CloudFailsRoutine,
           ContinueRoutine, Zenon

LEMMA ReconcileBastionRoutine ==
  ASSUME MoveTyped, ReconcileBastion
  PROVE  Routine
<1>0. mem \in Objects /\ {"dropNodeSSH", "ensureSG"} \cap Calls = {}
  BY DEF MoveTyped, Calls
<1>1. /\ [mem EXCEPT !.bastionReady = "False"] \in Objects
      /\ [mem EXCEPT !.bastionReady = "Skipped"] \in Objects
      /\ \A c : SameMeta([mem EXCEPT !.bastionReady = c], mem)
  BY <1>0, SetConditions, MetaKept, Zenon DEF ConditionStatus
<1>2. \/ SetReady([mem EXCEPT !.bastionReady = "Skipped"])
      \/ \E next \in {"dropNodeSSH", "ensureSG"} : Continue(mem, next)
      \/ CloudFails([mem EXCEPT !.bastionReady = "False"], "permanent")
  BY Zenon DEF ReconcileBastion
<1> QED BY <1>0, <1>1, <1>2, SameAsBefore, SetReadyRoutine, CloudFailsRoutine,
           ContinueRoutine

LEMMA EnsureBastionRoutine ==
  ASSUME MoveTyped, CallTyped, EnsureSecurityGroup \/ EnsureServer \/ EnsurePublicIP
  PROVE  Routine
<1>0. mem \in Objects /\ {"ensureServer", "ensureIP"} \cap Calls = {}
  BY DEF MoveTyped, Calls
<1>1. ASSUME NEW id \in IDs,
             \/ SetReady([WithBastion(id) EXCEPT !.bastionReady = "True"])
             \/ CloudFails([WithBastion(id) EXCEPT !.bastionReady = "False"],
                           "retryable")
      PROVE  Routine
  <2> DEFINE o == WithBastion(id)
  <2>1. o \in Objects /\ SameMeta(o, mem)
    BY <1>0, SetBastion, Zenon DEF WithBastion, SameMeta, Objects
  <2> HIDE DEF o
  <2>2. /\ [o EXCEPT !.bastionReady = "True"] \in Objects
        /\ [o EXCEPT !.bastionReady = "False"] \in Objects
        /\ SameMeta([o EXCEPT !.bastionReady = "True"], mem)
        /\ SameMeta([o EXCEPT !.bastionReady = "False"], mem)
    BY <2>1, ConditionMeta, Zenon DEF ConditionStatus
  <2>3. \/ SetReady([o EXCEPT !.bastionReady = "True"])
        \/ CloudFails([o EXCEPT !.bastionReady = "False"], "retryable")
    BY <1>1 DEF o
  <2> QED BY <2>2, <2>3, SetReadyRoutine, CloudFailsRoutine
<1>2. \/ \E next \in {"ensureServer", "ensureIP"} : Continue(mem, next)
      \/ \E err \in Errors : BastionFails(err)
      \/ \E id \in IDs :
           \/ SetReady([WithBastion(id) EXCEPT !.bastionReady = "True"])
           \/ CloudFails([WithBastion(id) EXCEPT !.bastionReady = "False"],
                         "retryable")
  BY Zenon DEF EnsureSecurityGroup, EnsureServer, EnsurePublicIP
<1> QED BY <1>0, <1>1, <1>2, SameAsBefore, BastionFailsRoutine, ContinueRoutine, Zenon

LEMMA DropRoutine ==
  ASSUME MoveTyped, DropNodeSSH \/ ResolveBastion \/ DropServer \/ DropIP
  PROVE  Routine
<1>1. {"resolveBastion", "dropServer", "dropIP", "dropSG"} \cap Calls = {}
  BY DEF Calls
<1>2. \/ \E err : DropFails(err)
      \/ \E next \in {"resolveBastion", "dropServer", "dropIP", "dropSG"} :
           Continue(mem, next)
  BY Zenon DEF DropNodeSSH, ResolveBastion, DropServer, DropIP, Drop, LookupFails
<1> QED BY <1>1, <1>2, SameAsBefore, DropFailsRoutine, ContinueRoutine

LEMMA DropSGKeeps ==
  ASSUME TypeInv, KeepInv, DropSG
  PROVE  KeepInv'
<1> DEFINE o == WithoutBastion(mem)
<1>0. /\ MoveTyped /\ mem \in Objects
      /\ UNCHANGED <<api, cache, before, machines>> /\ why' = why
  BY DEF TypeInv, MoveTyped, DropSG, callVars, worldVars
<1>1. o \in Objects /\ SameMeta(o, mem)
  BY <1>0, SetIDs, MetaKept, Zenon DEF RecordedIDs
<1>2. \/ \E err : DropFails(err)
      \/ SetReady([o EXCEPT !.bastionReady = "Skipped"])
      \/ CloudFails([o EXCEPT !.bastionReady = "False"], "retryable")
      \/ why = "delete" /\ Continue(o, "deleteNetwork")
  BY Zenon DEF DropSG, BastionDropped
<1> HIDE DEF o
<1>3. /\ [o EXCEPT !.bastionReady = "Skipped"] \in Objects
      /\ [o EXCEPT !.bastionReady = "False"] \in Objects
      /\ SameMeta([o EXCEPT !.bastionReady = "Skipped"], mem)
      /\ SameMeta([o EXCEPT !.bastionReady = "False"], mem)
  BY <1>1, ConditionMeta, Zenon DEF ConditionStatus
<1>4. CASE why = "delete" /\ Continue(o, "deleteNetwork")
  BY <1>0, <1>1, <1>4 DEF Continue, KeepInv, Cleared, Going, SameMeta
<1>5. CASE ~(why = "delete" /\ Continue(o, "deleteNetwork"))
  <2>1. Routine
    BY <1>0, <1>2, <1>3, <1>5, DropFailsRoutine, SetReadyRoutine, CloudFailsRoutine
  <2> QED BY <1>0, <2>1, RoutineKeeps
<1> QED BY <1>4, <1>5

LEMMA AwaitMachinesKeeps ==
  ASSUME TypeInv, KeepInv, AwaitMachines
  PROVE  KeepInv'
<1>0. /\ mem \in Objects /\ UNCHANGED <<api, cache, before, machines>> /\ why' = why
      /\ pc = "machines" /\ mem.deleting
  BY DEF TypeInv, MoveTyped, AwaitMachines, callVars, worldVars, KeepInv
<1>1. CASE Return(mem, "retry")
  BY <1>0, <1>1, SameAsBefore, ReturnRoutine, RoutineKeeps
<1>2. CASE ~MachinesRemain /\ Return([mem EXCEPT !.finalizer = FALSE], "settled")
  <2>1. mem'.deleting /\ machines # "present" /\ pc' = "patchConditions"
    BY <1>0, <1>2 DEF Return, MachinesRemain, Objects
  <2> QED BY <1>0, <2>1 DEF KeepInv, Cleared, Going
<1>3. CASE ~MachinesRemain /\ Continue(mem, "deleteLB")
  BY <1>0, <1>3 DEF Continue, MachinesRemain, KeepInv, Cleared, Going
<1> QED BY <1>1, <1>2, <1>3 DEF AwaitMachines

LEMMA DeleteLoadBalancerKeeps ==
  ASSUME TypeInv, KeepInv, DeleteLoadBalancer
  PROVE  KeepInv'
<1>0. /\ mem \in Objects /\ UNCHANGED <<api, cache, before, machines>>
      /\ Cleared /\ "dropNodeSSH" \notin Calls
  BY DEF TypeInv, MoveTyped, DeleteLoadBalancer, worldVars, KeepInv, Calls
<1>1. Routine
  <2>1. SameMeta([mem EXCEPT !.lbID = NoID], mem)
    BY <1>0, MetaKept, Zenon
  <2> QED BY <1>0, <2>1, SameAsBefore, ReturnRoutine, ContinueRoutine
          DEF DeleteLoadBalancer
<1> QED BY <1>0, <1>1 DEF KeepInv, Routine, SameMeta, Calls, Cleared, Going

LEMMA DeleteNetworkKeeps ==
  ASSUME TypeInv, KeepInv, DeleteNetwork
  PROVE  KeepInv'
<1>0. /\ mem \in Objects /\ UNCHANGED <<api, cache, before, machines>> /\ why' = why
      /\ Cleared
  <2>1. pc = "deleteNetwork" /\ UNCHANGED <<api, cache, before, callVars, worldVars>>
    BY Zenon DEF DeleteNetwork
  <2> QED BY <2>1 DEF TypeInv, MoveTyped, callVars, worldVars, KeepInv
<1>1. mem'.deleting = mem.deleting /\ pc' = "patchConditions"
  <2>1. \/ \E id \in IDs \cup {NoID} :
             Return([mem EXCEPT !.finalizer = FALSE,
                                !.network = IF id = NoID THEN @ ELSE NoID], "settled")
        \/ Return(mem, "retry")
    BY Zenon DEF DeleteNetwork
  <2>2. ASSUME NEW c PROVE [mem EXCEPT !.finalizer = FALSE, !.network = c].deleting
                             = mem.deleting
    BY <1>0 DEF Objects
  <2> QED BY <2>1, <2>2, Zenon DEF Return
<1> QED BY <1>0, <1>1 DEF KeepInv, Cleared, Going

LEMMA NoObjectMeta ==
  ASSUME mode \in Modes
  PROVE  ~NoObject.exists /\ ~NoObject.finalizer /\ ~NoObject.deleting
<1>1. NewObject \in Objects
  BY NewObjects
<1>2. NewObject.finalizer = FALSE /\ NewObject.deleting = FALSE
  BY Zenon DEF NewObject
<1> QED BY <1>1, <1>2 DEF NoObject, Objects

\* What the requests of the patch helper do to the metadata.
LEMMA SendMeta ==
  ASSUME TypeInv, NEW fields, NEW admitted, NEW tolerated,
         fields \cap {"exists", "deleting"} = {}, Send(fields, admitted, tolerated)
  PROVE  \/ api' = api
         \/ /\ api.exists
            /\ \/ /\ api'.exists /\ api'.deleting = api.deleting
                  /\ "finalizer" \notin fields \/ mem.finalizer = before.finalizer
                       => api'.finalizer = api.finalizer
               \/ /\ ~api'.exists /\ ~api'.finalizer
                  /\ "finalizer" \notin fields \/ mem.finalizer = before.finalizer
                       => ~api.finalizer
<1> DEFINE o == Patched(fields)
<1>1. api' = api \/ (api.exists /\ api' = Collected(o))
  BY DEF Send
<1>2. /\ o.exists = api.exists /\ o.deleting = api.deleting
      /\ "finalizer" \notin fields \/ mem.finalizer = before.finalizer
           => o.finalizer = api.finalizer
  <2>1. {"exists", "deleting", "finalizer"} \subseteq DOMAIN api
    BY DEF TypeInv, StoredTyped, Objects
  <2> QED BY <2>1 DEF Patched, Merged
<1>3. ~NoObject.exists /\ ~NoObject.finalizer
  BY NoObjectMeta DEF TypeInv, WorldTyped
<1> HIDE DEF o
<1> QED BY <1>1, <1>2, <1>3 DEF Collected

LEMMA PatchesKeep ==
  ASSUME TypeInv, KeepInv, PatchConditions \/ PatchSpec \/ PatchStatus
  PROVE  KeepInv'
<1>1. PICK fields, admitted, tolerated :
        fields \cap {"exists", "deleting"} = {} /\ Send(fields, admitted, tolerated)
  BY Zenon DEF PatchConditions, PatchSpec, PatchStatus
<1>2. /\ UNCHANGED <<cache, mem, before, machines>> /\ why' = why
      /\ pc' \in {"patchSpec", "patchStatus", "patchDone"}
  BY Zenon DEF PatchConditions, PatchSpec, PatchStatus, callVars, worldVars
<1>3. (api'.finalizer => api'.exists) /\ (Going => Going')
  BY <1>1, SendMeta DEF KeepInv, Going
<1> QED BY <1>2, <1>3 DEF KeepInv, Cleared

LEMMA HandlersKeep ==
  ASSUME TypeInv, KeepInv, Reconcile
  PROVE  KeepInv'
<1>0. MoveTyped /\ CallTyped
  BY DEF TypeInv
<1>1. CASE ReconcileNothing
  BY <1>1 DEF ReconcileNothing, Dequeue, callVars, worldVars, KeepInv, Cleared, Going
<1>2. CASE ReconcileActive
  <2>1. [cache EXCEPT !.finalizer = TRUE].deleting = cache.deleting
        /\ [cache EXCEPT !.finalizer = TRUE].finalizer
    BY DEF TypeInv, StoredTyped, Objects
  <2>2. why # "delete"
    BY <1>2 DEF ReconcileActive, Dequeue, KeepInv, Cleared
  <2>3. UNCHANGED <<api, cache, machines, why>>
    BY <1>2 DEF ReconcileActive, Dequeue, callVars, worldVars
  <2> QED BY <1>2, <2>1, <2>2, <2>3, Zenon DEF ReconcileActive, KeepInv, Cleared, Going
<1>3. CASE CheckZones \/ EnsureNetwork \/ EnsureLoadBalancer \/ SetTargets
           \/ EnsureSecurityGroup \/ EnsureServer \/ EnsurePublicIP
           \/ DropNodeSSH \/ ResolveBastion \/ DropServer \/ DropIP
  <2>1. UNCHANGED <<api, cache, before, machines>> /\ why' = why
    BY <1>3, Zenon DEF CheckZones, EnsureNetwork, EnsureLoadBalancer, SetTargets,
                EnsureSecurityGroup, EnsureServer, EnsurePublicIP, DropNodeSSH,
                ResolveBastion, DropServer, DropIP, callVars, worldVars
  <2>2. Routine
    BY <1>0, <1>3, NetworkRoutine, LoadBalancerRoutine, EnsureBastionRoutine, DropRoutine
  <2> QED BY <2>1, <2>2, RoutineKeeps
<1>4. CASE ReconcileBastion
  <2>1. UNCHANGED <<api, cache, before, machines>> /\ (why' = why \/ why' # "delete")
    BY <1>4 DEF ReconcileBastion, worldVars
  <2> QED BY <1>0, <1>4, <2>1, ReconcileBastionRoutine, RoutineKeeps
<1>5. CASE PatchDone
  <2>1. ~NoObject.finalizer /\ ~NoObject.deleting
    BY NoObjectMeta DEF TypeInv, WorldTyped
  <2> QED BY <1>5, <2>1 DEF PatchDone, KeepInv, Cleared, Going, objectVars, worldVars,
                            callVars
<1> QED BY <1>1, <1>2, <1>3, <1>4, <1>5, DropSGKeeps, AwaitMachinesKeeps,
           DeleteLoadBalancerKeeps, DeleteNetworkKeeps, PatchesKeep
        DEF Reconcile

LEMMA KeepInvInductive ==
  ASSUME TypeInv, KeepInv, [Next]_vars
  PROVE  KeepInv'
<1>1. CASE Observe \/ WatchEvent \/ GrantNodeSSH \/ UNCHANGED vars
           \/ \E r \in Resources : ResourceChanges(r) \/ DeleteOutOfBand(r)
  <2>1. /\ UNCHANGED <<api, mem, before, pc, why, machines>>
        /\ cache' = cache \/ cache' = api
    BY <1>1, Zenon
       DEF Observe, WatchEvent, GrantNodeSSH, ResourceChanges, DeleteOutOfBand, vars,
           objectVars, reconcileVars, callVars, worldVars
  <2> QED BY <2>1 DEF KeepInv, Cleared, Going
<1>2. CASE DeleteObject
  <2>1. /\ api.exists /\ UNCHANGED <<cache, mem, before, pc, why, machines>>
        /\ api' = Collected([api EXCEPT !.deleting = TRUE])
    BY <1>2 DEF DeleteObject, reconcileVars, callVars, worldVars
  <2>2. [api EXCEPT !.deleting = TRUE].exists /\ [api EXCEPT !.deleting = TRUE].deleting
    BY <2>1 DEF TypeInv, StoredTyped, Objects
  <2>3. ~NoObject.exists /\ ~NoObject.finalizer
    BY NoObjectMeta DEF TypeInv, WorldTyped
  <2>4. (api'.finalizer => api'.exists) /\ Going'
    BY <2>1, <2>2, <2>3 DEF Collected, Going
  <2> QED BY <2>1, <2>4 DEF KeepInv, Cleared
<1>3. CASE ToggleBastion \/ EditLabels \/ EditContent
  <2>1. /\ UNCHANGED <<cache, mem, before, pc, why, machines>>
        /\ api' = api \/ (\E b : api' = [api EXCEPT !.enabled = b])
                      \/ (\E l : api' = [api EXCEPT !.labels = l])
    BY <1>3 DEF ToggleBastion, EditLabels, EditContent, Edit, reconcileVars, callVars
  <2>2. /\ api'.finalizer = api.finalizer /\ api'.exists = api.exists
        /\ api'.deleting = api.deleting
    BY <2>1 DEF TypeInv, StoredTyped, Objects
  <2> QED BY <2>1, <2>2 DEF KeepInv, Cleared, Going
<1>4. CASE MachinesChange
  <2>1. /\ UNCHANGED <<api, cache, mem, before, pc, why>>
        /\ machines' = "present" => ~Going
    BY <1>4 DEF MachinesChange, objectVars, reconcileVars, callVars, Going
  <2> QED BY <2>1 DEF KeepInv, Cleared, Going
<1>5. CASE Restart
  <2>1. ~NoObject.finalizer /\ ~NoObject.deleting
    BY NoObjectMeta DEF TypeInv, WorldTyped
  <2> QED BY <1>5, <2>1 DEF Restart, KeepInv, Cleared, Going
<1> QED BY <1>1, <1>2, <1>3, <1>4, <1>5, HandlersKeep DEF Next

LEMMA KeepInvInitially == Init => KeepInv
<1> SUFFICES ASSUME Init PROVE KeepInv
  OBVIOUS
<1>1. ~NoObject.finalizer /\ ~NoObject.deleting
  BY NoObjectMeta DEF Init
<1>2. NewObject.finalizer = FALSE /\ NewObject.deleting = FALSE
  BY Zenon DEF NewObject
<1> QED BY <1>1, <1>2 DEF Init, KeepInv, Cleared, Going

-----------------------------------------------------------------------------
(* With Machines around, a step keeps what their cluster needs *)

\* Resources of the kinds that Machines depend on.
Needed(r) == r[1] \in {"network", "lb"}

LEMMA ElsewhereStaysLive ==
  ASSUME CloudTyped, NEW r \in Resources, r \in Live, NEW q, r # q, NEW s,
         state' = [state EXCEPT ![q] = s]
  PROVE  r \in Live'
  BY DEF CloudTyped, Live

LEMMA CreatedStaysLive ==
  ASSUME CloudTyped, NEW r \in Live, NEW k, NEW i, Create(k, i)
  PROVE  r \in Live'
  BY DEF CloudTyped, Live, Create

LEMMA EnsuredStaysLive ==
  ASSUME CloudTyped, NEW r \in Live, NEW k, NEW id, NEW err, Ensure(k, id, err)
  PROVE  r \in Live'
<1>1. state' = state \/ \E i \in IDs \cup {id} : Create(k, i)
  BY DEF Ensure, cloudVars
<1> QED BY <1>1, CreatedStaysLive DEF Live

LEMMA DeletedStaysLive ==
  ASSUME CloudTyped, NEW r \in Live, NEW k, NEW i, <<k, i>> # r,
         state' \in {state, Deleted(k, i)}
  PROVE  r \in Live'
  BY DEF CloudTyped, Live, Deleted

\* Who changes the state of resources, and how, while the portal is closed.
StateSteps ==
  \/ state' = state
  \/ \E k, i : Create(k, i)
  \/ \E k \in {"nodeSG", "server", "ip", "sg"} : \E i : state' = Deleted(k, i)
  \/ pc = "deleteLB" /\ \E i : state' = Deleted("lb", i)
  \/ pc = "deleteNetwork" /\ \E i : state' = Deleted("network", i)
  \/ \E i \in IDs : state' = [state EXCEPT ![<<"nodeSG", i>>] = "up"]
  \/ \E r \in Resources : ResourceChanges(r)

LEMMA StateChanges ==
  ASSUME [Next]_vars, "portal" \notin mode.kinds
  PROVE  StateSteps
<1>1. CASE ReconcileNothing \/ ReconcileActive \/ CheckZones \/ SetTargets
           \/ ReconcileBastion \/ ResolveBastion \/ AwaitMachines
           \/ PatchConditions \/ PatchSpec \/ PatchStatus \/ PatchDone
           \/ Observe \/ WatchEvent \/ DeleteObject \/ Restart
           \/ ToggleBastion \/ EditLabels \/ EditContent \/ MachinesChange
           \/ UNCHANGED vars
  <2>1. UNCHANGED cloudVars
    BY <1>1, Zenon
           DEF ReconcileNothing, ReconcileActive, Dequeue, CheckZones, SetTargets,
                ReconcileBastion, ResolveBastion, AwaitMachines, PatchConditions,
                PatchSpec, PatchStatus, PatchDone, Observe, WatchEvent, DeleteObject,
                Restart, ToggleBastion, EditLabels, EditContent, Edit, MachinesChange,
                vars
  <2> QED BY <2>1 DEF cloudVars, StateSteps
<1>2. CASE EnsureNetwork \/ EnsureLoadBalancer \/ EnsureSecurityGroup
           \/ EnsureServer \/ EnsurePublicIP
  <2>1. UNCHANGED cloudVars \/ \E k, id, err : Ensure(k, id, err)
    BY <1>2, Zenon DEF EnsureNetwork, EnsureLoadBalancer, EnsureSecurityGroup,
                       EnsureServer, EnsurePublicIP
  <2>2. ASSUME NEW k, NEW id, NEW err, Ensure(k, id, err)
        PROVE  state' = state \/ \E i : Create(k, i)
    BY <2>2, Zenon DEF Ensure, cloudVars
  <2> QED BY <2>1, <2>2 DEF cloudVars, StateSteps
<1>3. CASE DropNodeSSH \/ DropServer \/ DropIP \/ DropSG
  <2>1. \E k \in {"nodeSG", "server", "ip", "sg"} : \E i : state' \in {state, Deleted(k, i)}
    BY <1>3, Zenon DEF DropNodeSSH, DropServer, DropIP, DropSG, Drop
  <2> QED BY <2>1 DEF StateSteps
<1>4. CASE DeleteLoadBalancer
  <2>1. pc = "deleteLB" /\ \E i : state' \in {state, Deleted("lb", i)}
    BY <1>4, Zenon DEF DeleteLoadBalancer
  <2> QED BY <2>1 DEF StateSteps
<1>5. CASE DeleteNetwork
  <2>1. pc = "deleteNetwork" /\ (state' = state \/ \E i : state' = Deleted("network", i))
    BY <1>5, Zenon DEF DeleteNetwork
  <2> QED BY <2>1 DEF StateSteps
<1>6. CASE GrantNodeSSH
  <2>1. \E i \in IDs : state' = [state EXCEPT ![<<"nodeSG", i>>] = "up"]
    BY <1>6, Zenon DEF GrantNodeSSH
  <2> QED BY <2>1, Zenon DEF StateSteps
<1>7. CASE \E r \in Resources : ResourceChanges(r)
  BY <1>7 DEF StateSteps
<1> QED BY <1>1, <1>2, <1>3, <1>4, <1>5, <1>6, <1>7 DEF Next, Reconcile, DeleteOutOfBand

\* Only the two calls at the ends of the teardown delete what Machines need.
LEMMA NeededResourcesKept ==
  ASSUME TypeInv, [Next]_vars, "portal" \notin mode.kinds, NEW r \in Live, Needed(r),
         pc \notin {"deleteLB", "deleteNetwork"}
  PROVE  r \in Live'
<1>0. CloudTyped /\ r \in Resources
  BY DEF TypeInv, Live
<1>1. ASSUME NEW k \in {"nodeSG", "server", "ip", "sg"}, NEW i
      PROVE  <<k, i>> # r
  <2>1. r[1] # k
    BY DEF Needed
  <2> QED BY <2>1
<1>2. CASE \E k \in {"nodeSG", "server", "ip", "sg"} : \E i : state' = Deleted(k, i)
  <2>1. PICK k \in {"nodeSG", "server", "ip", "sg"} : \E i : state' = Deleted(k, i)
    BY <1>2
  <2>2. PICK i : state' = Deleted(k, i)
    BY <2>1
  <2> QED BY <1>0, <1>1, <2>2, DeletedStaysLive
<1>3. CASE \E i \in IDs : state' = [state EXCEPT ![<<"nodeSG", i>>] = "up"]
  <2>1. PICK i \in IDs : state' = [state EXCEPT ![<<"nodeSG", i>>] = "up"]
    BY <1>3, Zenon
  <2>2. <<"nodeSG", i>> # r
    BY <1>1
  <2> QED BY <1>0, <2>1, <2>2, ElsewhereStaysLive, Zenon
<1>4. ASSUME NEW q \in Resources, ResourceChanges(q)
      PROVE  r \in Live'
  <2>1. CASE r = q
    BY <1>0, <1>4, <2>1, Zenon DEF ResourceChanges, Live, CloudTyped
  <2>2. CASE r # q
    BY <1>0, <1>4, <2>2, ElsewhereStaysLive DEF ResourceChanges
  <2> QED BY <2>1, <2>2
<1>5. CASE state' = state \/ \E k, i : Create(k, i)
  BY <1>0, <1>5, CreatedStaysLive DEF Live
<1> QED BY <1>2, <1>3, <1>4, <1>5, StateChanges, Zenon DEF StateSteps

LEMMA FinalizerKept ==
  ASSUME TypeInv, KeepInv, [Next]_vars, machines = "present", api.finalizer
  PROVE  api'.exists /\ api'.finalizer
<1>0. api.exists
  BY DEF KeepInv
<1>1. CASE PatchConditions \/ PatchSpec \/ PatchStatus
  <2>1. PICK fields, admitted, tolerated :
          fields \cap {"exists", "deleting"} = {} /\ Send(fields, admitted, tolerated)
    BY <1>1, Zenon DEF PatchConditions, PatchSpec, PatchStatus
  <2>2. mem.finalizer = before.finalizer \/ (mem.finalizer /\ ~before.finalizer)
    BY DEF KeepInv, Cleared, TypeInv, StoredTyped, MoveTyped, Objects
  <2>3. CASE mem.finalizer = before.finalizer
    BY <1>0, <2>1, <2>3, SendMeta, Zenon
  <2>4. CASE mem.finalizer /\ ~before.finalizer
    <3>1. Patched(fields).exists /\ Patched(fields).finalizer
      BY <1>0, <2>1, <2>4, Zenon DEF Patched, Merged, TypeInv, StoredTyped, Objects
    <3>2. api' = api \/ api' = Collected(Patched(fields))
      BY <2>1 DEF Send
    <3> QED BY <1>0, <3>1, <3>2 DEF Collected
  <2> QED BY <2>2, <2>3, <2>4
<1>2. CASE DeleteObject
  <2>1. [api EXCEPT !.deleting = TRUE].exists /\ [api EXCEPT !.deleting = TRUE].finalizer
    BY <1>0 DEF TypeInv, StoredTyped, Objects
  <2> QED BY <1>2, <2>1 DEF DeleteObject, Collected
<1>3. CASE ToggleBastion \/ EditLabels \/ EditContent
  <2>1. api' = api \/ (\E b : api' = [api EXCEPT !.enabled = b])
                   \/ (\E l : api' = [api EXCEPT !.labels = l])
    BY <1>3 DEF ToggleBastion, EditLabels, EditContent
  <2> QED BY <1>0, <2>1 DEF TypeInv, StoredTyped, Objects
<1>4. CASE ~(\/ PatchConditions \/ PatchSpec \/ PatchStatus \/ DeleteObject
             \/ ToggleBastion \/ EditLabels \/ EditContent)
  <2>1. api' = api
    BY <1>4, Zenon
    DEF  Next, Reconcile, ReconcileNothing, ReconcileActive, Dequeue, CheckZones,
         EnsureNetwork, EnsureLoadBalancer, SetTargets, ReconcileBastion,
         EnsureSecurityGroup, EnsureServer, EnsurePublicIP, DropNodeSSH,
         ResolveBastion, DropServer, DropIP, DropSG, AwaitMachines,
         DeleteLoadBalancer, DeleteNetwork, PatchDone, Observe, WatchEvent, Restart,
         MachinesChange, GrantNodeSSH, ResourceChanges, DeleteOutOfBand, vars,
         objectVars
  <2> QED BY <1>0, <2>1
<1> QED BY <1>1, <1>2, <1>3, <1>4

\* Nobody deletes the provider's resources in the portal.
PortalClosed == "portal" \notin mode.kinds

\* While a Machine exists, no reconcile gives up the finalizer or the network
\* and the load balancer that the Machine depends on, whatever fails, however
\* stale the reads are, and whenever the deletion is requested
\* (reconcileDelete, controller/stackitcluster_infrastructure.go:475).
THEOREM ClusterOutlivesMachines == Spec /\ []PortalClosed => MachinesKeepCluster
<1>1. ASSUME TypeInv, KeepInv, [Next]_vars, PortalClosed
      PROVE  [machines = "present" =>
                /\ api.finalizer => api'.exists /\ api'.finalizer
                /\ \A r \in Owned : r[1] \in {"network", "lb"} => r \in Live']_vars
  <2> SUFFICES ASSUME machines = "present"
               PROVE  /\ api.finalizer => api'.exists /\ api'.finalizer
                      /\ \A r \in Owned : r[1] \in {"network", "lb"} => r \in Live'
    OBVIOUS
  <2>1. Owned \subseteq Live
    BY DEF Owned
  <2>2. pc \notin {"deleteLB", "deleteNetwork"}
    BY <1>1 DEF KeepInv, Cleared
  <2> QED BY <1>1, <2>1, <2>2, FinalizerKept, NeededResourcesKept DEF PortalClosed, Needed
<1>2. TypeInv /\ KeepInv /\ [Next]_vars => KeepInv'
  BY KeepInvInductive
<1>3. Spec => []KeepInv
  BY <1>2, KeepInvInitially, TypesHold, PTL DEF Spec
<1> QED BY <1>1, <1>3, TypesHold, PTL DEF Spec, MachinesKeepCluster
=============================================================================
