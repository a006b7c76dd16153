----------------------- MODULE StackitClusterOwnership -----------------------
(***************************************************************************)
(* The cloud resources of a cluster, never without the finalizer: proofs   *)
(* about StackitCluster for any number of faults, and with reads as late   *)
(* as they like.                                                           *)
(***************************************************************************)
EXTENDS StackitClusterRest

-----------------------------------------------------------------------------
(* Never without the finalizer, while nobody edits the cluster *)

\* Nobody edits the cluster, its cloudInitRef object or its resources.
LeftAlone == mode.kinds = {}

FirstID == 1

\* A resource of the provider that came into being, now or earlier.
EverCreated ==
  \E r \in Resources : state[r] # "none" /\ (ManagedNetwork \/ r[1] # "network")

Guarding == api.exists /\ api.finalizer

\* The finalizer may be missing: nobody is going to create anything again.
Released == Going /\ machines # "present" /\ (Owned = {} \/ skipped)

Guarded == EverCreated => Guarding \/ Released

\* Nothing is created a second time: what was torn down is not needed again.
FirstOnly == \A k \in Kinds, i \in IDs : i # FirstID => state[<<k, i>>] = "none"

TornDown ==
  (\E r \in Resources : state[r] \in {"deleting", "gone"}) =>
    DeletionSeen /\ machines # "present" /\ (pc # "idle" => mem.deleting)

\* The record of the bastion is empty or complete.
Recorded(o) ==
  /\ o.enabled = BastionAtStart
  /\ o.network \in {NoID, FirstID} /\ o.lbID \in {NoID, FirstID}
  /\ \/ o.server = NoID /\ o.ip = NoID /\ o.sg = NoID /\ o.hash = NoHash
     \/ /\ o.server = FirstID /\ o.ip = FirstID /\ o.sg = FirstID
        /\ o.hash = CloudInitHash(InitialContent)

Records ==
  /\ Recorded(api) /\ Recorded(cache) /\ Recorded(mem) /\ Recorded(before)
  /\ content = InitialContent /\ userData = InitialContent
  /\ ids.server \in {NoID, FirstID} /\ ids.ip \in {NoID, FirstID}
  /\ ids.sg \in {NoID, FirstID}
  /\ pc \in {"ensureServer", "ensureIP"} => ids.sg = FirstID
  /\ pc = "ensureIP" => ids.server = FirstID

\* Without a bastion there is nothing to drop, and nothing else is dropped
\* before the cluster is deleted.
NoBastion ==
  /\ ~BastionAtStart =>
       \A k \in BastionKinds \cup {"nodeSG"}, i \in IDs : state[<<k, i>>] = "none"
  /\ pc \in DropSteps /\ ~mem.deleting => ~BastionAtStart
  /\ pc \in {"ensureSG", "ensureServer", "ensureIP"} => BastionAtStart

\* The finalizer is persisted before anything is created.
Persisted ==
  /\ cache.exists /\ ~cache.deleting /\ cache.finalizer => Guarding
  /\ pc # "idle" /\ mem.deleting => before.finalizer
  /\ pc # "idle" /\ ~mem.deleting => mem.finalizer
  /\ pc # "idle" /\ ~mem.deleting
     /\ \/ before.finalizer
        \/ pc \in NormalSteps \cup DropSteps
        \/ resume = "zones" /\ pc \in {"patchStatus", "patchDone"}
     => Guarding

\* What the teardown of a deleted cluster has behind it.
Down(k) == \A i \in IDs : <<k, i>> \notin Live

AfterLB == DropSteps \cup {"deleteNetwork"}
AfterNodeSSH == AfterLB \ {"dropNodeSSH"}
AfterServer == {"dropIP", "dropSG", "deleteNetwork"}
AfterIP == {"dropSG", "deleteNetwork"}

TearOrder ==
  mem.deleting =>
    /\ pc \in AfterLB => Down("lb")
    /\ pc \in AfterNodeSSH => Down("nodeSG")
    /\ pc \in {"dropServer", "dropIP", "dropSG"} =>
         \A k \in BastionKinds : ids[k] = NoID => Down(k)
    /\ pc \in AfterServer => Down("server")
    /\ pc \in AfterIP => Down("ip")
    /\ pc = "deleteNetwork" => Down("sg")
    /\ pc # "idle" /\ ~mem.finalizer => Owned = {} \/ skipped

OwnInv ==
  Guarded /\ FirstOnly /\ TornDown /\ Records /\ NoBastion /\ Persisted /\ TearOrder

-----------------------------------------------------------------------------
(* Never without the finalizer: how the resources of a cluster come and go *)

\* What is known besides OwnInv.
Standing == TypeInv /\ KeepInv /\ RestInv /\ TornLast /\ LabelInv /\ LeftAlone

First(k) == <<k, FirstID>>

\* The first resource of its kind is created, under the finalizer,
Born(k) ==
  /\ state[First(k)] = "none"
  /\ \E v \in {"pending", "up"} : state' = [state EXCEPT ![First(k)] = v]
  /\ Guarding
  /\ pc \in NormalSteps \/ (k = "nodeSG" /\ machines = "present")
  /\ k \in BastionKinds \cup {"nodeSG"} => BastionAtStart
  /\ k = "network" => ManagedNetwork
  /\ UNCHANGED <<api, cache, before, machines, skipped>>

\* and it is torn down once the cluster is deleted and its Machines are gone.
Torn(k) ==
  /\ First(k) \in Live
  /\ \E v \in {"deleting", "gone"} : state' = [state EXCEPT ![First(k)] = v]
  /\ pc # "idle" /\ Cleared
  /\ k = "network" => ManagedNetwork
  /\ UNCHANGED <<api, cache, before, machines, skipped>>

OwnSteps ==
  \/ UNCHANGED state
  \/ \E k \in Kinds : Born(k) \/ Torn(k)
  \/ \E r \in Resources : ResourceChanges(r)

LEMMA FirstFacts == /\ FirstID \in IDs /\ NoID \notin IDs
                    /\ \A k \in Kinds : First(k) \in Resources
  BY IDFacts DEF FirstID, First, Resources

\* While nothing was torn down, a resource that is not present never existed.
LEMMA NeverExisted ==
  ASSUME Standing, OwnInv, NEW k \in Kinds, \A j \in IDs : ~Present(k, j),
         ~(DeletionSeen /\ machines # "present" /\ (pc # "idle" => mem.deleting))
  PROVE  state[First(k)] = "none"
<1>1. state \in [Resources -> States] /\ First(k) \in Resources /\ FirstID \in IDs
  BY FirstFacts DEF Standing, TypeInv, CloudTyped
<1> USE <1>1
<1>2. state[First(k)] \notin {"deleting", "gone"}
  BY DEF OwnInv, TornDown
<1>3. state[First(k)] \notin {"pending", "up", "deleting"}
  BY DEF Present, First
<1> QED BY <1>2, <1>3 DEF States

LEMMA FirstAvailable ==
  ASSUME NEW k \in Kinds, NEW i \in IDs, Available(k, i), state[First(k)] = "none"
  PROVE  i = FirstID
<1>1. i \in Nat /\ FirstID \in IDs /\ i >= 1
  BY FirstFacts, ClusterAssumption DEF IDs
<1> QED BY <1>1 DEF Available, FirstID, First, LoadBalancerID

LEMMA NormalMeans ==
  ASSUME Standing, OwnInv, pc \in NormalSteps
  PROVE  ~mem.deleting /\ pc # "idle" /\ Guarding
  BY DEF Standing, RestInv, Halves, Direction, OwnInv, Persisted, NormalSteps

LEMMA EnsureBorn ==
  ASSUME Standing, OwnInv, NEW k \in Kinds \ {"nodeSG"}, NEW i \in IDs, Creating(k, i)
  PROVE  Born(k)
<1>1. pc \in NormalSteps
  BY DEF Creating, EnsureSteps, NormalSteps
<1>2. ~mem.deleting /\ pc # "idle" /\ Guarding
  BY <1>1, NormalMeans
<1>3. \A j \in IDs : ~Present(k, j)
  BY AllMatch DEF Creating, Standing, LabelInv
<1>4. state[First(k)] = "none"
  BY <1>2, <1>3, NeverExisted
<1>5. i = FirstID
  BY <1>4, FirstAvailable DEF Creating
<1>6. \E v \in {"pending", "up"} : state' = [state EXCEPT ![First(k)] = v]
  BY <1>5, Zenon DEF Creating, Create, First
<1>7. k \in BastionKinds => BastionAtStart
  BY DEF Creating, OwnInv, NoBastion
<1> QED BY <1>1, <1>2, <1>4, <1>6, <1>7, Zenon DEF Born, Creating

LEMMA GrantBorn ==
  ASSUME Standing, OwnInv, GrantNodeSSH
  PROVE  Born("nodeSG")
<1> DEFINE k == "nodeSG"
<1>0. k \in Kinds /\ k \notin BastionKinds /\ "sg" \in Kinds
  BY DEF Kinds, BastionKinds
<1> USE <1>0
<1>1. \A j \in IDs : ~Present(k, j)
  BY Zenon DEF GrantNodeSSH, SameLabels, Resources, Standing, LabelInv
<1>2. machines = "present"
  BY DEF GrantNodeSSH
<1> USE <1>2
<1>3. state[First(k)] = "none"
  BY <1>1, NeverExisted
<1>4. PICK i \in IDs : Available(k, i) /\ state' = [state EXCEPT ![<<k, i>>] = "up"]
  BY Zenon DEF GrantNodeSSH
<1>5. state' = [state EXCEPT ![First(k)] = "up"]
  BY <1>3, <1>4, FirstAvailable, Zenon DEF First
<1>6. PICK j \in IDs : state[<<"sg", j>>] # "none"
  BY DEF GrantNodeSSH
<1>7. BastionAtStart
  BY <1>6 DEF OwnInv, NoBastion, BastionKinds
<1>8. Guarding
  <2>1. EverCreated
    BY <1>6 DEF EverCreated, Resources
  <2> QED BY <2>1 DEF OwnInv, Guarded, Released
<1>9. UNCHANGED <<api, cache, before, machines, skipped>>
  BY DEF GrantNodeSSH, objectVars, reconcileVars, worldVars
<1> QED BY <1>3, <1>5, <1>7, <1>8, <1>9, Zenon DEF Born

LEMMA DeleteTorn ==
  ASSUME Standing, OwnInv, NEW k \in Kinds, NEW i \in RecordedIDs, Deleting(k, i)
  PROVE  UNCHANGED state \/ Torn(k)
<1> SUFFICES ASSUME state' # state
             PROVE  Torn(k)
  OBVIOUS
<1>1. i # NoID /\ <<k, i>> \in Live
  BY DEF Deleting, Deleted
<1> USE <1>1
<1>2. i = FirstID
  BY DEF OwnInv, FirstOnly, Live, RecordedIDs
<1> USE <1>2
<1>3. \E v \in {"deleting", "gone"} : state' = [state EXCEPT ![First(k)] = v]
  BY Zenon DEF Deleting, Deleted, First
<1>4. CASE pc \in {"deleteLB", "deleteNetwork"}
  <2> USE <1>4
  <2>1. Cleared
    BY DEF Standing, KeepInv
  <2> QED BY <1>3, <2>1 DEF Torn, Deleting, First
<1>5. CASE pc \in DropSteps
  <2> USE <1>5
  <2>1. k \in BastionKinds \cup {"nodeSG"} /\ pc # "idle"
    BY DEF Deleting, DropSteps, Kinds, BastionKinds
  <2>2. BastionAtStart
    BY <2>1 DEF OwnInv, NoBastion, Live, RecordedIDs
  <2>3. mem.deleting
    BY <2>2 DEF OwnInv, NoBastion
  <2>4. Cleared
    BY <2>3 DEF Standing, RestInv, Halves, Direction, KeepInv
  <2> QED BY <1>3, <2>1, <2>4 DEF Torn, Deleting, First
<1> QED BY <1>4, <1>5 DEF Deleting

LEMMA OwnMoves ==
  ASSUME Standing, OwnInv, [Next]_vars
  PROVE  OwnSteps
<1>1. CloudSteps
  BY CloudChanges DEF Standing
<1>2. ASSUME NEW r \in Resources PROVE ~DeleteOutOfBand(r)
  BY DEF DeleteOutOfBand, Standing, LeftAlone
<1>3. CASE \E k \in Kinds \ {"nodeSG"} : \E i \in IDs : Creating(k, i)
  BY <1>3, EnsureBorn DEF OwnSteps
<1>4. CASE \E k \in Kinds : \E i \in RecordedIDs : Deleting(k, i)
  BY <1>4, DeleteTorn DEF OwnSteps
<1>5. CASE GrantNodeSSH
  BY <1>5, GrantBorn DEF OwnSteps, Kinds
<1> QED BY <1>1, <1>2, <1>3, <1>4, <1>5 DEF CloudSteps, OwnSteps

-----------------------------------------------------------------------------
(* The resources of OwnInv *)

\* The states a step can bring a resource to.
LEMMA OwnStates ==
  ASSUME Standing, OwnInv, [Next]_vars
  PROVE  /\ \A r \in Resources :
              \/ state'[r] = state[r]
              \/ \E k \in Kinds : r = First(k) /\ state'[r] \in States \ {"none"}
                                  /\ (Born(k) \/ Torn(k))
              \/ state[r] = "pending" /\ state'[r] = "up"
              \/ state[r] = "deleting" /\ state'[r] = "gone"
         /\ state' \in [Resources -> States]
<1>0. state \in [Resources -> States] /\ \A k \in Kinds : First(k) \in Resources
  BY FirstFacts DEF Standing, TypeInv, CloudTyped
<1> USE DEF States
<1>1. ASSUME NEW k \in Kinds, Born(k) \/ Torn(k), NEW r \in Resources
      PROVE  state'[r] = state[r] \/ (r = First(k) /\ state'[r] \in States \ {"none"})
  <2>1. PICK v \in States \ {"none"} : state' = [state EXCEPT ![First(k)] = v]
    BY <1>1 DEF Born, Torn
  <2> QED BY <1>0, <2>1
<1>2. ASSUME NEW q \in Resources, ResourceChanges(q), NEW r \in Resources
      PROVE  \/ state'[r] = state[r]
             \/ state[r] = "pending" /\ state'[r] = "up"
             \/ state[r] = "deleting" /\ state'[r] = "gone"
  BY <1>0, <1>2 DEF ResourceChanges
<1>3. state' \in [Resources -> States]
  <2>1. TypeInv'
    BY NextTyped DEF Standing
  <2> QED BY <2>1 DEF TypeInv, CloudTyped
<1> QED BY <1>1, <1>2, <1>3, OwnMoves DEF OwnSteps

LEMMA FirstOnlyKept ==
  ASSUME Standing, OwnInv, [Next]_vars
  PROVE  FirstOnly'
<1> SUFFICES ASSUME NEW k \in Kinds, NEW i \in IDs, i # FirstID
             PROVE  state'[<<k, i>>] = "none"
  BY DEF FirstOnly
<1>1. <<k, i>> \in Resources /\ state[<<k, i>>] = "none" /\ \A l \in Kinds : <<k, i>> # First(l)
  BY DEF OwnInv, FirstOnly, Resources, First
<1> QED BY <1>1, OwnStates

LEMMA DeletionIsFinal ==
  ASSUME Standing, [Next]_vars
  PROVE  /\ DeletionSeen => DeletionSeen' /\ Going
         /\ Going => Going'
         /\ Going /\ machines # "present" => machines' # "present"
<1>0. TypeInv /\ KeepInv /\ RestInv /\ TornLast
  BY DEF Standing
<1> USE <1>0
<1>1. DeletionSeen => DeletionSeen'
  BY MetaSteps DEF DeletionSeen, KeepInv, Going, TornLast
<1>2. DeletionSeen => Going
  BY DEF DeletionSeen, KeepInv, Going, TornLast
<1>3. machines' = machines \/ MachinesChange
  BY Zenon DEF Next, Reconcile, ReconcileNothing, ReconcileActive, Dequeue, CheckZones,
         EnsureNetwork, EnsureLoadBalancer, SetTargets, ReconcileBastion,
         EnsureSecurityGroup, EnsureServer, EnsurePublicIP, DropNodeSSH,
         ResolveBastion, DropServer, DropIP, DropSG, AwaitMachines,
         DeleteLoadBalancer, DeleteNetwork, PatchConditions, PatchSpec, PatchStatus,
         PatchDone, Observe, WatchEvent, DeleteObject, Restart, ToggleBastion,
         EditLabels, EditContent, Edit, MachinesChange, GrantNodeSSH,
         ResourceChanges, DeleteOutOfBand, vars, worldVars
<1>4. Going /\ machines # "present" => machines' # "present"
  BY <1>3 DEF MachinesChange, Going
<1> QED BY <1>1, <1>2, <1>4, MetaSteps

LEMMA TornDownKept ==
  ASSUME Standing, OwnInv, [Next]_vars
  PROVE  TornDown'
<1> DEFINE Past == DeletionSeen /\ machines # "present" /\ (pc # "idle" => mem.deleting)
<1>1. Past => Past'
  <2>1. TypeInv /\ RestInv
    BY DEF Standing
  <2>2. ASSUME pc' # "idle", Past PROVE mem'.deleting
    BY <2>1, <2>2, SameHalf DEF DeletionSeen
  <2> QED BY <2>2, DeletionIsFinal
<1>2. ASSUME NEW r \in Resources, state'[r] \in {"deleting", "gone"}
      PROVE  Past
  <2> USE <1>2
  <2>1. CASE state[r] \in {"deleting", "gone"}
    BY <2>1 DEF OwnInv, TornDown
  <2>2. CASE state[r] \notin {"deleting", "gone"}
    <3>1. PICK k \in Kinds : r = First(k) /\ (Born(k) \/ Torn(k))
      BY <2>2, OwnStates
    <3>2. ~Born(k)
      <4>1. state \in [Resources -> States]
        BY DEF Standing, TypeInv, CloudTyped
      <4> QED BY <3>1, <4>1 DEF Born
    <3>3. Cleared /\ pc # "idle"
      BY <3>1, <3>2 DEF Torn
    <3> QED BY <3>3 DEF Cleared, Standing, TornLast
  <2> QED BY <2>1, <2>2
<1> QED BY <1>1, <1>2 DEF TornDown

\* The finalizer goes with a reconcile that gave it up, and it comes with the
\* first PatchObject of reconcileNormal.
Lowered == Guarding /\ ~Guarding'

Raised == ~Guarding /\ Guarding'

LEMMA FinalizerMoves ==
  ASSUME Standing, OwnInv, [Next]_vars, Lowered \/ Raised
  PROVE  /\ PatchSpec
         /\ Lowered => mem.deleting /\ ~mem.finalizer
         /\ Raised => api.exists /\ ~api.finalizer
<1>0. TypeInv /\ KeepInv /\ RestInv
  BY DEF Standing
<1> USE <1>0
<1>1. ~(PatchConditions \/ PatchStatus)
  <2> SUFFICES ASSUME PatchConditions \/ PatchStatus PROVE FALSE
    OBVIOUS
  <2>1. PICK fields, admitted, tolerated :
          /\ fields \cap {"exists", "deleting"} = {} /\ "finalizer" \notin fields
          /\ Send(fields, admitted, tolerated)
    BY Zenon DEF PatchConditions, PatchStatus
  <2> QED BY <2>1, SendMeta, Zenon DEF Lowered, Raised, Guarding
<1>2. ~DeleteObject
  <2>1. [api EXCEPT !.deleting = TRUE].exists = api.exists
        /\ [api EXCEPT !.deleting = TRUE].finalizer = api.finalizer
    BY DEF TypeInv, StoredTyped, Objects
  <2>2. ~NoObject.exists
    BY NoObjectMeta DEF TypeInv, WorldTyped
  <2> QED BY <2>1, <2>2, Zenon DEF DeleteObject, Collected, Lowered, Raised, Guarding
<1>3. ~(ToggleBastion \/ EditLabels \/ EditContent)
  BY DEF ToggleBastion, EditLabels, EditContent, Edit, Standing, LeftAlone
<1>4. PatchSpec
  <2> SUFFICES ASSUME ~PatchSpec PROVE FALSE
    OBVIOUS
  <2>1. api' = api
    BY <1>1, <1>2, <1>3, Zenon
    DEF  Next, Reconcile, ReconcileNothing, ReconcileActive, Dequeue, CheckZones,
         EnsureNetwork, EnsureLoadBalancer, SetTargets, ReconcileBastion,
         EnsureSecurityGroup, EnsureServer, EnsurePublicIP, DropNodeSSH,
         ResolveBastion, DropServer, DropIP, DropSG, AwaitMachines,
         DeleteLoadBalancer, DeleteNetwork, PatchDone, Observe, WatchEvent, Restart,
         MachinesChange, GrantNodeSSH, ResourceChanges,
         DeleteOutOfBand, vars, objectVars
  <2> QED BY <2>1 DEF Lowered, Raised, Guarding
<1> USE <1>4
<1>5. Send(SpecFields, TRUE, FALSE) /\ SpecFields \cap {"exists", "deleting"} = {}
  BY Zenon DEF PatchSpec, SpecFields
<1> USE <1>5
<1>6. Raised => api.exists /\ ~api.finalizer
  BY SendMeta, Zenon DEF Raised, Guarding
<1>7. ASSUME Lowered PROVE mem.deleting /\ ~mem.finalizer
  <2> USE <1>7
  <2>1. mem.finalizer # before.finalizer
    BY SendMeta, Zenon DEF Lowered, Guarding
  <2>2. ASSUME mem.finalizer PROVE FALSE
    <3>1. {"exists", "finalizer"} \subseteq DOMAIN api /\ mem.finalizer = TRUE
      BY <2>2 DEF TypeInv, StoredTyped, MoveTyped, Objects
    <3>2. Patched(SpecFields).exists = api.exists /\ Patched(SpecFields).finalizer
      BY <2>1, <3>1 DEF Patched, Merged, SpecFields
    <3>3. api' = api \/ api' = Collected(Patched(SpecFields))
      BY DEF Send
    <3> QED BY <3>2, <3>3, Zenon DEF Collected, Lowered, Guarding
  <2>3. pc # "idle"
    BY DEF PatchSpec
  <2> QED BY <2>2, <2>3 DEF OwnInv, Persisted
<1> QED BY <1>6, <1>7

LEMMA PatchSpecMoves ==
  ASSUME PatchSpec
  PROVE  /\ pc = "patchSpec" /\ pc' = "patchStatus"
         /\ UNCHANGED <<state, machines, skipped, mode, cache, mem, before>>
  BY DEF PatchSpec, cloudVars, worldVars

\* The finalizer is there whenever it has to be.
LEMMA OwnedKept ==
  ASSUME Standing, OwnInv, [Next]_vars
  PROVE  /\ Owned = {} => Owned' = {} \/ \E k \in Kinds : Born(k)
         /\ skipped => skipped'
<1>1. mode' = mode
  BY ModeKept
<1>2. ASSUME \A k \in Kinds : ~Born(k), Owned = {}, NEW r \in Owned'
      PROVE  FALSE
  <2> USE <1>2
  <2>1. r \in Resources /\ state'[r] \in {"pending", "up"}
        /\ (ManagedNetwork \/ r[1] # "network")
    BY <1>1 DEF Owned, Live, ManagedNetwork
  <2>2. state[r] \notin {"pending", "up"}
    BY <2>1 DEF Owned, Live
  <2>3. PICK k \in Kinds : r = First(k) /\ Torn(k)
    BY <2>1, <2>2, OwnStates
  <2> QED BY <2>2, <2>3 DEF Torn, Live
<1>3. skipped => skipped'
  BY Zenon DEF Next, Reconcile, ReconcileNothing, ReconcileActive, Dequeue, CheckZones,
         EnsureNetwork, EnsureLoadBalancer, SetTargets, ReconcileBastion,
         EnsureSecurityGroup, EnsureServer, EnsurePublicIP, DropNodeSSH,
         ResolveBastion, DropServer, DropIP, DropSG, AwaitMachines,
         DeleteLoadBalancer, DeleteNetwork, PatchConditions, PatchSpec, PatchStatus,
         PatchDone, Observe, WatchEvent, DeleteObject, Restart, ToggleBastion,
         EditLabels, EditContent, Edit, MachinesChange, GrantNodeSSH,
         ResourceChanges, DeleteOutOfBand, vars
<1> QED BY <1>2, <1>3

LEMMA GuardedKept ==
  ASSUME Standing, OwnInv, [Next]_vars
  PROVE  Guarded'
<1>1. mode' = mode
  BY ModeKept
<1>2. ASSUME Released, ~Guarding PROVE Released'
  <2> USE <1>2
  <2>1. \A k \in Kinds : ~Born(k)
    BY DEF Born
  <2> QED BY <2>1, OwnedKept, DeletionIsFinal DEF Released
<1>3. ASSUME Lowered PROVE Released'
  <2>1. PatchSpec /\ mem.deleting /\ ~mem.finalizer
    BY <1>3, FinalizerMoves
  <2> USE <2>1
  <2>2. pc = "patchSpec" /\ UNCHANGED <<state, machines, skipped, mode>>
    BY PatchSpecMoves
  <2> USE <2>2
  <2>3. Owned = {} \/ skipped
    BY DEF OwnInv, TearOrder
  <2>4. Owned' = Owned
    BY DEF Owned, Live, ManagedNetwork
  <2>5. Going' /\ machines # "present"
    <3>1. before.finalizer
      BY DEF OwnInv, Persisted
    <3> QED BY <3>1, DeletionIsFinal DEF Standing, KeepInv, Cleared
  <2> QED BY <2>3, <2>4, <2>5 DEF Released
<1>4. ASSUME EverCreated', ~EverCreated PROVE Guarding'
  <2> USE <1>4
  <2>1. PICK r \in Resources : state'[r] # "none" /\ (ManagedNetwork \/ r[1] # "network")
    BY <1>1 DEF EverCreated, ManagedNetwork
  <2>2. state[r] = "none"
    BY <2>1 DEF EverCreated
  <2>3. PICK k \in Kinds : r = First(k) /\ (Born(k) \/ Torn(k))
    BY <2>1, <2>2, OwnStates
  <2>4. Born(k)
    BY <2>2, <2>3 DEF Torn, Live
  <2> QED BY <2>4 DEF Born, Guarding
<1> QED BY <1>2, <1>3, <1>4 DEF OwnInv, Guarded, Lowered

-----------------------------------------------------------------------------
(* The records of OwnInv *)

LEMMA NoBastionKept ==
  ASSUME Standing, OwnInv, [Next]_vars
  PROVE  NoBastion'
<1> DEFINE Ensuring == {"ensureSG", "ensureServer", "ensureIP"}
           OwnKinds == BastionKinds \cup {"nodeSG"}
<1>0. TypeInv /\ RestInv /\ OwnKinds \subseteq Kinds /\ Ensuring \subseteq NormalSteps
  BY DEF Standing, BastionKinds, Kinds, NormalSteps
<1> USE <1>0
<1>1. ASSUME ~BastionAtStart, NEW k \in OwnKinds, NEW i \in IDs
      PROVE  state'[<<k, i>>] = "none"
  <2> USE <1>1
  <2>1. state[<<k, i>>] = "none" /\ <<k, i>> \in Resources
    BY DEF OwnInv, NoBastion, Resources
  <2>2. ASSUME NEW l \in Kinds, <<k, i>> = First(l), Born(l) \/ Torn(l)
        PROVE  FALSE
    <3> USE <2>2
    <3>1. l = k
      BY DEF First
    <3> QED BY <2>1, <3>1 DEF Born, Torn, Live
  <2> QED BY <2>1, <2>2, OwnStates
<1>2. /\ (pc \in DropSteps /\ ~mem.deleting => ~BastionAtStart)'
      /\ (pc \in Ensuring => BastionAtStart)'
  <2>0. /\ pc \in DropSteps /\ ~mem.deleting => ~BastionAtStart
        /\ pc \in Ensuring => BastionAtStart
    BY DEF OwnInv, NoBastion
  <2> USE <2>0
  <2> USE DEF Watched, DropSteps, Stops
  <2>1. CASE UNCHANGED reconcileVars
    BY <2>1 DEF reconcileVars
  <2>2. CASE Calm
    BY <2>2 DEF Calm
  <2>3. CASE ReconcileBastion
    <3>1. mem.enabled = BastionAtStart /\ content = InitialContent /\ Recorded(mem)
      BY Zenon DEF OwnInv, Records, Recorded
    <3>2. ~NeedsRecreate(mem, content)
      BY <3>1 DEF Recorded, NeedsRecreate, HasBastionStatus
    <3> QED BY <2>3, <3>1, <3>2, BastionCalls
  <2>4. CASE EnsureSecurityGroup \/ EnsureServer
    <3> USE <2>4
    <3>1. pc \in Ensuring
      BY Zenon DEF EnsureSecurityGroup, EnsureServer
    <3> QED BY <3>1, EnsureCalls, Zenon
  <2>5. CASE DropNodeSSH \/ ResolveBastion \/ DropServer \/ DropIP \/ DropSG
    <3> USE <2>5
    <3>1. mem'.deleting = mem.deleting
      <4>1. pc \in DropSteps
        BY DropCalls
      <4>2. GoesOn \/ Returns
        BY DropsHandled, DropSGHandled
      <4> QED BY <4>2 DEF GoesOn, Returns
    <3> QED BY <3>1, DropCalls
  <2>6. CASE DeleteLoadBalancer
    <3> USE <2>6
    <3>1. pc = "deleteLB"
      BY DEF DeleteLoadBalancer
    <3>2. mem.deleting
      BY <3>1 DEF RestInv, Halves, Direction
    <3>3. GoesOn \/ Returns
      BY <3>2, DeletionHandled
    <3>4. mem'.deleting
      BY <3>2, <3>3, Zenon DEF GoesOn, Returns
    <3>5. Stops \/ pc' = "dropNodeSSH"
      BY Stopping, Zenon DEF DeleteLoadBalancer, Continue
    <3> QED BY <3>4, <3>5
  <2> QED BY <2>1, <2>2, <2>3, <2>4, <2>5, <2>6, CalmSteps DEF Leading
<1> QED BY <1>1, <1>2, Zenon DEF NoBastion

\* What Ensure finds or creates is the first of its kind.
LEMMA EnsuredFirst ==
  ASSUME Standing, OwnInv, NEW k \in Kinds, NEW id \in IDs, Ensure(k, id, "none"),
         pc \in NormalSteps
  PROVE  id = FirstID
<1>1. CASE Matching(k) = {id}
  <2>1. Present(k, id)
    BY <1>1, Zenon DEF Matching
  <2> QED BY <2>1 DEF Present, OwnInv, FirstOnly
<1>2. CASE Matching(k) = {} /\ Available(k, id)
  <2> USE <1>2
  <2>1. \A j \in IDs : ~Present(k, j)
    BY AllMatch DEF Standing, LabelInv
  <2>2. state[First(k)] = "none"
    BY <2>1, NormalMeans, NeverExisted
  <2> QED BY <2>2, FirstAvailable
<1> QED BY <1>1, <1>2, Zenon DEF Ensure, Errors

\* What a lookup resolves is the first of its kind, or nothing.
LEMMA ResolvedFirst ==
  ASSUME Standing, OwnInv, NEW k \in Kinds, NEW recorded \in {NoID, FirstID}, NEW id,
         Resolved(k, recorded, id)
  PROVE  /\ id \in {NoID, FirstID}
         /\ id = NoID => Down(k)
<1>1. CASE recorded # NoID /\ id = recorded
  BY <1>1
<1>2. CASE Matching(k) = {} /\ id = NoID
  BY <1>2, AllMatch DEF Standing, LabelInv, Down, Live, Present
<1>3. CASE Matching(k) = {id}
  <2>1. id \in IDs /\ Present(k, id)
    BY <1>3, Zenon DEF Matching
  <2> QED BY <2>1, FirstFacts DEF Present, OwnInv, FirstOnly
<1> QED BY <1>1, <1>2, <1>3 DEF Resolved

LEMMA EmptyRecord ==
  ASSUME TypeInv
  PROVE  Recorded(NoObject)
<1>0. NewObject \in Objects
  BY NewObjects DEF TypeInv, WorldTyped
<1>1. /\ NewObject.enabled = BastionAtStart
      /\ NewObject.network = NoID /\ NewObject.lbID = NoID
      /\ NewObject.server = NoID /\ NewObject.ip = NoID /\ NewObject.sg = NoID
      /\ NewObject.hash = NoHash
  BY Zenon DEF NewObject
<1>2. /\ NoObject.enabled = BastionAtStart
      /\ NoObject.network = NoID /\ NoObject.lbID = NoID
      /\ NoObject.server = NoID /\ NoObject.ip = NoID /\ NoObject.sg = NoID
      /\ NoObject.hash = NoHash
  BY <1>0, <1>1 DEF NoObject, Objects
<1> QED BY <1>2 DEF Recorded

\* A merge patch takes the bastion's record over as a whole, or not at all.
LEMMA MergedRecord ==
  ASSUME TypeInv, Recorded(api), Recorded(mem), Recorded(before),
         NEW fields \in {ConditionFields, SpecFields, StatusFields}
  PROVE  Recorded(Patched(fields))
<1> DEFINE o == Patched(fields)
<1>0. FirstID # NoID /\ NoHash # CloudInitHash(InitialContent)
  BY DEF FirstID, NoID, NoHash, CloudInitHash
<1>1. /\ \A f \in ControllerFields : o[f] = IF f \in fields THEN Merged(f) ELSE api[f]
      /\ o.enabled = api.enabled
  <2>1. "labels" \notin fields /\ "enabled" \notin fields
    BY DEF ConditionFields, SpecFields, StatusFields
  <2> QED BY <2>1, PatchedFields, ObjectLabels
<1> USE <1>1
<1>2. StatusFields \subseteq ControllerFields
  BY DEF ControllerFields
<1>3. CASE fields = StatusFields
  <2>1. \A f \in StatusFields : o[f] = IF mem[f] # before[f] THEN mem[f] ELSE api[f]
    BY <1>2, <1>3 DEF Merged
  <2> HIDE DEF o
  <2>2. /\ o.network = IF mem.network # before.network THEN mem.network ELSE api.network
        /\ o.lbID = IF mem.lbID # before.lbID THEN mem.lbID ELSE api.lbID
        /\ o.server = IF mem.server # before.server THEN mem.server ELSE api.server
        /\ o.ip = IF mem.ip # before.ip THEN mem.ip ELSE api.ip
        /\ o.sg = IF mem.sg # before.sg THEN mem.sg ELSE api.sg
        /\ o.hash = IF mem.hash # before.hash THEN mem.hash ELSE api.hash
    BY <2>1, Zenon DEF StatusFields
  <2>3. Recorded(o)
    BY <1>0, <2>2, Zenon DEF Recorded
  <2> QED BY <2>3 DEF o
<1>4. CASE fields \in {ConditionFields, SpecFields}
  <2>1. StatusFields \cap fields = {}
    BY <1>4 DEF StatusFields, ConditionFields, SpecFields
  <2>2. \A f \in StatusFields : o[f] = api[f]
    BY <1>2, <2>1
  <2> HIDE DEF o
  <2>3. Recorded(o)
    BY <2>2 DEF Recorded, StatusFields
  <2> QED BY <2>3 DEF o
<1> QED BY <1>3, <1>4

\* Two records that agree on everything recorded.
LEMMA SameRecord ==
  ASSUME NEW m, NEW o, Recorded(o), m.enabled = o.enabled, m.network \in {o.network, NoID, FirstID},
         m.lbID \in {o.lbID, NoID, FirstID}, \A f \in BastionFields : m[f] = o[f]
  PROVE  Recorded(m)
<1>1. m.server = o.server /\ m.ip = o.ip /\ m.sg = o.sg /\ m.hash = o.hash
  BY DEF BastionFields
<1> QED BY <1>1, Zenon DEF Recorded

LEMMA WorkingRecord ==
  ASSUME Standing, OwnInv, Handlers
  PROVE  Recorded(mem')
<1> USE DEF Only, Fields, Flags, BastionFields
<1>0. TypeInv /\ Recorded(mem) /\ ByoNetworkID = FirstID /\ LoadBalancerID = FirstID
  BY DEF Standing, OwnInv, Records, ByoNetworkID, LoadBalancerID, FirstID
<1> USE <1>0
<1>1. CASE \/ CheckZones \/ SetTargets \/ ReconcileBastion \/ EnsureSecurityGroup
           \/ EnsureServer \/ DropNodeSSH \/ ResolveBastion \/ DropServer \/ DropIP
  <2>1. Only(mem', mem, {})
    BY <1>1, FlagsWritten
  <2> QED BY <2>1, SameRecord
<1>2. CASE EnsureNetwork
  <2> USE <1>2
  <2>1. Only(mem', mem, {"network"}) /\ mem'.network \in {mem.network, FirstID}
    <3>1. pc \in NormalSteps /\ "network" \in Kinds
      BY DEF EnsureNetwork, NormalSteps, Kinds
    <3> QED BY <3>1, NetworkWritten, EnsuredFirst
  <2> QED BY <2>1, SameRecord
<1>3. CASE EnsureLoadBalancer
  <2>1. Only(mem', mem, {"lbID"}) /\ mem'.lbID \in {mem.lbID, FirstID}
    BY <1>3, LoadBalancerWritten
  <2> QED BY <2>1, SameRecord
<1>4. CASE EnsurePublicIP
  <2> USE <1>4
  <2>1. pc = "ensureIP" /\ pc \in NormalSteps /\ "ip" \in Kinds
    BY DEF EnsurePublicIP, NormalSteps, Kinds
  <2>2. ids.server = FirstID /\ ids.sg = FirstID /\ userData = InitialContent
    BY <2>1 DEF OwnInv, Records
  <2>3. /\ Only(mem', mem, BastionFields)
        /\ \/ \A f \in BastionFields : mem'[f] = mem[f]
           \/ /\ mem'.server = FirstID /\ mem'.ip = FirstID /\ mem'.sg = FirstID
              /\ mem'.hash = CloudInitHash(InitialContent)
    BY <2>1, <2>2, BastionWritten, EnsuredFirst, Zenon
  <2>4. mem'.enabled = mem.enabled /\ mem'.network = mem.network /\ mem'.lbID = mem.lbID
    BY <2>3
  <2> QED BY <2>3, <2>4, SameRecord DEF Recorded
<1>5. CASE DropSG
  <2>1. /\ Only(mem', mem, BastionFields)
        /\ \/ \A f \in BastionFields : mem'[f] = mem[f]
           \/ /\ mem'.server = NoID /\ mem'.ip = NoID /\ mem'.sg = NoID
              /\ mem'.hash = NoHash
    BY <1>5, BastionErased, Zenon
  <2>2. mem'.enabled = mem.enabled /\ mem'.network = mem.network /\ mem'.lbID = mem.lbID
    BY <2>1
  <2> QED BY <2>1, <2>2, SameRecord DEF Recorded
<1>6. CASE AwaitMachines \/ DeleteLoadBalancer \/ DeleteNetwork
  <2>1. /\ Only(mem', mem, {"finalizer", "network", "lbID"})
        /\ mem'.network \in {mem.network, NoID} /\ mem'.lbID \in {mem.lbID, NoID}
    BY <1>6, DeletionWritten
  <2> QED BY <2>1, SameRecord
<1> QED BY <1>1, <1>2, <1>3, <1>4, <1>5, <1>6 DEF Handlers

LEMMA StoredRecords ==
  ASSUME Standing, OwnInv, [Next]_vars
  PROVE  Recorded(api') /\ Recorded(cache') /\ Recorded(mem') /\ Recorded(before')
<1>0. /\ TypeInv
      /\ Recorded(api) /\ Recorded(cache) /\ Recorded(mem) /\ Recorded(before)
  BY DEF Standing, OwnInv, Records
<1> USE <1>0
<1>1. Recorded(NoObject)
  BY EmptyRecord
<1>2. Recorded(api')
  <2>1. ~(ToggleBastion \/ EditLabels)
    BY DEF ToggleBastion, EditLabels, Edit, Standing, LeftAlone
  <2>2. Recorded([api EXCEPT !.deleting = TRUE])
    BY DEF Recorded, TypeInv, StoredTyped, Objects
  <2>3. ASSUME NEW fields \in {ConditionFields, SpecFields, StatusFields}
        PROVE  Recorded(Patched(fields))
    BY MergedRecord
  <2> QED BY <1>1, <2>1, <2>2, <2>3, StoredCopies, Zenon
<1>3. Recorded(cache')
  BY StoredCopies
<1>4. Recorded(mem') /\ Recorded(before')
  <2>1. CASE Handlers
    BY <2>1, WorkingRecord, HandlersSpareSpec
  <2>2. CASE ReconcileActive
    <3>1. Recorded([cache EXCEPT !.finalizer = TRUE])
      BY DEF Recorded, TypeInv, StoredTyped, Objects
    <3> QED BY <2>2, <3>1, Zenon DEF ReconcileActive
  <2> QED BY <1>1, <2>1, <2>2, WorkingCopies
<1> QED BY <1>2, <1>3, <1>4

LEMMA CallRecords ==
  ASSUME Standing, OwnInv, [Next]_vars
  PROVE  /\ content' = InitialContent /\ userData' = InitialContent
         /\ (/\ ids.server \in {NoID, FirstID} /\ ids.ip \in {NoID, FirstID}
             /\ ids.sg \in {NoID, FirstID}
             /\ pc \in {"ensureServer", "ensureIP"} => ids.sg = FirstID
             /\ pc = "ensureIP" => ids.server = FirstID)'
<1>0. /\ content = InitialContent /\ userData = InitialContent
      /\ ids.server \in {NoID, FirstID} /\ ids.ip \in {NoID, FirstID}
      /\ ids.sg \in {NoID, FirstID}
      /\ pc \in {"ensureServer", "ensureIP"} => ids.sg = FirstID
      /\ pc = "ensureIP" => ids.server = FirstID
      /\ mem.server \in {NoID, FirstID} /\ mem.ip \in {NoID, FirstID} /\ mem.sg \in {NoID, FirstID}
  BY Zenon DEF OwnInv, Records, Recorded
<1> USE <1>0
<1>1. content' = content
  <2>1. ~EditContent
    BY DEF EditContent, Edit, Standing, LeftAlone
  <2> QED BY <2>1, Zenon DEF Next, Reconcile, ReconcileNothing, ReconcileActive, Dequeue, CheckZones,
         EnsureNetwork, EnsureLoadBalancer, SetTargets, ReconcileBastion,
         EnsureSecurityGroup, EnsureServer, EnsurePublicIP, DropNodeSSH,
         ResolveBastion, DropServer, DropIP, DropSG, AwaitMachines,
         DeleteLoadBalancer, DeleteNetwork, PatchConditions, PatchSpec, PatchStatus,
         PatchDone, Observe, WatchEvent, DeleteObject, Restart, ToggleBastion,
         EditLabels, MachinesChange, GrantNodeSSH,
         ResourceChanges, DeleteOutOfBand, vars, worldVars
<1> USE <1>1
<1>2. ids \in [server : RecordedIDs, ip : RecordedIDs, sg : RecordedIDs, active : BOOLEAN]
  BY DEF Standing, TypeInv, CallTyped
<1> USE DEF Stops
<1>3. CASE UNCHANGED reconcileVars
  BY <1>3 DEF reconcileVars, callVars
<1>4. CASE Calm
  <2>1. NoIDs.server = NoID /\ NoIDs.ip = NoID /\ NoIDs.sg = NoID
    BY DEF NoIDs
  <2> QED BY <1>4, <2>1 DEF Calm, Watched
<1>5. CASE ReconcileBastion
  BY <1>5, BastionCalls
<1>6. CASE EnsureSecurityGroup \/ EnsureServer
  <2> USE <1>6
  <2>1. {"sg", "server"} \subseteq Kinds /\ {"ensureSG", "ensureServer"} \subseteq NormalSteps
    BY DEF Kinds, NormalSteps
  <2>2. CASE Stops /\ UNCHANGED ids
    BY <2>2, EnsureCalls
  <2>3. ASSUME NEW id \in IDs, pc = "ensureSG", pc' = "ensureServer", Ensure("sg", id, "none"),
               ids' = [NoIDs EXCEPT !.sg = id]
        PROVE  ids'.server = NoID /\ ids'.ip = NoID /\ ids'.sg = FirstID
    <3> USE <2>3
    <3>1. id = FirstID
      BY <2>1, EnsuredFirst
    <3> QED BY <3>1 DEF NoIDs
  <2>4. ASSUME NEW id \in IDs, NEW active \in BOOLEAN, pc = "ensureServer", pc' = "ensureIP",
               Ensure("server", id, "none"),
               ids' = [ids EXCEPT !.server = id, !.active = active]
        PROVE  ids'.server = FirstID /\ ids'.ip = ids.ip /\ ids'.sg = FirstID
    <3> USE <2>4
    <3>1. id = FirstID
      BY <2>1, EnsuredFirst
    <3> QED BY <1>2, <3>1
  <2> QED BY <2>2, <2>3, <2>4, EnsureCalls, Zenon
<1>7. CASE DropNodeSSH \/ ResolveBastion \/ DropServer \/ DropIP \/ DropSG
  <2>1. ASSUME NEW s, NEW p, NEW g,
               Resolved("server", mem.server, s), Resolved("ip", mem.ip, p),
               Resolved("sg", mem.sg, g),
               ids' = [server |-> s, ip |-> p, sg |-> g, active |-> FALSE]
        PROVE  /\ ids'.server \in {NoID, FirstID} /\ ids'.ip \in {NoID, FirstID}
               /\ ids'.sg \in {NoID, FirstID}
    <3>1. {"server", "ip", "sg"} \subseteq Kinds
      BY DEF Kinds
    <3> QED BY <2>1, <3>1, ResolvedFirst
  <2>2. /\ pc' \notin {"ensureServer", "ensureIP"} /\ UNCHANGED userData
        /\ \/ ids' = ids
           \/ /\ ids'.server \in {NoID, FirstID} /\ ids'.ip \in {NoID, FirstID}
              /\ ids'.sg \in {NoID, FirstID}
    BY <1>7, <2>1, DropCalls, Zenon
  <2> QED BY <2>2
<1>8. CASE DeleteLoadBalancer
  <2> USE <1>8
  <2>1. Stops \/ pc' = "dropNodeSSH"
    BY Stopping, Zenon DEF DeleteLoadBalancer, Continue
  <2>2. UNCHANGED <<ids, userData>>
    BY DEF DeleteLoadBalancer
  <2> QED BY <2>1, <2>2
<1> QED BY <1>3, <1>4, <1>5, <1>6, <1>7, <1>8, CalmSteps DEF Leading

LEMMA RecordsKept ==
  ASSUME Standing, OwnInv, [Next]_vars
  PROVE  Records'
<1>1. Recorded(api)' /\ Recorded(cache)' /\ Recorded(mem)' /\ Recorded(before)'
  BY StoredRecords, Zenon DEF Recorded
<1> QED BY <1>1, CallRecords DEF Records

-----------------------------------------------------------------------------
(* The finalizer of OwnInv *)

\* Once the finalizer is there, a reconcile that saw no deletion leaves it.
LEMMA GuardStays ==
  ASSUME Standing, OwnInv, [Next]_vars, Guarding, pc = "idle" \/ ~mem.deleting
  PROVE  Guarding'
<1>1. ASSUME Lowered PROVE FALSE
  BY <1>1, FinalizerMoves, PatchSpecMoves
<1> QED BY <1>1 DEF Lowered

\* The request that adds the finalizer went through.
LEMMA FinalizerAdded ==
  ASSUME Standing, OwnInv, PatchSpec, ~before.finalizer, mem.finalizer, resume' = "zones"
  PROVE  Guarding'
<1>0. TypeInv /\ mem.finalizer = TRUE
  BY DEF Standing, TypeInv, MoveTyped, Objects
<1>1. Send(SpecFields, TRUE, FALSE)
  BY Zenon DEF PatchSpec, SpecFields
<1>2. Changed(SpecFields)
  BY DEF Changed, SpecFields
<1>3. api.exists /\ api' = Collected(Patched(SpecFields))
  BY <1>1, <1>2 DEF Send
<1>4. {"exists", "finalizer"} \subseteq DOMAIN api
  BY <1>0 DEF TypeInv, StoredTyped, Objects
<1>5. Patched(SpecFields).exists = api.exists /\ Patched(SpecFields).finalizer = TRUE
  BY <1>0, <1>4 DEF Patched, Merged, SpecFields
<1> QED BY <1>3, <1>5, Zenon DEF Collected, Guarding

LEMMA PersistedKept ==
  ASSUME Standing, OwnInv, [Next]_vars
  PROVE  Persisted'
<1>0. TypeInv /\ RestInv /\ TornLast /\ Persisted
  BY DEF Standing, OwnInv
<1> USE <1>0
<1>1. (cache.exists /\ ~cache.deleting /\ cache.finalizer => Guarding)'
  <2>1. CASE Guarding
    <3>1. ASSUME Lowered PROVE DeletionSeen /\ cache' = cache
      BY <3>1, FinalizerMoves, PatchSpecMoves DEF TornLast
    <3> QED BY <2>1, <3>1 DEF Lowered, DeletionSeen
  <2>2. CASE ~Guarding
    BY <2>2, StoredCopies DEF Persisted, Guarding
  <2> QED BY <2>1, <2>2
<1> DEFINE P ==
      pc # "idle" =>
        /\ mem.deleting => before.finalizer
        /\ ~mem.deleting => mem.finalizer
        /\ ~mem.deleting
             /\ \/ before.finalizer
                \/ pc \in NormalSteps \cup DropSteps
                \/ resume = "zones" /\ pc \in {"patchStatus", "patchDone"}
             => Guarding
<1>2. P
  BY DEF Persisted
<1> USE <1>2
<1> SUFFICES ASSUME pc' # "idle" PROVE P'
  BY <1>1, Zenon DEF Persisted
<1>3. CASE UNCHANGED reconcileVars
  <2>1. UNCHANGED <<pc, mem, before, resume>>
    BY <1>3 DEF reconcileVars
  <2> QED BY <2>1, GuardStays
<1>4. CASE pc = "idle" /\ ReconcileActive
  <2>1. /\ before' = cache /\ cache.exists /\ UNCHANGED cache
        /\ \/ cache.deleting /\ mem' = cache /\ pc' = "machines"
           \/ /\ ~cache.deleting /\ ~cache.finalizer
              /\ mem' = [cache EXCEPT !.finalizer = TRUE] /\ pc' = "patchConditions"
           \/ ~cache.deleting /\ cache.finalizer /\ mem' = cache
    BY <1>4, Zenon DEF ReconcileActive, Dequeue
  <2> USE <2>1
  <2>2. [cache EXCEPT !.finalizer = TRUE].finalizer
        /\ [cache EXCEPT !.finalizer = TRUE].deleting = cache.deleting
    BY DEF TypeInv, StoredTyped, Objects
  <2>3. cache.deleting => cache.finalizer
    BY DEF RestInv, AllStored, Stored
  <2>4. CASE ~cache.deleting /\ cache.finalizer
    BY <1>1, <2>4
  <2>5. CASE cache.deleting \/ ~cache.finalizer
    BY <2>2, <2>3, <2>5, Zenon DEF NormalSteps, DropSteps
  <2> QED BY <2>4, <2>5
<1>5. CASE Handlers /\ pc \in HandlerSteps
  <2> USE <1>5
  <2>1. before' = before /\ pc # "idle" /\ mem'.deleting = mem.deleting
    BY HandlersSpareSpec, SameHalf DEF HandlerSteps, NormalSteps, DropSteps
  <2> USE <2>1
  <2>2. CASE mem.deleting
    BY <2>2
  <2>3. CASE ~mem.deleting
    <3> USE <2>3
    <3>1. pc \in NormalSteps \cup DropSteps
      BY DEF RestInv, Halves, Direction, HandlerSteps
    <3>2. Guarding'
      BY <3>1, GuardStays
    <3>3. mem'.finalizer = mem.finalizer
      BY <3>1, HandlersKeepFinalizer DEF NormalSteps, DropSteps
    <3> QED BY <3>2, <3>3
  <2> QED BY <2>2, <2>3
<1>6. CASE PatchConditions \/ PatchStatus
  <2>1. /\ UNCHANGED <<mem, before>> /\ resume' \in {resume, "deferred"}
        /\ \/ pc = "patchConditions" /\ pc' = "patchSpec"
           \/ pc = "patchStatus" /\ pc' = "patchDone"
    BY <1>6, Zenon DEF PatchConditions, PatchStatus, Send
  <2> QED BY <2>1, GuardStays DEF NormalSteps, DropSteps
<1>7. CASE PatchSpec
  <2> USE <1>7
  <2>1. UNCHANGED <<mem, before>> /\ pc = "patchSpec" /\ pc' = "patchStatus"
    BY PatchSpecMoves
  <2> QED BY <2>1, GuardStays, FinalizerAdded DEF NormalSteps, DropSteps
<1>8. CASE PatchDone
  <2>1. /\ pc = "patchDone" /\ resume' = "idle" /\ UNCHANGED <<mem, before>>
        /\ \/ resume = "zones" /\ pc' = "zones"
           \/ pc' = "patchConditions"
    BY <1>8, Zenon DEF PatchDone
  <2> QED BY <2>1, GuardStays DEF NormalSteps, DropSteps
<1> QED BY <1>3, <1>4, <1>5, <1>6, <1>7, <1>8, ReconcileMoves

-----------------------------------------------------------------------------
(* The teardown of OwnInv *)

LEMMA DownKept ==
  ASSUME Standing, OwnInv, [Next]_vars, NEW k \in Kinds, Down(k), ~Born(k)
  PROVE  Down(k)'
<1> SUFFICES ASSUME NEW i \in IDs, state'[<<k, i>>] \in {"pending", "up"}
             PROVE  FALSE
  BY DEF Down, Live
<1>1. <<k, i>> \in Resources /\ state[<<k, i>>] \notin {"pending", "up"}
  BY DEF Down, Live, Resources
<1>2. PICK l \in Kinds : <<k, i>> = First(l) /\ (Born(l) \/ Torn(l))
  BY <1>1, OwnStates
<1>3. Torn(k) /\ <<k, i>> = First(k)
  BY <1>2 DEF First
<1> QED BY <1>1, <1>3 DEF Torn, Live

LEMMA DownDeleted ==
  ASSUME Standing, OwnInv, NEW k \in Kinds, NEW i \in {NoID, FirstID},
         i = NoID => Down(k), state' = Deleted(k, i)
  PROVE  Down(k)'
<1> SUFFICES ASSUME NEW j \in IDs, state'[<<k, j>>] \in {"pending", "up"}
             PROVE  FALSE
  BY DEF Down, Live
<1>1. state \in [Resources -> States] /\ <<k, j>> \in Resources /\ First(k) \in Resources
  BY FirstFacts DEF Standing, TypeInv, CloudTyped, Resources
<1> USE <1>1
<1>2. FirstID # NoID /\ "none" \notin {"pending", "up"}
  BY FirstFacts, Zenon
<1> USE <1>2
<1>3. j # FirstID => state[<<k, j>>] = "none"
  BY Zenon DEF OwnInv, FirstOnly
<1>4. CASE i = NoID
  BY <1>4 DEF Deleted, Down, Live
<1>5. CASE i = FirstID /\ First(k) \notin Live
  BY <1>3, <1>5 DEF Deleted, First, Live
<1>6. CASE i = FirstID /\ First(k) \in Live
  <2>1. PICK v \in {"deleting", "gone"} : state' = [state EXCEPT ![First(k)] = v]
    BY <1>6, Zenon DEF Deleted, First
  <2> QED BY <1>3, <2>1 DEF First
<1> QED BY <1>4, <1>5, <1>6

\* Nothing is created during the teardown, or once the finalizer is dropped.
LEMMA TearingDown ==
  ASSUME Standing, OwnInv, pc # "idle", mem.deleting,
         pc \in AfterLB \cup {"deleteLB"} \/ ~mem.finalizer
  PROVE  Cleared /\ pc \notin NormalSteps /\ \A k \in Kinds : ~Born(k)
<1>1. Cleared
  BY DEF Standing, KeepInv, RestInv, Halves, Direction, OwnInv, Persisted, AfterLB
<1>2. pc \notin NormalSteps
  BY NormalMeans
<1> QED BY <1>1, <1>2 DEF Born, Cleared

\* Down after the call that the step has made.
LEMMA DropsDown ==
  ASSUME Standing, OwnInv, [Next]_vars, mem.deleting,
         DropNodeSSH \/ ResolveBastion \/ DropServer \/ DropIP \/ DropSG
  PROVE  (/\ pc \in AfterLB => Down("lb")
          /\ pc \in AfterNodeSSH => Down("nodeSG")
          /\ pc \in {"dropServer", "dropIP", "dropSG"} =>
               \A k \in BastionKinds : ids[k] = NoID => Down(k)
          /\ pc \in AfterServer => Down("server")
          /\ pc \in AfterIP => Down("ip")
          /\ pc = "deleteNetwork" => Down("sg"))'
<1> USE DEF AfterLB, AfterNodeSSH, AfterServer, AfterIP, DropSteps
<1>0. TearOrder /\ pc \in DropSteps
  BY DropCalls, Zenon DEF OwnInv
<1> USE <1>0
<1>1. ASSUME NEW k \in Kinds, Down(k) PROVE Down(k)'
  BY <1>1, TearingDown, DownKept
<1> USE <1>1
<1>2. {"lb", "nodeSG", "server", "ip", "sg"} \subseteq Kinds
      /\ BastionKinds = {"server", "ip", "sg"}
  BY DEF Kinds, BastionKinds
<1> USE <1>2
<1>3. Down("lb")'
  BY DEF TearOrder
<1> USE <1>3
<1>4. CASE Stops
  BY <1>4 DEF Stops
<1>5. CASE /\ pc = "dropNodeSSH" /\ pc' = "resolveBastion"
           /\ \/ Matching("nodeSG") = {} /\ UNCHANGED state
              \/ \E i \in IDs : Matching("nodeSG") = {i} /\ state' = Deleted("nodeSG", i)
  <2> USE <1>5
  <2>1. Matching("nodeSG") = {i \in IDs : Present("nodeSG", i)}
    BY AllMatch DEF Standing, LabelInv
  <2>2. CASE Matching("nodeSG") = {}
    <3>1. Down("nodeSG")
      BY <2>1, <2>2, Zenon DEF Down, Live, Present
    <3> QED BY <3>1
  <2>3. ASSUME NEW i \in IDs, Matching("nodeSG") = {i}, state' = Deleted("nodeSG", i)
        PROVE  Down("nodeSG")'
    <3> USE <2>3
    <3>1. Present("nodeSG", i)
      BY <2>1
    <3>2. i = FirstID
      BY <3>1 DEF OwnInv, FirstOnly, Present
    <3> QED BY <3>2, FirstFacts, DownDeleted
  <2> QED BY <2>2, <2>3
<1>6. CASE /\ pc = "resolveBastion" /\ pc' = "dropServer"
           /\ \E s, p, g \in RecordedIDs :
                /\ Resolved("server", mem.server, s)
                /\ Resolved("ip", mem.ip, p)
                /\ Resolved("sg", mem.sg, g)
                /\ ids' = [server |-> s, ip |-> p, sg |-> g, active |-> FALSE]
  <2> USE <1>6
  <2>1. Down("nodeSG")'
    BY Zenon DEF TearOrder
  <2>2. /\ mem.server \in {NoID, FirstID} /\ mem.ip \in {NoID, FirstID}
        /\ mem.sg \in {NoID, FirstID}
    BY Zenon DEF OwnInv, Records, Recorded
  <2>3. PICK s \in RecordedIDs, p \in RecordedIDs, g \in RecordedIDs :
          /\ Resolved("server", mem.server, s)
          /\ Resolved("ip", mem.ip, p)
          /\ Resolved("sg", mem.sg, g)
          /\ ids' = [server |-> s, ip |-> p, sg |-> g, active |-> FALSE]
    BY Zenon
  <2>4. /\ s = NoID => Down("server")
        /\ p = NoID => Down("ip")
        /\ g = NoID => Down("sg")
    BY <2>2, <2>3, ResolvedFirst
  <2>5. \A k \in BastionKinds : ids'[k] = NoID => Down(k)'
    BY <2>3, <2>4
  <2> QED BY <2>1, <2>5, Zenon
<1>7. CASE UNCHANGED ids /\ pc \in {"dropServer", "dropIP", "dropSG"}
  <2> USE <1>7
  <2>1. Down("nodeSG")' /\ \A k \in BastionKinds : ids[k] = NoID => Down(k)
    BY DEF TearOrder
  <2> USE <2>1
  <2>2. \A k \in BastionKinds : ids'[k] = NoID => Down(k)'
    OBVIOUS
  <2>3. \A k \in BastionKinds : ids[k] \in {NoID, FirstID}
    BY DEF OwnInv, Records
  <2>4. ASSUME NEW k \in BastionKinds, state' = Deleted(k, ids[k]) PROVE Down(k)'
    BY <2>3, <2>4, DownDeleted
  <2> USE <2>4
  <2>5. CASE pc = "dropServer" /\ pc' = "dropIP" /\ state' = Deleted("server", ids.server)
    BY <2>2, <2>5
  <2>6. CASE pc = "dropIP" /\ pc' = "dropSG" /\ state' = Deleted("ip", ids.ip)
    <3> USE <2>6
    <3>1. Down("server")'
      BY DEF TearOrder
    <3> QED BY <2>2, <3>1
  <2>7. CASE pc = "dropSG" /\ pc' = "deleteNetwork" /\ state' = Deleted("sg", ids.sg)
    <3> USE <2>7
    <3>1. Down("server")' /\ Down("ip")'
      BY DEF TearOrder
    <3> QED BY <3>1
  <2>8. Stops \/ pc' \in {"dropIP", "dropSG", "deleteNetwork"}
    BY DropCalls, Zenon
  <2> QED BY <1>4, <2>5, <2>6, <2>7, <2>8, DropCalls, Zenon
<1> QED BY <1>4, <1>5, <1>6, <1>7, DropCalls, Zenon

LEMMA BalancerDown ==
  ASSUME Standing, OwnInv, DeleteLoadBalancer
  PROVE  \/ Stops
         \/ pc' = "dropNodeSSH" /\ Down("lb")'
<1>1. PICK id \in RecordedIDs :
        /\ Resolved("lb", mem.lbID, id)
        /\ \/ state' = Deleted("lb", id) /\ \E m : Continue(m, "dropNodeSSH")
           \/ \E how : Return(mem, how)
  BY Zenon DEF DeleteLoadBalancer, RecordedIDs
<1>2. CASE \E how : Return(mem, how)
  BY <1>2, Stopping, Zenon
<1>3. CASE state' = Deleted("lb", id) /\ \E m : Continue(m, "dropNodeSSH")
  <2> USE <1>3
  <2>1. "lb" \in Kinds /\ mem.lbID \in {NoID, FirstID}
    BY DEF Kinds, OwnInv, Records, Recorded
  <2>2. id \in {NoID, FirstID} /\ (id = NoID => Down("lb"))
    BY <1>1, <2>1, ResolvedFirst
  <2>3. Down("lb")'
    BY <2>1, <2>2, DownDeleted
  <2>4. pc' = "dropNodeSSH"
    BY Zenon DEF Continue
  <2> QED BY <2>3, <2>4
<1> QED BY <1>1, <1>2, <1>3

\* With the network the last resource is gone.
LEMMA NothingOwned ==
  ASSUME Standing, OwnInv, [Next]_vars, pc = "deleteNetwork", NEW id \in RecordedIDs,
         ManagedNetworkID(id), state' = Deleted("network", id)
  PROVE  Owned' = {}
<1>1. UNCHANGED ManagedNetwork
  BY ModeKept DEF ManagedNetwork
<1>2. mem.deleting /\ TearOrder
  BY DEF Standing, RestInv, Halves, Direction, OwnInv
<1>3. \A k \in Kinds : ~Born(k)
  BY <1>2, TearingDown DEF AfterLB
<1>4. \A k \in Kinds \ {"network"} : Down(k)
  BY <1>2 DEF TearOrder, AfterLB, AfterNodeSSH, AfterServer, AfterIP, DropSteps, Kinds
<1>5. \A k \in Kinds \ {"network"} : Down(k)'
  BY <1>3, <1>4, DownKept
<1>6. CASE ManagedNetwork
  <2>1. "network" \in Kinds /\ mem.network \in {NoID, FirstID}
    BY Zenon DEF Kinds, OwnInv, Records, Recorded
  <2>2. id \in {NoID, FirstID} /\ (id = NoID => Down("network"))
    BY <1>6, <2>1, ResolvedFirst, Zenon DEF ManagedNetworkID
  <2>3. Down("network")'
    BY <2>1, <2>2, DownDeleted
  <2> QED BY <1>5, <2>3 DEF Down, Owned, Live, Resources
<1>7. CASE ~ManagedNetwork
  BY <1>1, <1>5, <1>7 DEF Down, Owned, Live, Resources
<1> QED BY <1>6, <1>7

LEMMA ReleaseJustified ==
  ASSUME Standing, OwnInv, [Next]_vars, pc # "idle", pc' # "idle", mem.deleting,
         ~mem'.finalizer
  PROVE  Owned' = {} \/ skipped'
<1>1. CASE ~mem.finalizer
  <2> USE <1>1
  <2>1. Owned = {} \/ skipped
    BY DEF OwnInv, TearOrder
  <2>2. \A k \in Kinds : ~Born(k)
    BY TearingDown
  <2> QED BY <2>1, <2>2, OwnedKept
<1>2. CASE mem.finalizer
  <2> USE <1>2
  <2>0. TypeInv
    BY DEF Standing
  <2> USE <2>0
  <2>1. Handlers
    BY WorkingCopies, Zenon DEF ReconcileActive, Dequeue
  <2>2. AwaitMachines \/ DeleteLoadBalancer \/ DeleteNetwork
    <3>1. pc \in {"machines", "deleteLB", "deleteNetwork"}
      BY <2>1, HandlersKeepFinalizer, Zenon
    <3> QED
      BY <2>1, <3>1, Zenon DEF Handlers, CheckZones, EnsureNetwork, EnsureLoadBalancer,
         SetTargets, ReconcileBastion, EnsureSecurityGroup, EnsureServer, EnsurePublicIP,
         DropNodeSSH, ResolveBastion, DropServer, DropIP, DropSG
  <2>3. \/ skipped'
        \/ /\ pc = "deleteNetwork"
           /\ \E id \in RecordedIDs : ManagedNetworkID(id) /\ state' = Deleted("network", id)
    BY <2>2, DeletionWritten, Zenon
  <2> QED BY <2>3, NothingOwned
<1> QED BY <1>1, <1>2

LEMMA TearOrderKept ==
  ASSUME Standing, OwnInv, [Next]_vars
  PROVE  TearOrder'
<1> USE DEF AfterLB, AfterNodeSSH, AfterServer, AfterIP, DropSteps
<1> DEFINE Downs ==
      /\ pc \in AfterLB => Down("lb")
      /\ pc \in AfterNodeSSH => Down("nodeSG")
      /\ pc \in {"dropServer", "dropIP", "dropSG"} =>
           \A k \in BastionKinds : ids[k] = NoID => Down(k)
      /\ pc \in AfterServer => Down("server")
      /\ pc \in AfterIP => Down("ip")
      /\ pc = "deleteNetwork" => Down("sg")
<1> SUFFICES ASSUME mem'.deleting, pc' # "idle"
             PROVE  Downs' /\ (~mem'.finalizer => Owned' = {} \/ skipped')
  BY DEF TearOrder
<1>0. TypeInv /\ RestInv /\ TearOrder
  BY DEF Standing, OwnInv
<1> USE <1>0
<1>1. CASE pc = "idle"
  <2>1. ReconcileActive
    BY <1>1, ReconcileMoves
       DEF reconcileVars, PatchConditions, PatchSpec, PatchStatus, PatchDone, HandlerSteps,
           NormalSteps
  <2>2. cache.exists /\ cache.deleting /\ mem' = cache /\ pc' = "machines"
    <3>1. [cache EXCEPT !.finalizer = TRUE].deleting = cache.deleting
      BY DEF TypeInv, StoredTyped, Objects
    <3> QED BY <2>1, <3>1, Zenon DEF ReconcileActive, Dequeue
  <2> QED BY <2>2 DEF RestInv, AllStored, Stored
<1>2. CASE pc # "idle"
  <2> USE <1>2
  <2>1. mem.deleting
    BY SameHalf, Zenon
  <2> USE <2>1
  <2>2. ~mem'.finalizer => Owned' = {} \/ skipped'
    BY ReleaseJustified
  <2> USE <2>2
  <2>3. CASE UNCHANGED reconcileVars
    <3>1. UNCHANGED <<pc, ids>>
      BY <2>3 DEF reconcileVars, callVars
    <3>2. ASSUME NEW k \in Kinds, pc \in AfterLB, Down(k) PROVE Down(k)'
      BY <3>2, TearingDown, DownKept
    <3>3. {"lb", "nodeSG", "server", "ip", "sg"} \subseteq Kinds /\ BastionKinds \subseteq Kinds
      BY DEF Kinds, BastionKinds
    <3>4. Downs
      BY DEF TearOrder
    <3>5. Downs'
      BY <3>1, <3>2, <3>3, <3>4
    <3> QED BY <3>5
  <2>4. CASE Calm
    BY <2>4 DEF Calm, Watched
  <2>5. CASE DropNodeSSH \/ ResolveBastion \/ DropServer \/ DropIP \/ DropSG
    BY <2>5, DropsDown
  <2>6. CASE DeleteLoadBalancer
    BY <2>6, BalancerDown DEF Stops
  <2>7. CASE ReconcileBastion \/ EnsureSecurityGroup \/ EnsureServer
    <3>1. pc \in NormalSteps
      BY <2>7, Zenon DEF ReconcileBastion, EnsureSecurityGroup, EnsureServer, NormalSteps
    <3> QED BY <3>1, NormalMeans
  <2> QED BY <2>3, <2>4, <2>5, <2>6, <2>7, CalmSteps, Zenon DEF Leading
<1> QED BY <1>1, <1>2

LEMMA OwnInvKept ==
  ASSUME Standing, OwnInv, [Next]_vars
  PROVE  OwnInv'
<1>1. Guarded' /\ FirstOnly' /\ TornDown' /\ Records' /\ NoBastion' /\ Persisted' /\ TearOrder'
  BY GuardedKept, FirstOnlyKept, TornDownKept, RecordsKept, NoBastionKept, PersistedKept,
     TearOrderKept
<1> QED BY <1>1, Zenon DEF OwnInv

-----------------------------------------------------------------------------
(* The invariant holds, and what follows from it *)

LEMMA OwnInit == Init => OwnInv
<1> SUFFICES ASSUME Init PROVE OwnInv
  OBVIOUS
<1>0. TypeInv
  BY InitTyped
<1>1. /\ api = NewObject /\ cache = NewObject /\ mem = NoObject /\ before = NoObject
      /\ pc = "idle" /\ ids = NoIDs /\ userData = InitialContent /\ content = InitialContent
  BY DEF Init
<1> USE <1>1
<1>2. \A k \in Kinds, i \in IDs :
        state[<<k, i>>] = IF ~ManagedNetwork /\ k = "network" /\ i = FirstID
                            THEN "up" ELSE "none"
  BY DEF Init, Resources, ByoNetworkID, FirstID
<1> USE <1>2
<1>3. Recorded(NoObject) /\ Recorded(NewObject)
  <2>1. Recorded(NoObject)
    BY <1>0, EmptyRecord
  <2> QED BY <2>1, Zenon DEF Recorded, NewObject
<1>4. ~NoObject.deleting /\ ~NewObject.finalizer
  <2>1. ~NoObject.deleting
    BY <1>0, NoObjectMeta DEF TypeInv, WorldTyped
  <2>2. NewObject.finalizer = FALSE
    BY Zenon DEF NewObject
  <2> QED BY <2>1, <2>2
<1>5. Guarded /\ FirstOnly /\ TornDown
  <2>1. ASSUME NEW r \in Resources PROVE \E k \in Kinds, i \in IDs : r = <<k, i>>
    BY DEF Resources
  <2>2. \A r \in Resources :
          /\ state[r] \notin {"deleting", "gone"}
          /\ ManagedNetwork \/ r[1] # "network" => state[r] = "none"
    BY <2>1
  <2> QED BY <2>2 DEF Guarded, EverCreated, FirstOnly, TornDown
<1>6. Records
  BY <1>3 DEF Records, NoIDs
<1>7. NoBastion
  BY DEF NoBastion, DropSteps, BastionKinds, Kinds
<1>8. Persisted /\ TearOrder
  BY <1>4 DEF Persisted, TearOrder, AfterLB, AfterNodeSSH, AfterServer, AfterIP, DropSteps
<1> QED BY <1>5, <1>6, <1>7, <1>8, Zenon DEF OwnInv

\* The invariants that OwnInv rests on, together.
LEMMA StandingHolds == Spec /\ []LeftAlone => []Standing
<1>1. Spec => []KeepInv
  <2>1. TypeInv /\ KeepInv /\ [Next]_vars => KeepInv'
    BY KeepInvInductive
  <2> QED BY <2>1, KeepInvInitially, TypesHold, PTL DEF Spec
<1>2. Spec /\ []LeftAlone => []TornLast
  <2>1. TypeInv /\ KeepInv /\ RestInv /\ TornLast /\ LeftAlone /\ [Next]_vars => TornLast'
    BY TornLastKept DEF LeftAlone, PortalClosed
  <2>2. Init => TornLast
    BY BackedInit DEF BackedInv
  <2> QED BY <1>1, <2>1, <2>2, RestInvariant, TypesHold, PTL DEF Spec
<1>3. Spec /\ []LeftAlone => []LabelInv
  <2>1. TypeInv /\ LabelInv /\ LeftAlone /\ [Next]_vars => LabelInv'
    BY LabelsKept, OnePresentKept DEF LabelInv, LeftAlone, LabelsFixed
  <2> QED BY <2>1, LabelsInitially, TypesHold, PTL DEF Spec
<1>4. TypeInv /\ KeepInv /\ RestInv /\ TornLast /\ LabelInv /\ LeftAlone => Standing
  BY Zenon DEF Standing
<1> QED BY <1>1, <1>2, <1>3, <1>4, RestInvariant, TypesHold, PTL

\* OwnInv, for any number of faults and with reads as late as they like, as long
\* as nobody edits the cluster or its resources: the finalizer is persisted
\* before the first resource is created, and the teardown leaves nothing behind.
THEOREM OwnInvariant == Spec /\ []LeftAlone => []OwnInv
<1>1. Standing /\ OwnInv /\ [Next]_vars => OwnInv'
  BY OwnInvKept
<1> QED BY <1>1, OwnInit, StandingHolds, PTL DEF Spec

\* No network, load balancer or bastion of the provider outlives the finalizer of
\* its cluster, unless the cleanup was skipped because the credentials are gone:
\* no failed call, lost patch, crash or late read comes between the two
\* (reconcileDelete, controller/stackitcluster_infrastructure.go:475).
THEOREM ResourcesGuarded == Spec /\ []LeftAlone => []FinalizerGuardsResources
<1>1. OwnInv => FinalizerGuardsResources
  <2>1. Owned # {} => EverCreated
    BY DEF Owned, Live, EverCreated
  <2> QED BY <2>1 DEF OwnInv, Guarded, Guarding, Released, FinalizerGuardsResources
<1> QED BY <1>1, OwnInvariant, PTL

-----------------------------------------------------------------------------
(* The cluster implements GuardedResource *)

\* A step that neither guards, creates, removes, abandons nor releases is a
\* stutter of GuardedResource.
LEMMA OwnershipStutters ==
  ASSUME Guarding' <=> Guarding, Owned' = Owned, skipped' = skipped
  PROVE  UNCHANGED Ownership!vars
  BY DEF Ownership!vars, Guarding

LEMMA SkippedMoves ==
  ASSUME TypeInv, [Next]_vars
  PROVE  skipped' = skipped \/ (~skipped /\ skipped' = TRUE /\ UNCHANGED <<api, state, mode>>)
<1>1. skipped' = skipped \/ AwaitMachines
  BY Zenon DEF Next, Reconcile, ReconcileNothing, ReconcileActive, Dequeue, CheckZones,
         EnsureNetwork, EnsureLoadBalancer, SetTargets, ReconcileBastion,
         EnsureSecurityGroup, EnsureServer, EnsurePublicIP, DropNodeSSH,
         ResolveBastion, DropServer, DropIP, DropSG,
         DeleteLoadBalancer, DeleteNetwork, PatchConditions, PatchSpec, PatchStatus,
         PatchDone, Observe, WatchEvent, DeleteObject, Restart, ToggleBastion,
         EditLabels, EditContent, Edit, MachinesChange, GrantNodeSSH,
         ResourceChanges, DeleteOutOfBand, vars, worldVars
<1>2. ASSUME AwaitMachines
      PROVE  skipped' \in {skipped, TRUE} /\ UNCHANGED <<api, state, mode>>
  BY <1>2, Zenon DEF AwaitMachines, cloudVars, worldVars
<1>3. skipped \in BOOLEAN
  BY DEF TypeInv, FaultsTyped
<1>4. skipped = TRUE \/ ~skipped
  BY <1>3, Zenon
<1> QED BY <1>1, <1>2, <1>4, Zenon

\* Every step of the cluster is a step of GuardedResource or a stutter.
LEMMA OwnershipStep ==
  ASSUME Standing, OwnInv, [Next]_vars
  PROVE  [Ownership!Next]_(Ownership!vars)
<1>0. TypeInv /\ RestInv /\ Guarded /\ FirstOnly /\ TearOrder
  BY DEF Standing, OwnInv
<1> USE <1>0
<1>1. UNCHANGED ManagedNetwork
  BY ModeKept DEF ManagedNetwork
<1> USE <1>1
<1>2. UNCHANGED state => Owned' = Owned
  BY DEF Owned, Live
<1> USE <1>2
<1>3. state \in [Resources -> States] /\ \A k \in Kinds : First(k) \in Resources
  BY FirstFacts DEF TypeInv, CloudTyped
<1> USE <1>3
<1>4. CASE Lowered
  <2> USE <1>4
  <2>1. PatchSpec /\ mem.deleting /\ ~mem.finalizer
    BY FinalizerMoves
  <2>2. Owned' = Owned /\ skipped' = skipped /\ pc # "idle"
    BY <2>1, PatchSpecMoves
  <2>3. Owned = {} \/ skipped
    BY <2>1, <2>2 DEF TearOrder
  <2> QED BY <2>2, <2>3 DEF Lowered, Guarding, Ownership!Next, Ownership!Release
<1>5. CASE Raised
  <2> USE <1>5
  <2>1. PatchSpec /\ api.exists /\ ~api.finalizer
    BY FinalizerMoves
  <2>2. Owned' = Owned /\ skipped' = skipped
    BY <2>1, PatchSpecMoves
  <2>3. ~EverCreated
    BY <2>1 DEF RestInv, AllStored, Stored, Guarded, Released, Going, Raised
  <2>4. Owned = {}
    BY <2>3 DEF EverCreated, Owned, Live
  <2> QED BY <2>2, <2>4 DEF Raised, Guarding, Ownership!Next, Ownership!Guard
<1>6. CASE ~Lowered /\ ~Raised /\ skipped' # skipped
  <2>1. ~skipped /\ skipped' = TRUE /\ UNCHANGED <<api, state, mode>>
    BY <1>6, SkippedMoves, Zenon
  <2>2. Owned' = Owned /\ api' = api
    BY <2>1
  <2> QED BY <2>1, <2>2 DEF Ownership!Next, Ownership!Abandon
<1>7. CASE ~Lowered /\ ~Raised /\ skipped' = skipped
  <2> USE <1>7
  <2>0. Guarding' <=> Guarding
    BY DEF Lowered, Raised
  <2> USE <2>0
  <2>1. CASE UNCHANGED state
    BY <2>1, OwnershipStutters
  <2>2. ASSUME NEW k \in Kinds, Born(k)
        PROVE  Ownership!Next
    <3> USE <2>2
    <3>1. Owned' = Owned \cup {First(k)}
      BY DEF Born, Owned, Live, First
    <3>2. \A s \in Owned : s[1] # k
      <4> SUFFICES ASSUME NEW s \in Owned, s[1] = k PROVE FALSE
        OBVIOUS
      <4>1. PICK i \in IDs : s = <<k, i>>
        BY DEF Owned, Live, Resources
      <4>2. state[<<k, i>>] \in {"pending", "up"}
        BY <4>1 DEF Owned, Live
      <4> QED BY <4>2 DEF FirstOnly, Born, First
    <3>3. Owned \subseteq Resources /\ First(k)[1] = k
      BY DEF Owned, Live, First
    <3>4. Guarding /\ Guarding'
      BY DEF Born
    <3> QED BY <3>1, <3>2, <3>3, <3>4 DEF Guarding, Ownership!Next, Ownership!Create
  <2>3. ASSUME NEW k \in Kinds, Torn(k)
        PROVE  Ownership!Next
    <3>1. First(k) \in Owned /\ Owned' = Owned \ {First(k)}
      BY <2>3 DEF Torn, Owned, Live, First
    <3> QED BY <3>1 DEF Guarding, Ownership!Next, Ownership!Remove
  <2>4. ASSUME NEW r \in Resources, ResourceChanges(r)
        PROVE  UNCHANGED Ownership!vars
    <3>1. Owned' = Owned
      BY <2>4 DEF ResourceChanges, Owned, Live
    <3> QED BY <3>1, OwnershipStutters
  <2> QED BY <2>1, <2>2, <2>3, <2>4, OwnMoves DEF OwnSteps
<1> QED BY <1>4, <1>5, <1>6, <1>7

\* The cluster controller implements the ownership protocol of GuardedResource:
\* guard, create one of a kind, remove, release, in that order, whatever fails in
\* between, as long as nobody edits the cluster or its resources.
THEOREM ImplementsOwnership == Spec /\ []LeftAlone => OwnershipSpec
<1>1. Init => Ownership!Init
  <2> SUFFICES ASSUME Init PROVE Ownership!Init
    OBVIOUS
  <2>1. Guarded /\ ~Guarding /\ skipped = FALSE
    <3>1. ~NewObject.finalizer
      BY Zenon DEF NewObject
    <3> QED BY <3>1, OwnInit DEF Init, OwnInv, Guarding
  <2>2. Owned = {}
    <3>1. ~Going
      BY DEF Init, Going, NewObject
    <3> QED BY <2>1, <3>1 DEF Guarded, Released, EverCreated, Owned, Live
  <2> QED BY <2>1, <2>2 DEF Ownership!Init, Guarding
<1>2. Standing /\ OwnInv /\ [Next]_vars => [Ownership!Next]_(Ownership!vars)
  BY OwnershipStep
<1> QED BY <1>1, <1>2, StandingHolds, OwnInvariant, PTL DEF Spec, OwnershipSpec, Ownership!Spec
=============================================================================
