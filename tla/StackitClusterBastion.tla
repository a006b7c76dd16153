------------------------ MODULE StackitClusterBastion ------------------------
(***************************************************************************)
(* The bastion of a cluster, switched on and off and given other documents *)
(* at any time: proofs about StackitCluster while no call fails, nobody    *)
(* edits the labels, and reconciles read what the controller wrote last.   *)
(***************************************************************************)
EXTENDS StackitClusterRest

\* No bastion exists.
Clean == \A k \in BastionKinds : \A i \in IDs : <<k, i>> \notin Live

\* At most this resource of a kind exists.
AtMost(k, i) == \A j \in IDs : <<k, j>> \in Live => j = i

\* The hash belongs to the server on record.
Hashed(o) ==
  \A i \in IDs : o.server = i /\ <<"server", i>> \in Live => o.hash = CloudInitHash(bootData[i])

\* What exists is on record, and the reason that skips the cleanup is true.
Honest(o) ==
  /\ \A k \in BastionKinds : AtMost(k, o[k])
  /\ Hashed(o)
  /\ o.bastionReady = "Skipped" => Clean

\* The bastion is the one that the object asks for.
Fits(o) ==
  IF o.enabled
    THEN /\ \A k \in BastionKinds : <<k, o[k]>> \in Live
         /\ queued \/ bootData[o.server] = content
    ELSE Clean

Observed == BastionFields \cup {"bastionReady"}

\* The handler has returned.
Final == pc \in PatchSteps /\ resume = "idle"

\* Nobody else writes what the reconcile read.
Fresh ==
  /\ resume # "deferred"
  /\ pc = "idle" => Honest(api)
  /\ pc # "idle" => mem.enabled = before.enabled
  /\ pc # "idle" /\ ~Final => \A f \in Observed : api[f] = before[f] /\ mem[f] = before[f]

\* A bastion is created, found or kept.
Ensuring ==
  /\ pc \in {"ensureSG", "ensureServer", "ensureIP"} =>
       /\ mem.enabled /\ ~NeedsRecreate(mem, userData)
       /\ queued \/ userData = content
  /\ pc \in {"ensureServer", "ensureIP"} => <<"sg", ids.sg>> \in Live
  /\ pc = "ensureServer" => AtMost("server", mem.server) /\ Hashed(mem)
  /\ pc = "ensureIP" =>
       /\ AtMost("server", ids.server)
       /\ ids.active => <<"server", ids.server>> \in Live
       /\ <<"server", ids.server>> \in Live => bootData[ids.server] = userData

\* A bastion is dropped.
Dropping ==
  /\ pc \in DropSteps => (why = "disable" => ~mem.enabled)
  /\ pc \in {"dropServer", "dropIP", "dropSG"} => \A k \in BastionKinds : AtMost(k, ids[k])
  /\ pc \in {"dropIP", "dropSG"} => \A i \in IDs : <<"server", i>> \notin Live
  /\ pc = "dropSG" => \A i \in IDs : <<"ip", i>> \notin Live

\* What the handler returned is carried into the object.
Carrying ==
  /\ pc \notin {"idle", "ensureServer", "ensureIP"} => Honest(mem)
  /\ Final =>
       /\ outcome = "settled" => Fits(mem)
       /\ api.bastionReady = IF pc = "patchConditions" THEN before.bastionReady
                                                       ELSE mem.bastionReady
       /\ \A f \in BastionFields : api[f] = IF pc = "patchDone" THEN mem[f] ELSE before[f]

\* A controller at rest has a bastion that fits, or there is something to observe.
Resting ==
  pc = "idle" /\ ~queued /\ outcome = "settled" =>
    (\E f \in BastionFields : cache[f] # api[f]) \/ Fits(cache)

Calmly == faults = 0 /\ LabelsFixed /\ ~Going

BastionInv == Calmly => Fresh /\ Ensuring /\ Dropping /\ Carrying /\ Resting

-----------------------------------------------------------------------------
(* What a calm step may count on *)

\* The informer sees the object before anybody sees it gone.
CacheFirst == ~cache.exists => ~api.exists

\* Only load balancers and servers take a while to disappear.
AtOnce == \A k \in {"ip", "sg"} : \A i \in IDs : state[<<k, i>>] # "deleting"

\* What was proved of every behaviour.
Footing ==
  /\ TypeInv /\ KeepInv /\ RestInv /\ CacheFirst /\ AtOnce
  /\ LabelsFixed => LabelInv

Parts == Fresh /\ Ensuring /\ Dropping /\ Carrying /\ Resting

LEMMA Faulting ==
  ASSUME [Next]_vars
  PROVE  Fault \/ NoFault
<1> USE DEF NoFault
<1>1. CASE ReconcileNothing \/ ReconcileActive \/ CheckZones \/ ReconcileBastion
           \/ AwaitMachines \/ DeleteLoadBalancer \/ DeleteNetwork \/ PatchDone
  BY <1>1, Zenon DEF ReconcileNothing, ReconcileActive, CheckZones, ReconcileBastion,
     AwaitMachines, DeleteLoadBalancer, DeleteNetwork, PatchDone
<1>2. CASE EnsureNetwork \/ EnsureLoadBalancer \/ EnsureSecurityGroup \/ EnsureServer
           \/ EnsurePublicIP
  <2>1. Fault \/ NoFault \/ \E k, id, err : Ensure(k, id, err)
    BY <1>2, Zenon DEF EnsureNetwork, EnsureLoadBalancer, EnsureSecurityGroup, EnsureServer,
       EnsurePublicIP
  <2> QED BY <2>1, Zenon DEF Ensure
<1>3. CASE SetTargets
  <2>1. NoFault \/ IF Present("lb", LoadBalancerID) THEN Fault ELSE NoFault
    BY <1>3, Zenon DEF SetTargets
  <2> QED BY <2>1
<1>4. CASE DropNodeSSH \/ ResolveBastion \/ DropServer \/ DropIP \/ DropSG
  BY <1>4, Zenon DEF DropNodeSSH, ResolveBastion, DropServer, DropIP, DropSG, Drop,
     LookupFails
<1>5. CASE PatchConditions \/ PatchSpec \/ PatchStatus
  <2>1. PICK fields, admitted, tolerated : Send(fields, admitted, tolerated)
    BY <1>5, Zenon DEF PatchConditions, PatchSpec, PatchStatus
  <2> QED BY <2>1, Zenon DEF Send
<1>6. CASE \/ UNCHANGED vars \/ Observe \/ WatchEvent \/ DeleteObject \/ Restart
           \/ ToggleBastion \/ EditLabels \/ EditContent \/ MachinesChange \/ GrantNodeSSH
           \/ \E r \in Resources : ResourceChanges(r) \/ DeleteOutOfBand(r)
  BY <1>6, Zenon DEF Observe, WatchEvent, DeleteObject, Restart, ToggleBastion, EditLabels,
       EditContent, Edit, MachinesChange, GrantNodeSSH, ResourceChanges, DeleteOutOfBand,
       vars
<1> QED BY <1>1, <1>2, <1>3, <1>4, <1>5, <1>6 DEF Next, Reconcile

\* A state that is calm has only calm ones before it.
LEMMA CalmBefore ==
  ASSUME Footing, [Next]_vars, Calmly'
  PROVE  /\ Calmly /\ LabelInv /\ ~Fault /\ NoFault
         /\ api.exists /\ ~api.deleting /\ ~mem.deleting /\ ~cache.deleting /\ cache.exists
<1>1. ~Fault /\ NoFault /\ faults = 0
  <2>1. faults \in Nat
    BY ModeFacts DEF Footing, TypeInv, FaultsTyped, WorldTyped
  <2>2. Fault \/ NoFault
    BY Faulting
  <2> QED BY <2>1, <2>2 DEF Fault, NoFault, Calmly
<1>2. LabelsFixed
  BY ModeKept DEF Calmly, LabelsFixed
<1>3. ~Going
  BY MetaSteps DEF Footing, Calmly
<1> QED BY <1>1, <1>2, <1>3 DEF Calmly, Footing, KeepInv, Going, CacheFirst

LEMMA Afoot ==
  ASSUME Footing, [Next]_vars
  PROVE  Footing'
<1> USE DEF Footing
<1>1. TypeInv' /\ KeepInv' /\ RestInv'
  BY NextTyped, KeepInvInductive, RestStep
<1>2. CacheFirst'
  BY MetaSteps DEF CacheFirst
<1>3. (LabelsFixed => LabelInv)'
  BY ModeKept, LabelsKept, OnePresentKept DEF LabelsFixed, LabelInv
<1>4. AtOnce'
  <2>1. /\ state \in [Resources -> States]
        /\ \A k \in {"ip", "sg"} : \A i \in IDs : <<k, i>> \in Resources
    BY DEF TypeInv, CloudTyped, Resources, Kinds
  <2> USE <2>1
  <2>2. ASSUME NEW k, NEW i, Create(k, i) PROVE AtOnce'
    BY <2>2 DEF Create, AtOnce
  <2>3. ASSUME NEW k, NEW i, state' = Deleted(k, i) PROVE AtOnce'
    BY <2>3 DEF Deleted, AtOnce
  <2>4. CASE GrantNodeSSH
    <3>1. PICK i \in IDs : state' = [state EXCEPT ![<<"nodeSG", i>>] = "up"]
      BY <2>4, Zenon DEF GrantNodeSSH
    <3> QED BY <3>1 DEF AtOnce
  <2>5. ASSUME NEW r \in Resources, ResourceChanges(r) \/ DeleteOutOfBand(r) PROVE AtOnce'
    <3>1. PICK v \in {"up", "gone"} : state' = [state EXCEPT ![r] = v]
      BY <2>5, Zenon DEF ResourceChanges, DeleteOutOfBand
    <3> QED BY <3>1 DEF AtOnce
  <2>6. CASE UNCHANGED state
    BY <2>6 DEF AtOnce
  <2> QED BY <2>2, <2>3, <2>4, <2>5, <2>6, CloudChanges, Zenon DEF CloudSteps, Creating, Deleting
<1> QED BY <1>1, <1>2, <1>3, <1>4

-----------------------------------------------------------------------------
(* The bastion, kept or dropped *)

\* Nothing of the bastion is created,
Shrinks ==
  /\ bootData' = bootData
  /\ \A k \in BastionKinds : \A i \in IDs : <<k, i>> \in Live' => <<k, i>> \in Live

\* and nothing deleted.
Stands ==
  /\ bootData' = bootData
  /\ \A k \in BastionKinds : \A i \in IDs : <<k, i>> \in Live' <=> <<k, i>> \in Live

LEMMA StandsShrinks ==
  ASSUME Stands
  PROVE  Shrinks
  BY DEF Stands, Shrinks

LEMMA StandsStill ==
  ASSUME UNCHANGED <<state, bootData>>
  PROVE  Stands
  BY DEF Stands, Live

\* The kinds of the bastion are fields of its record.
LEMMA BastionKindFields ==
  /\ BastionKinds \subseteq BastionFields /\ BastionKinds \subseteq Kinds
  /\ BastionFields \subseteq Observed
  /\ "server" \in BastionKinds /\ "ip" \in BastionKinds /\ "sg" \in BastionKinds
  /\ "hash" \in BastionFields /\ "bastionReady" \in Observed
  BY DEF BastionKinds, BastionFields, Kinds, Observed

LEMMA HonestMemory ==
  ASSUME Shrinks, Honest(mem), \A f \in BastionFields : mem'[f] = mem[f],
         mem'.bastionReady = "Skipped" => mem.bastionReady = "Skipped"
  PROVE  Honest(mem)'
<1>1. \A k \in BastionKinds : AtMost(k, mem[k])'
  BY BastionKindFields DEF Shrinks, Honest, AtMost
<1>2. Hashed(mem)'
  BY BastionKindFields DEF Shrinks, Honest, Hashed
<1>3. Clean => Clean'
  BY Zenon DEF Shrinks, Clean
<1> QED BY <1>1, <1>2, <1>3 DEF Honest

LEMMA HonestObject ==
  ASSUME Shrinks, Honest(api), \A f \in Observed : api'[f] = api[f]
  PROVE  Honest(api)'
<1>1. \A k \in BastionKinds : AtMost(k, api[k])'
  BY BastionKindFields DEF Shrinks, Honest, AtMost
<1>2. Hashed(api)'
  BY BastionKindFields DEF Shrinks, Honest, Hashed
<1>3. Clean => Clean'
  BY Zenon DEF Shrinks, Clean
<1> QED BY <1>1, <1>2, <1>3, BastionKindFields DEF Honest

LEMMA CleanMemory ==
  ASSUME Clean'
  PROVE  Honest(mem)'
  BY DEF Clean, Honest, AtMost, Hashed, BastionKinds

-----------------------------------------------------------------------------
(* Steps of the handlers *)

\* A handler returns.
LEMMA StopsWell ==
  ASSUME Parts, pc \in HandlerSteps, Stops, UNCHANGED <<api, before>>,
         mem'.enabled = mem.enabled, Honest(mem)', outcome' = "settled" => Fits(mem)'
  PROVE  Parts'
<1>1. pc # "idle" /\ ~Final
  BY DEF HandlerSteps, NormalSteps, DropSteps, PatchSteps, Final
<1>2. pc' = "patchConditions" /\ Final'
  BY DEF Stops, Final, PatchSteps
<1> USE <1>2
<1>3. Fresh'
  BY <1>1 DEF Parts, Fresh, Stops
<1>4. Ensuring' /\ Dropping' /\ Resting'
  BY DEF Ensuring, Dropping, Resting, DropSteps
<1>5. Carrying'
  <2>1. api.bastionReady = before.bastionReady /\ \A f \in BastionFields : api[f] = before[f]
    BY <1>1, BastionKindFields DEF Parts, Fresh
  <2> QED BY <2>1 DEF Carrying
<1> QED BY <1>3, <1>4, <1>5 DEF Parts

\* A handler goes on.
LEMMA GoesWell ==
  ASSUME Parts, pc \in HandlerSteps, pc' \in HandlerSteps, UNCHANGED <<api, before, resume>>,
         mem'.enabled = mem.enabled, \A f \in Observed : mem'[f] = mem[f],
         pc' \notin {"ensureServer", "ensureIP"} => Honest(mem)', Ensuring', Dropping'
  PROVE  Parts'
<1>1. pc # "idle" /\ ~Final /\ pc' # "idle" /\ ~Final'
  BY DEF HandlerSteps, NormalSteps, DropSteps, PatchSteps, Final
<1>2. Fresh'
  BY <1>1 DEF Parts, Fresh
<1>3. Carrying' /\ Resting'
  BY <1>1 DEF Carrying, Resting
<1> QED BY <1>2, <1>3 DEF Parts

\* Whatever is handed on keeps the condition of the bastion.
LEMMA MovesReady ==
  ASSUME NEW m \in Objects, Moves(m)
  PROVE  mem'.bastionReady = m.bastionReady
<1> DEFINE f == [m EXCEPT !.ready = FALSE, !.readyCond = "False"]
           r == [m EXCEPT !.ready = TRUE, !.provisioned = TRUE, !.readyCond = "True"]
<1>1. f.bastionReady = m.bastionReady /\ r.bastionReady = m.bastionReady
  BY DEF Objects
<1>2. ASSUME NEW o, NEW how, Return(o, how) PROVE mem' = o
  BY <1>2, Zenon DEF Return
<1>3. mem' = m \/ (\E how : Return(f, how) \/ Return(r, how))
  BY <1>2, Zenon DEF Moves, Continue, CloudFails, SetReady
<1> HIDE DEF f, r
<1> QED BY <1>1, <1>2, <1>3

Front == CheckZones \/ EnsureNetwork \/ EnsureLoadBalancer \/ SetTargets

\* The calls in front of the bastion leave it alone,
LEMMA FrontSpares ==
  ASSUME TypeInv, Front
  PROVE  /\ Stands /\ UNCHANGED <<api, before>>
         /\ mem'.enabled = mem.enabled /\ \A f \in Observed : mem'[f] = mem[f]
<1> USE DEF Front
<1>0. mem \in Objects
  BY DEF TypeInv, MoveTyped
<1> USE <1>0
<1>1. mem'.enabled = mem.enabled /\ UNCHANGED <<api, before>>
  BY HandlersSpareSpec DEF Handlers, SpecKept
<1>2. \A f \in BastionFields : mem'[f] = mem[f]
  <2>1. Only(mem', mem, {}) \/ Only(mem', mem, {"network"}) \/ Only(mem', mem, {"lbID"})
    BY FlagsWritten, NetworkWritten, LoadBalancerWritten
  <2> QED BY <2>1 DEF Only, Fields, Flags, BastionFields
<1>3. mem'.bastionReady = mem.bastionReady
  <2> DEFINE Near(o) == o \in Objects /\ o.bastionReady = mem.bastionReady
  <2>1. ASSUME NEW o, Near(o), Moves(o) PROVE mem'.bastionReady = mem.bastionReady
    BY <2>1, MovesReady
  <2> USE <2>1
  <2>2. ASSUME NEW o \in Objects, Near(o)
        PROVE  /\ \A i \in RecordedIDs : Near([o EXCEPT !.network = i])
               /\ \A i \in RecordedIDs : Near([o EXCEPT !.lbID = i])
    <3>1. \A i \in RecordedIDs :
            [o EXCEPT !.network = i] \in Objects /\ [o EXCEPT !.lbID = i] \in Objects
      BY SetIDs
    <3> QED BY <2>2, <3>1, Zenon DEF Objects
  <2>3. ASSUME NEW o \in Objects, Near(o)
        PROVE  /\ \A c \in ConditionStatus : Near([o EXCEPT !.lbReady = c])
               /\ Near([o EXCEPT !.endpoint = TRUE])
    <3>1. /\ \A c \in ConditionStatus : [o EXCEPT !.lbReady = c] \in Objects
          /\ [o EXCEPT !.endpoint = TRUE] \in Objects
      BY SetConditions, SetFlags, Zenon
    <3> QED BY <2>3, <3>1 DEF Objects
  <2>4. Near(mem)
    OBVIOUS
  <2> USE <2>4
  <2> DEFINE found == [mem EXCEPT !.lbID = LoadBalancerID]
  <2>5. Near(found) /\ found \in Objects
    BY <2>2, IDFacts DEF LoadBalancerID, RecordedIDs
  <2>6. ByoNetworkID \in RecordedIDs /\ IDs \subseteq RecordedIDs
        /\ {"True", "False", "Skipped"} \subseteq ConditionStatus
    BY IDFacts DEF ByoNetworkID, RecordedIDs, ConditionStatus
  <2> USE <2>6
  <2> HIDE DEF Near
  <2>7. CASE CheckZones \/ SetTargets
    <3>1. Moves(mem) \/ \E c \in {"True", "False", "Skipped"} : Moves([mem EXCEPT !.lbReady = c])
      BY <2>7, Zenon DEF CheckZones, SetTargets, Moves
    <3> QED BY <2>3, <3>1, Zenon
  <2>8. CASE EnsureNetwork
    <3>1. Moves(mem) \/ \E i \in IDs \cup {ByoNetworkID} : Moves([mem EXCEPT !.network = i])
      BY <2>8, Zenon DEF EnsureNetwork, Moves
    <3> QED BY <2>2, <3>1, Zenon
  <2>9. CASE EnsureLoadBalancer
    <3>1. \/ \E c \in {"True", "False", "Skipped"} : Moves([mem EXCEPT !.lbReady = c])
          \/ Moves([found EXCEPT !.lbReady = "False"])
          \/ Moves([found EXCEPT !.endpoint = TRUE])
      BY <2>9, Zenon DEF EnsureLoadBalancer, Moves
    <3> HIDE DEF found
    <3> QED BY <2>3, <2>5, <3>1, Zenon
  <2> QED BY <2>7, <2>8, <2>9
<1>4. Stands
  <2>1. UNCHANGED cloudVars \/ \E k \in {"network", "lb"} : \E id, err : Ensure(k, id, err)
    BY Zenon DEF CheckZones, EnsureNetwork, EnsureLoadBalancer, SetTargets
  <2>2. \/ UNCHANGED <<state, bootData>>
        \/ \E k \in {"network", "lb"} : \E i : Create(k, i)
    BY <2>1, Zenon DEF Ensure, cloudVars
  <2>3. ASSUME NEW k \in {"network", "lb"}, NEW i, Create(k, i) PROVE Stands
    <3> USE <2>3
    <3>1. state \in [Resources -> States] /\ bootData' = bootData
      BY DEF TypeInv, CloudTyped, Create
    <3>2. \A r \in Resources : r[1] \in BastionKinds => state'[r] = state[r]
      BY <3>1 DEF Create, BastionKinds
    <3> QED BY <3>1, <3>2 DEF Stands, Live, Resources
  <2> QED BY <2>2, <2>3, StandsStill
<1> QED BY <1>1, <1>2, <1>3, <1>4 DEF Observed

\* and they return early or lead to it.
LEMMA FrontMoves ==
  ASSUME Front
  PROVE  /\ pc \in HandlerSteps
         /\ \/ Stops /\ outcome' # "settled"
            \/ pc' \in {"network", "loadBalancer", "targets", "bastion"} /\ UNCHANGED resume
<1> USE DEF Front
<1>1. pc \in HandlerSteps
  BY DEF CheckZones, EnsureNetwork, EnsureLoadBalancer, SetTargets, HandlerSteps, NormalSteps
<1>2. \/ (\E m : (\E err : CloudFails(m, err)) \/ Return(m, "retry"))
      \/ pc' \in {"network", "loadBalancer", "targets", "bastion"} /\ UNCHANGED resume
  BY Zenon DEF CheckZones, EnsureNetwork, EnsureLoadBalancer, SetTargets, Continue
<1> QED BY <1>1, <1>2, Stopping, FailuresFail, Zenon DEF Failed

LEMMA FrontStep ==
  ASSUME Footing, Parts, Front
  PROVE  Parts'
<1>1. Honest(mem)
  BY DEF Parts, Carrying, Front, CheckZones, EnsureNetwork, EnsureLoadBalancer, SetTargets
<1>2. Honest(mem)'
  BY <1>1, FrontSpares, StandsShrinks, HonestMemory, BastionKindFields DEF Footing
<1>3. CASE Stops /\ outcome' # "settled"
  BY <1>2, <1>3, FrontSpares, FrontMoves, StopsWell DEF Footing
<1>4. CASE pc' \in {"network", "loadBalancer", "targets", "bastion"} /\ UNCHANGED resume
  <2> USE <1>4
  <2>1. pc' \in HandlerSteps /\ Ensuring' /\ Dropping'
    BY DEF HandlerSteps, NormalSteps, DropSteps, Ensuring, Dropping
  <2> QED BY <1>2, <2>1, FrontSpares, FrontMoves, GoesWell DEF Footing
<1> QED BY <1>3, <1>4, FrontMoves

-----------------------------------------------------------------------------
(* The bastion is ensured *)

\* A failing step sets the condition of the bastion and nothing else of it.
LEMMA BastionStopped ==
  ASSUME TypeInv, NEW err, BastionFails(err)
  PROVE  /\ Stops /\ outcome' # "settled"
         /\ mem'.bastionReady = "False" /\ \A f \in BastionFields : mem'[f] = mem[f]
<1> DEFINE o == [mem EXCEPT !.bastionReady = "False"]
<1>0. mem \in Objects /\ "False" \in ConditionStatus
  BY DEF TypeInv, MoveTyped, ConditionStatus
<1>1. o \in Objects /\ o.bastionReady = "False" /\ Only(o, mem, {})
  BY <1>0, SetConditions, OnlyFlags, Zenon DEF Objects
<1>2. CloudFails(o, err)
  BY Zenon DEF BastionFails
<1> HIDE DEF o
<1>3. Moves(o)
  BY <1>2 DEF Moves
<1>4. mem'.bastionReady = "False" /\ Only(mem', o, {})
  BY <1>1, <1>3, MovesReady, MovesOnly
<1>5. Stops /\ outcome' # "settled"
  BY <1>2, Stopping, FailuresFail, Zenon DEF Failed
<1> QED BY <1>1, <1>4, <1>5 DEF Only, Fields, Flags, BastionFields

\* A failing step that leaves the record behind what exists is none.
LEMMA BastionStopsWell ==
  ASSUME Footing, Parts, Handlers, pc \in HandlerSteps, Honest(mem), Shrinks,
         NEW err, BastionFails(err)
  PROVE  Parts'
<1>1. /\ Stops /\ outcome' # "settled"
      /\ mem'.bastionReady = "False" /\ \A f \in BastionFields : mem'[f] = mem[f]
  BY BastionStopped DEF Footing
<1>2. Honest(mem)'
  BY <1>1, HonestMemory
<1>3. mem'.enabled = mem.enabled /\ UNCHANGED <<api, before>>
  BY HandlersSpareSpec DEF Footing, SpecKept
<1> QED BY <1>1, <1>2, <1>3, StopsWell

LEMMA ReconcileBastionStep ==
  ASSUME Footing, Parts, ~Fault, ReconcileBastion
  PROVE  Parts'
<1>0. /\ mem \in Objects /\ TypeInv /\ pc = "bastion" /\ pc \in HandlerSteps
      /\ UNCHANGED <<api, before>> /\ UNCHANGED cloudVars /\ UNCHANGED content
  BY DEF Footing, TypeInv, MoveTyped, ReconcileBastion, HandlerSteps, NormalSteps, worldVars
<1> USE <1>0
<1>1. Honest(mem) /\ Stands
  BY StandsStill DEF Parts, Carrying, cloudVars
<1>2. CASE ~mem.enabled /\ CleanupDone(mem) /\ SetReady([mem EXCEPT !.bastionReady = "Skipped"])
  <2> USE <1>2
  <2> DEFINE o == [mem EXCEPT !.bastionReady = "Skipped"]
  <2>1. o \in Objects /\ o.bastionReady = "Skipped" /\ Only(o, mem, {})
    <3>1. "Skipped" \in ConditionStatus
      BY DEF ConditionStatus
    <3> QED BY <3>1, SetConditions, OnlyFlags, Zenon DEF Objects
  <2>2. Moves(o) /\ Stops
    BY Stopping DEF Moves
  <2> HIDE DEF o
  <2>3. mem'.bastionReady = "Skipped" /\ Only(mem', o, {})
    BY <2>1, <2>2, MovesReady, MovesOnly
  <2>4. mem'.enabled = mem.enabled /\ \A f \in BastionFields : mem'[f] = mem[f]
    BY <2>1, <2>3 DEF Only, Fields, Flags, BastionFields
  <2> USE <2>4
  <2>5. Honest(mem)'
    BY <1>1, StandsShrinks, HonestMemory DEF CleanupDone
  <2>6. Clean'
    BY <2>3, <2>5 DEF Honest
  <2>7. Fits(mem)'
    BY <2>6 DEF Fits
  <2> QED BY <2>2, <2>5, <2>7, StopsWell
<1>3. ASSUME NEW next \in {"dropNodeSSH", "ensureSG"}, Continue(mem, next), Ensuring', Dropping'
      PROVE  Parts'
  <2> USE <1>3
  <2>1. pc' \in HandlerSteps /\ pc' \notin {"ensureServer", "ensureIP"}
        /\ UNCHANGED <<mem, resume>>
    BY DEF Continue, HandlerSteps, NormalSteps, DropSteps
  <2>2. Honest(mem)'
    BY <1>1, <2>1, StandsShrinks, HonestMemory
  <2> QED BY <2>1, <2>2, GoesWell
<1>4. CASE Continue(mem, "dropNodeSSH") /\ (why' = "disable" => ~mem.enabled)
  <2> USE <1>4
  <2>1. pc' = "dropNodeSSH" /\ mem' = mem
    BY DEF Continue
  <2>2. Ensuring' /\ Dropping'
    BY <2>1 DEF Ensuring, Dropping
  <2> QED BY <1>3, <2>2
<1>5. CASE /\ Continue(mem, "ensureSG") /\ mem.enabled /\ ~NeedsRecreate(mem, content)
           /\ userData' = content
  <2> USE <1>5
  <2>1. pc' = "ensureSG" /\ mem' = mem
    BY DEF Continue
  <2>2. Ensuring' /\ Dropping'
    BY <2>1 DEF Ensuring, Dropping, DropSteps, NeedsRecreate, HasBastionStatus
  <2> QED BY <1>3, <2>2
<1> QED BY <1>2, <1>4, <1>5, Zenon DEF ReconcileBastion

\* A set without two elements has no cardinality above one.
LEMMA AtMostOne ==
  ASSUME NEW S, \A a, b \in S : a = b
  PROVE  ~(Cardinality(S) > 1)
<1> DEFINE CS == CHOOSE f : f = [T \in SUBSET S |->
                   IF T = {} THEN 0 ELSE 1 + f[T \ {CHOOSE x : x \in T}]]
<1> DEFINE size == [T \in SUBSET S |-> IF T = {} THEN 0 ELSE 1]
<1>1. Cardinality(S) = CS[S]
  BY DEF Cardinality
<1>2. ASSUME NEW T \in SUBSET S, T # {} PROVE T \ {CHOOSE x : x \in T} = {}
  <2>1. (CHOOSE x : x \in T) \in T
    BY <1>2
  <2> QED BY <2>1
<1>3. size = [T \in SUBSET S |-> IF T = {} THEN 0 ELSE 1 + size[T \ {CHOOSE x : x \in T}]]
  <2>1. size[{}] = 0
    OBVIOUS
  <2>2. ASSUME NEW T \in SUBSET S
        PROVE  (IF T = {} THEN 0 ELSE 1 + size[T \ {CHOOSE x : x \in T}])
                 = IF T = {} THEN 0 ELSE 1
    <3>1. CASE T = {}
      BY <3>1
    <3>2. CASE T # {}
      <4> USE <3>2
      <4>1. T \ {CHOOSE x : x \in T} = {}
        BY <1>2, Zenon
      <4>2. size[T \ {CHOOSE x : x \in T}] = 0
        BY <2>1, <4>1, Zenon
      <4> HIDE DEF size
      <4> QED BY <4>2
    <3> QED BY <3>1, <3>2
  <2> QED BY <2>2, Zenon
<1> HIDE DEF size
<1>4. CS = [T \in SUBSET S |-> IF T = {} THEN 0 ELSE 1 + CS[T \ {CHOOSE x : x \in T}]]
  BY <1>3, Zenon
<1> HIDE DEF CS
<1>5. \A T \in SUBSET S : CS[T] = IF T = {} THEN 0 ELSE 1 + CS[T \ {CHOOSE x : x \in T}]
  BY <1>4, Zenon
<1>6. CS[{}] = 0
  BY <1>5, Zenon
<1>7. CASE S = {}
  BY <1>1, <1>6, <1>7
<1>8. CASE S # {}
  <2> USE <1>8
  <2>1. S \ {CHOOSE x : x \in S} = {}
    BY <1>2, Zenon
  <2>2. CS[S] = 1 + CS[{}]
    BY <1>5, <2>1, Zenon
  <2> QED BY <1>1, <1>6, <2>2
<1> QED BY <1>7, <1>8

\* With the labels of the spec as created there is no second match.
LEMMA NoConflict ==
  ASSUME LabelInv, NEW k \in Kinds
  PROVE  ~(Cardinality(Matching(k)) > 1)
<1>1. Matching(k) = {i \in IDs : Present(k, i)}
  BY AllMatch DEF LabelInv
<1>2. \A a, b \in Matching(k) : a = b
  BY <1>1 DEF LabelInv, OnePresent
<1> QED BY <1>2, AtMostOne

\* What Ensure found or created is the only one of its kind.
LEMMA Ensured ==
  ASSUME Footing, LabelInv, [Next]_vars, NEW k \in BastionKinds, NEW id \in IDs,
         Ensure(k, id, "none")
  PROVE  /\ Present(k, id)' /\ AtMost(k, id)'
         /\ k # "server" => <<k, id>> \in Live' /\ bootData' = bootData
         /\ \A l \in BastionKinds : \A i \in IDs :
              l # k => (<<l, i>> \in Live' <=> <<l, i>> \in Live)
<1> USE DEF BastionKinds
<1>0. /\ TypeInv /\ state \in [Resources -> States] /\ k \in Kinds
      /\ \A l \in BastionKinds, i \in IDs : <<l, i>> \in Resources
  BY DEF Footing, TypeInv, CloudTyped, Resources, Kinds
<1> USE <1>0
<1>1. \/ Matching(k) = {id} /\ UNCHANGED <<state, bootData>>
      \/ Matching(k) = {} /\ Create(k, id)
  BY Zenon DEF Ensure, Errors
<1> USE <1>1
<1>2. Present(k, id)'
  <2>1. CASE Matching(k) = {id} /\ UNCHANGED <<state, bootData>>
    BY <2>1 DEF Matching, Present
  <2>2. CASE Create(k, id)
    BY <2>2 DEF Create, Present
  <2> QED BY <2>1, <2>2
<1>3. AtMost(k, id)'
  <2>1. OnePresent'
    BY OnePresentKept DEF LabelInv
  <2>2. \A j \in IDs : (<<k, j>> \in Live)' => Present(k, j)'
    BY DEF Live, Present
  <2> QED BY <1>2, <2>1, <2>2 DEF OnePresent, AtMost
<1>4. ASSUME k # "server" PROVE <<k, id>> \in Live' /\ bootData' = bootData
  <2> USE <1>4
  <2>1. state[<<k, id>>] # "deleting" /\ k \in {"ip", "sg"}
    BY DEF Footing, AtOnce
  <2>2. <<k, id>> \in Live'
    BY <2>1, EnsuredLive
  <2>3. bootData' = bootData
    BY DEF Create
  <2> QED BY <2>2, <2>3
<1>5. ASSUME NEW l \in BastionKinds, NEW i \in IDs, l # k
      PROVE  <<l, i>> \in Live' <=> <<l, i>> \in Live
  <2>1. state'[<<l, i>>] = state[<<l, i>>]
    BY <1>5 DEF Create
  <2> QED BY <2>1 DEF Live
<1> QED BY <1>2, <1>3, <1>4, <1>5

\* Without a fault and without a conflict, Ensure does not fail.
LEMMA NoFailure ==
  ASSUME LabelInv, ~Fault, NEW k \in BastionKinds, NEW err \in Errors
  PROVE  ~Ensure(k, NoID, err)
<1>1. k \in Kinds /\ k # "lb" /\ err # "none"
  BY DEF BastionKinds, Kinds, Errors
<1>2. ~(Cardinality(Matching(k)) > 1)
  BY <1>1, NoConflict
<1> QED BY <1>1, <1>2, Zenon DEF Ensure

LEMMA EnsureSGStep ==
  ASSUME Footing, LabelInv, Parts, ~Fault, [Next]_vars, EnsureSecurityGroup
  PROVE  Parts'
<1> USE BastionKindFields
<1>1. PICK id \in IDs :
        /\ Ensure("sg", id, "none")
        /\ ids' = [NoIDs EXCEPT !.sg = id]
        /\ Continue(mem, "ensureServer")
  BY NoFailure, Zenon DEF EnsureSecurityGroup
<1>2. /\ pc = "ensureSG" /\ pc' = "ensureServer" /\ ids'.sg = id
      /\ UNCHANGED <<mem, resume, queued, api, before, userData, content>>
  BY <1>1 DEF EnsureSecurityGroup, Continue, NoIDs, worldVars
<1> USE <1>2
<1>3. /\ <<"sg", id>> \in Live' /\ bootData' = bootData
      /\ \A i \in IDs : <<"server", i>> \in Live' <=> <<"server", i>> \in Live
  BY <1>1, Ensured, Zenon
<1>4. AtMost("server", mem.server)' /\ Hashed(mem)'
  BY <1>3 DEF Parts, Carrying, Honest, AtMost, Hashed
<1>5. Ensuring' /\ Dropping'
  BY <1>3, <1>4 DEF Parts, Ensuring, Dropping, DropSteps, NeedsRecreate, HasBastionStatus
<1>6. pc \in HandlerSteps /\ pc' \in HandlerSteps
  BY DEF HandlerSteps, NormalSteps
<1> QED BY <1>5, <1>6, GoesWell

LEMMA EnsureServerStep ==
  ASSUME Footing, LabelInv, Parts, ~Fault, [Next]_vars, EnsureServer
  PROVE  Parts'
<1> USE BastionKindFields
<1>1. PICK id \in IDs, active \in BOOLEAN :
        /\ Ensure("server", id, "none")
        /\ Present("server", id) => active = (state[<<"server", id>>] = "up")
        /\ ids' = [ids EXCEPT !.server = id, !.active = active]
        /\ Continue(mem, "ensureIP")
  BY NoFailure, Zenon DEF EnsureServer
<1> USE <1>1
<1>2. /\ pc = "ensureServer" /\ pc' = "ensureIP"
      /\ UNCHANGED <<mem, resume, queued, api, before, userData, content>>
  BY Zenon DEF EnsureServer, Continue, worldVars
<1> USE <1>2
<1>3. ids'.sg = ids.sg /\ ids'.server = id /\ ids'.active = active
  BY DEF Footing, TypeInv, CallTyped
<1>4. /\ Present("server", id)' /\ AtMost("server", id)'
      /\ \A i \in IDs : <<"sg", i>> \in Live' <=> <<"sg", i>> \in Live
  BY Ensured, Zenon
<1>5. <<"sg", ids.sg>> \in Live'
  <2>1. ids.sg \in IDs /\ <<"sg", ids.sg>> \in Live
    BY DEF Footing, TypeInv, Parts, Ensuring
  <2> QED BY <1>4, <2>1
<1>6. /\ active => <<"server", id>> \in Live'
      /\ <<"server", id>> \in Live' => bootData'[id] = userData
  <2>0. /\ state \in [Resources -> States] /\ <<"server", id>> \in Resources
        /\ bootData \in [IDs -> Contents]
    BY DEF Footing, TypeInv, CloudTyped, Resources, Kinds
  <2>1. CASE Matching("server") = {id} /\ UNCHANGED <<state, bootData>>
    <3> USE <2>1
    <3>1. Present("server", id)
      BY Zenon DEF Matching
    <3>2. active => <<"server", id>> \in Live'
      BY <2>0, <3>1, Zenon DEF Live
    <3>3. ASSUME <<"server", id>> \in Live' PROVE bootData'[id] = userData
      <4>1. <<"server", id>> \in Live
        BY <3>3 DEF Live
      <4>2. mem.server = id /\ mem.hash = CloudInitHash(bootData[id])
        BY <4>1 DEF Parts, Ensuring, AtMost, Hashed
      <4>3. mem.hash = CloudInitHash(userData)
        BY <4>2, IDFacts DEF Parts, Ensuring, NeedsRecreate, HasBastionStatus
      <4> QED BY <4>2, <4>3 DEF CloudInitHash
    <3> QED BY <3>2, <3>3
  <2>2. CASE Create("server", id)
    BY <2>0, <2>2 DEF Create, Live
  <2> QED BY <2>1, <2>2, Zenon DEF Ensure, Errors
<1>7. Ensuring'
  BY <1>3, <1>4, <1>5, <1>6 DEF Parts, Ensuring, NeedsRecreate, HasBastionStatus
<1>8. pc \in HandlerSteps /\ pc' \in HandlerSteps /\ Dropping'
  BY DEF HandlerSteps, NormalSteps, Dropping, DropSteps
<1> QED BY <1>7, <1>8, GoesWell

\* The address comes last, and the bastion is recorded.
LEMMA EnsureIPStep ==
  ASSUME Footing, LabelInv, Parts, ~Fault, [Next]_vars, EnsurePublicIP
  PROVE  Parts'
<1> USE BastionKindFields
<1>0. TypeInv /\ mem \in Objects /\ CallTyped
  BY DEF Footing, TypeInv, MoveTyped
<1>1. PICK id \in IDs :
        /\ Ensure("ip", id, "none")
        /\ IF ids.active
             THEN SetReady([WithBastion(id) EXCEPT !.bastionReady = "True"])
             ELSE CloudFails([WithBastion(id) EXCEPT !.bastionReady = "False"], "retryable")
  BY NoFailure, Zenon DEF EnsurePublicIP
<1>2. /\ pc = "ensureIP" /\ pc \in HandlerSteps
      /\ UNCHANGED <<api, before, ids, userData, content>>
  BY DEF EnsurePublicIP, callVars, worldVars, HandlerSteps, NormalSteps
<1> USE <1>2
<1>3. /\ mem.enabled /\ (queued \/ userData = content) /\ <<"sg", ids.sg>> \in Live
      /\ AtMost("server", ids.server)
      /\ ids.active => <<"server", ids.server>> \in Live
      /\ <<"server", ids.server>> \in Live => bootData[ids.server] = userData
  BY DEF Parts, Ensuring
<1> USE <1>3
<1>4. /\ AtMost("ip", id)' /\ <<"ip", id>> \in Live' /\ bootData' = bootData
      /\ \A l \in {"server", "sg"} : \A i \in IDs : <<l, i>> \in Live' <=> <<l, i>> \in Live
  BY <1>1, Ensured, Zenon
<1> USE <1>4
<1>5. ASSUME NEW l \in {"server", "sg"}, NEW i
      PROVE  <<l, i>> \in Live' <=> <<l, i>> \in Live
  <2>1. <<l, i>> \in Live \/ <<l, i>> \in Live' => i \in IDs
    BY DEF Live, Resources
  <2> QED BY <2>1
<1> USE <1>5
<1>6. AtMost("server", ids.server)' /\ AtMost("sg", ids.sg)'
  <2>1. AtMost("sg", ids.sg)
    <3>1. ASSUME NEW j \in IDs, <<"sg", j>> \in Live PROVE j = ids.sg
      <4>1. ids.sg \in IDs
        BY DEF Live, Resources
      <4>2. Present("sg", j) /\ Present("sg", ids.sg)
        BY <3>1, <4>1 DEF Live, Present
      <4> QED BY <4>1, <4>2 DEF LabelInv, OnePresent
    <3> QED BY <3>1 DEF AtMost
  <2> QED BY <2>1 DEF AtMost
<1>7. PICK c \in {"True", "False"} :
        /\ Moves([WithBastion(id) EXCEPT !.bastionReady = c])
        /\ IF ids.active
             THEN SetReady([WithBastion(id) EXCEPT !.bastionReady = c])
             ELSE CloudFails([WithBastion(id) EXCEPT !.bastionReady = c], "retryable")
  BY <1>1, Zenon DEF Moves
<1> DEFINE w == WithBastion(id)
           o == [w EXCEPT !.bastionReady = c]
<1>8. /\ w \in Objects /\ Only(w, mem, BastionFields)
      /\ w.server = ids.server /\ w.ip = id /\ w.sg = ids.sg
      /\ w.hash = CloudInitHash(userData)
  BY <1>0, SetBastion, OnlyBastion, Zenon
<1> USE <1>8
<1> HIDE DEF w
<1>9. o \in Objects /\ o.bastionReady = c /\ Only(o, w, {})
  <2>1. c \in ConditionStatus
    BY DEF ConditionStatus
  <2>2. o \in Objects /\ Only(o, w, {})
    BY <2>1, SetConditions, OnlyFlags, Zenon
  <2>3. o.bastionReady = c
    BY DEF Objects
  <2> QED BY <2>2, <2>3
<1>10. Moves(o) /\ IF ids.active THEN SetReady(o) ELSE CloudFails(o, "retryable")
  BY <1>7 DEF w
<1> USE <1>10
<1> HIDE DEF o
<1>11. mem'.bastionReady = c /\ Only(mem', o, {})
  BY <1>9, MovesReady, MovesOnly
<1>12. /\ mem'.enabled = mem.enabled /\ mem'.server = ids.server /\ mem'.ip = id
       /\ mem'.sg = ids.sg /\ mem'.hash = CloudInitHash(userData)
  BY <1>9, <1>11 DEF Only, Fields, Flags, BastionFields
<1> USE <1>12
<1>13. Honest(mem)'
  <2>1. \A k \in BastionKinds : AtMost(k, mem[k])'
    BY <1>6 DEF AtMost, BastionKinds
  <2>2. Hashed(mem)'
    BY DEF Hashed
  <2> QED BY <1>11, <2>1, <2>2 DEF Honest
<1>14. Stops /\ (queued => queued') /\ (outcome' = "settled" => ids.active)
  <2>1. CASE ids.active
    <3> USE <2>1
    <3>1. PICK m : Return(m, "settled")
      BY Zenon DEF SetReady
    <3> QED BY <3>1, Zenon DEF Return, Stops
  <2>2. CASE ~ids.active
    <3>1. CloudFails(o, "retryable")
      BY <2>2
    <3>2. PICK m : Return(m, "retry")
      BY <3>1, Zenon DEF CloudFails
    <3> QED BY <3>2, Zenon DEF Return, Stops
  <2> QED BY <2>1, <2>2
<1>15. ASSUME ids.active PROVE Fits(mem)'
  <2> USE <1>15
  <2>1. \A k \in BastionKinds : <<k, mem'[k]>> \in Live'
    BY DEF BastionKinds
  <2>2. queued' \/ bootData'[mem'.server] = content'
    BY <1>14
  <2> QED BY <2>1, <2>2 DEF Fits
<1> QED BY <1>13, <1>14, <1>15, StopsWell

-----------------------------------------------------------------------------
(* The bastion is dropped *)

\* A delete takes the one resource, and nothing else.
LEMMA DeletedOne ==
  ASSUME TypeInv, NEW k \in Kinds, NEW id, state' = Deleted(k, id), bootData' = bootData
  PROVE  /\ Shrinks
         /\ k \notin BastionKinds => Stands
         /\ AtMost(k, id) => \A i \in IDs : <<k, i>> \notin Live'
<1>0. /\ state \in [Resources -> States]
      /\ \A l \in Kinds, i \in IDs : <<l, i>> \in Resources
  BY DEF TypeInv, CloudTyped, Resources
<1>1. ASSUME NEW l \in Kinds, NEW i \in IDs
      PROVE  /\ <<l, i>> \in Live' => <<l, i>> \in Live
             /\ l # k => (<<l, i>> \in Live' <=> <<l, i>> \in Live)
  BY <1>0 DEF Deleted, Live
<1>2. Shrinks /\ (k \notin BastionKinds => Stands)
  BY <1>1, BastionKindFields DEF Shrinks, Stands
<1>3. ASSUME AtMost(k, id), NEW i \in IDs, <<k, i>> \in Live' PROVE FALSE
  <2> USE <1>3
  <2>1. i = id /\ <<k, id>> \in Live
    BY <1>1 DEF AtMost
  <2>2. id # NoID
    BY <2>1, IDFacts
  <2> QED BY <1>0, <2>1, <2>2 DEF Deleted, Live
<1> QED BY <1>2, <1>3

Drops == DropNodeSSH \/ ResolveBastion \/ DropServer \/ DropIP \/ DropSG

\* What a drop reads, and what it cannot change.
LEMMA DropReads ==
  ASSUME Footing, Parts, ~mem.deleting, Drops
  PROVE  /\ TypeInv /\ mem \in Objects /\ pc \in DropSteps /\ pc \in HandlerSteps
         /\ Honest(mem) /\ why # "delete" /\ (why = "disable" => ~mem.enabled)
         /\ mem'.enabled = mem.enabled /\ UNCHANGED <<api, before, why, bootData>>
<1> USE DEF Drops
<1>1. pc \in DropSteps
  BY DropCalls
<1> USE <1>1
<1>2. Honest(mem) /\ (why = "disable" => ~mem.enabled)
  BY DEF Parts, Carrying, Dropping, DropSteps
<1>3. why # "delete"
  BY DEF Footing, RestInv, Halves, Direction
<1>4. mem'.enabled = mem.enabled /\ UNCHANGED <<api, before>>
  BY HandlersSpareSpec DEF Footing, Handlers, SpecKept
<1>5. UNCHANGED <<why, bootData>>
  BY Zenon DEF DropNodeSSH, ResolveBastion, DropServer, DropIP, DropSG, callVars, cloudVars
<1> QED BY <1>2, <1>3, <1>4, <1>5 DEF Footing, TypeInv, MoveTyped, HandlerSteps

\* A drop that fails,
LEMMA DropStops ==
  ASSUME Footing, Parts, ~mem.deleting, Drops, Shrinks, NEW err, DropFails(err)
  PROVE  Parts'
<1>1. BastionFails(err)
  BY DropReads, Zenon DEF DropFails
<1>2. Handlers
  BY DEF Drops, Handlers
<1> QED BY <1>1, <1>2, DropReads, BastionStopsWell

\* and one that goes on.
LEMMA DropGoes ==
  ASSUME Footing, Parts, ~mem.deleting, Drops, Shrinks,
         NEW next \in {"resolveBastion", "dropServer", "dropIP", "dropSG"},
         Continue(mem, next), Dropping'
  PROVE  Parts'
<1>1. /\ pc' \in DropSteps /\ pc' \in HandlerSteps /\ pc' \notin {"ensureServer", "ensureIP"}
      /\ UNCHANGED <<mem, resume>>
  BY DEF Continue, DropSteps, HandlerSteps
<1> USE <1>1
<1>2. Ensuring'
  BY DEF Ensuring, DropSteps
<1>3. Honest(mem)'
  BY DropReads, HonestMemory
<1> QED BY <1>2, <1>3, DropReads, GoesWell

LEMMA DropNodeSSHStep ==
  ASSUME Footing, Parts, ~mem.deleting, ~Fault, DropNodeSSH
  PROVE  Parts'
<1>0. Drops /\ why # "delete" /\ (why = "disable" => ~mem.enabled) /\ TypeInv
      /\ UNCHANGED <<why, bootData>>
  BY DropReads DEF Drops
<1> USE <1>0
<1>1. \/ LookupFails(Ambiguous("nodeSG", NoID)) /\ UNCHANGED state
      \/ /\ Continue(mem, "resolveBastion")
         /\ UNCHANGED state \/ \E i \in IDs : state' = Deleted("nodeSG", i)
  BY Zenon DEF DropNodeSSH
<1>2. Shrinks
  <2>1. UNCHANGED state \/ \E i \in IDs : state' = Deleted("nodeSG", i)
    BY <1>1
  <2> QED BY <2>1, DeletedOne, StandsStill, StandsShrinks DEF Kinds
<1>3. CASE LookupFails(Ambiguous("nodeSG", NoID))
  <2>1. \E err : DropFails(err)
    BY <1>3, Zenon DEF LookupFails
  <2> QED BY <1>2, <2>1, DropStops
<1>4. CASE Continue(mem, "resolveBastion")
  <2> USE <1>4
  <2>1. Dropping'
    BY DEF Continue, Dropping
  <2> QED BY <1>2, <2>1, DropGoes
<1> QED BY <1>1, <1>3, <1>4

\* The ID on record, or the one found where none exists, is the only one.
LEMMA ResolveStep ==
  ASSUME Footing, Parts, ~mem.deleting, ~Fault, ResolveBastion
  PROVE  Parts'
<1>0. /\ Drops /\ why # "delete" /\ (why = "disable" => ~mem.enabled) /\ Honest(mem)
      /\ UNCHANGED <<why, bootData>>
  BY DropReads DEF Drops
<1> USE <1>0
<1>1. Stands /\ Shrinks
  <2>1. UNCHANGED <<state, bootData>>
    BY DEF ResolveBastion, cloudVars
  <2> QED BY <2>1, StandsStill, StandsShrinks
<1> USE <1>1
<1>2. CASE \E err : DropFails(err)
  BY <1>2, DropStops
<1>3. CASE /\ \E s, p, g \in IDs \cup {NoID} :
                /\ Resolved("server", mem.server, s)
                /\ Resolved("ip", mem.ip, p)
                /\ Resolved("sg", mem.sg, g)
                /\ ids' = [server |-> s, ip |-> p, sg |-> g, active |-> FALSE]
           /\ Continue(mem, "dropServer")
  <2> USE <1>3
  <2>1. PICK s, p, g \in IDs \cup {NoID} :
          /\ Resolved("server", mem.server, s)
          /\ Resolved("ip", mem.ip, p)
          /\ Resolved("sg", mem.sg, g)
          /\ ids' = [server |-> s, ip |-> p, sg |-> g, active |-> FALSE]
    BY Zenon
  <2>2. ids'.server = s /\ ids'.ip = p /\ ids'.sg = g
    BY <2>1
  <2>3. ASSUME NEW k \in BastionKinds, NEW id, Resolved(k, mem[k], id)
        PROVE  \A j \in IDs : <<k, j>> \in Live' => j = id
    <3>1. id = mem[k] \/ mem[k] = NoID
      BY <2>3, Zenon DEF Resolved
    <3>2. \A j \in IDs : <<k, j>> \in Live' => j = mem[k]
      BY DEF Honest, AtMost, Stands
    <3> QED BY <3>1, <3>2, IDFacts
  <2>4. \A k \in BastionKinds : \A j \in IDs : <<k, j>> \in Live' => j = ids'[k]
    BY <2>1, <2>2, <2>3 DEF BastionKinds
  <2>5. Dropping'
    BY <2>4, Zenon DEF Continue, Dropping, AtMost
  <2> QED BY <2>5, DropGoes
<1> QED BY <1>2, <1>3, Zenon DEF ResolveBastion, LookupFails

LEMMA DropServerIPStep ==
  ASSUME Footing, Parts, ~mem.deleting, ~Fault, DropServer \/ DropIP
  PROVE  Parts'
<1> USE BastionKindFields
<1>0. /\ Drops /\ (why = "disable" => ~mem.enabled) /\ TypeInv
      /\ UNCHANGED <<why, bootData>> /\ UNCHANGED ids
  <2>1. UNCHANGED callVars
    BY Zenon DEF DropServer, DropIP
  <2> QED BY <2>1, DropReads DEF Drops, callVars
<1> USE <1>0
<1>1. \/ /\ pc = "dropServer" /\ state' = Deleted("server", ids.server)
         /\ Continue(mem, "dropIP")
      \/ pc = "dropIP" /\ state' = Deleted("ip", ids.ip) /\ Continue(mem, "dropSG")
  BY Zenon DEF DropServer, DropIP, Drop
<1> USE <1>1
<1>2. Shrinks
  BY DeletedOne
<1> USE <1>2
<1>3. \A k \in BastionKinds : AtMost(k, ids[k])
  BY DEF Parts, Dropping
<1> USE <1>3
<1>4. \A k \in BastionKinds : AtMost(k, ids[k])'
  BY DEF AtMost, Shrinks
<1>5. CASE pc = "dropServer" /\ state' = Deleted("server", ids.server) /\ Continue(mem, "dropIP")
  <2> USE <1>5
  <2>1. \A i \in IDs : <<"server", i>> \notin Live'
    BY DeletedOne
  <2>2. Dropping'
    BY <1>4, <2>1 DEF Continue, Dropping
  <2> QED BY <2>2, DropGoes
<1>6. CASE pc = "dropIP" /\ state' = Deleted("ip", ids.ip) /\ Continue(mem, "dropSG")
  <2> USE <1>6
  <2>1. \A i \in IDs : <<"ip", i>> \notin Live'
    BY DeletedOne
  <2>2. \A i \in IDs : <<"server", i>> \notin Live'
    BY Zenon DEF Parts, Dropping, Shrinks
  <2>3. Dropping'
    BY <1>4, <2>1, <2>2 DEF Continue, Dropping
  <2> QED BY <2>3, DropGoes
<1> QED BY <1>5, <1>6

\* The group goes last, and with it the record.
LEMMA DropSGStep ==
  ASSUME Footing, Parts, ~mem.deleting, ~Fault, DropSG
  PROVE  Parts'
<1> USE BastionKindFields
<1>0. /\ Drops /\ why # "delete" /\ (why = "disable" => ~mem.enabled)
      /\ TypeInv /\ mem \in Objects /\ pc = "dropSG" /\ pc \in HandlerSteps
      /\ mem'.enabled = mem.enabled /\ UNCHANGED <<api, before, why, bootData>>
  BY DropReads DEF Drops, DropSG
<1> USE <1>0
<1>1. CASE DropFails("retryable") /\ UNCHANGED state
  BY <1>1, StandsStill, StandsShrinks, DropStops
<1>2. CASE state' = Deleted("sg", ids.sg) /\ BastionDropped
  <2> USE <1>2
  <2>1. Clean'
    <3>1. \A i \in IDs : <<"sg", i>> \notin Live'
      BY DeletedOne DEF Parts, Dropping
    <3>2. \A k \in {"server", "ip"} : \A i \in IDs : <<k, i>> \notin Live'
      BY DeletedOne, Zenon DEF Parts, Dropping, Shrinks
    <3> QED BY <3>1, <3>2 DEF Clean, BastionKinds
  <2>2. Stops /\ (outcome' = "settled" => why = "disable")
    <3>1. \/ why = "disable" /\ \E m : SetReady(m)
          \/ \E m, err : CloudFails(m, err)
      BY Zenon DEF BastionDropped
    <3> QED BY <3>1, Stopping, FailuresFail, Zenon DEF Failed
  <2>3. outcome' = "settled" => Fits(mem)'
    BY <2>1, <2>2 DEF Fits
  <2> QED BY <2>1, <2>2, <2>3, CleanMemory, StopsWell
<1> QED BY <1>1, <1>2, Zenon DEF DropSG

-----------------------------------------------------------------------------
(* Before and after the handlers *)

LEMMA ActiveStep ==
  ASSUME Footing, Parts, ~StaleReads, ~cache.deleting, ReconcileActive
  PROVE  Parts'
<1>1. /\ pc = "idle" /\ cache = api /\ before' = cache /\ UNCHANGED cloudVars
      /\ UNCHANGED api
      /\ mem' = cache \/ mem' = [cache EXCEPT !.finalizer = TRUE]
      /\ pc' \in {"patchConditions", "zones"}
      /\ resume' = IF pc' = "zones" THEN "idle" ELSE "zones"
  BY Zenon DEF ReconcileActive, Dequeue
<1> USE <1>1
<1>2. cache \in Objects
  BY DEF Footing, TypeInv, StoredTyped
<1>3. mem'.enabled = cache.enabled /\ \A f \in Observed : mem'[f] = cache[f]
  BY <1>2 DEF Observed, BastionFields, Objects
<1> USE <1>3
<1>4. pc' # "idle" /\ ~Final'
  BY DEF Final, PatchSteps
<1>5. Honest(api) /\ Stands
  BY StandsStill DEF Parts, Fresh, cloudVars
<1> USE <1>5
<1>6. Honest(mem)'
  <2>1. \A k \in BastionKinds : AtMost(k, mem[k])'
    BY BastionKindFields DEF Stands, Honest, AtMost
  <2>2. Hashed(mem)'
    BY BastionKindFields DEF Stands, Honest, Hashed
  <2>3. Clean => Clean'
    BY Zenon DEF Stands, Clean
  <2> QED BY <2>1, <2>2, <2>3, BastionKindFields DEF Honest
<1>7. Fresh'
  BY <1>4 DEF Fresh
<1>8. Ensuring' /\ Dropping' /\ Carrying' /\ Resting'
  BY <1>4, <1>6 DEF Ensuring, Dropping, DropSteps, Carrying, Resting
<1> QED BY <1>7, <1>8 DEF Parts

\* A request that is admitted carries every field that the handler changed.
LEMMA SendCalmly ==
  ASSUME TypeInv, ~Fault, api.exists, ~api.deleting, NEW admitted, admitted, NEW tolerated,
         NEW fields \in SUBSET ControllerFields, Send(fields, admitted, tolerated)
  PROVE  /\ UNCHANGED <<queued, resume>>
         /\ \A f \in ControllerFields :
              api'[f] = IF f \in fields THEN Merged(f) ELSE api[f]
<1>1. /\ UNCHANGED <<queued, resume>>
      /\ \/ ~Changed(fields) /\ api' = api
         \/ api' = Collected(Patched(fields))
  BY Zenon DEF Send
<1> USE <1>1
<1>2. CASE ~Changed(fields) /\ api' = api
  BY <1>2 DEF Changed, Merged
<1>3. CASE api' = Collected(Patched(fields))
  <2>1. "deleting" \notin fields
    BY DEF ControllerFields, ConditionFields, SpecFields, StatusFields
  <2>2. ~Patched(fields).deleting
    BY <2>1, PatchedFields, Zenon
  <2>3. api' = Patched(fields)
    BY <1>3, <2>2, Zenon DEF Collected
  <2>4. \A f \in ControllerFields :
          Patched(fields)[f] = IF f \in fields THEN Merged(f) ELSE api[f]
    BY PatchedFields, Zenon
  <2> QED BY <2>3, <2>4, Zenon
<1> QED BY <1>2, <1>3

\* The three requests: the first carries the condition of the bastion, the last
\* its record.
LEMMA PatchStep ==
  ASSUME Footing, Parts, ~Fault, api.exists, ~api.deleting,
         PatchConditions \/ PatchSpec \/ PatchStatus
  PROVE  Parts'
<1> USE BastionKindFields
<1>0. /\ pc \in PatchSteps /\ pc' \in PatchSteps /\ pc # "idle" /\ pc' # "idle"
      /\ pc # "patchDone" /\ pc' # "patchConditions"
      /\ UNCHANGED <<mem, before, content, outcome>> /\ UNCHANGED callVars
      /\ UNCHANGED cloudVars
  BY Zenon DEF PatchConditions, PatchSpec, PatchStatus, PatchSteps, worldVars
<1> USE <1>0
<1>1. Stands /\ Shrinks
  BY StandsStill, StandsShrinks DEF cloudVars
<1>2. TypeInv
  BY DEF Footing
<1> USE <1>2
<1>3. /\ api.bastionReady = IF Final /\ pc # "patchConditions" THEN mem.bastionReady
                                                             ELSE before.bastionReady
      /\ \A f \in BastionFields : api[f] = before[f]
      /\ ~Final => \A f \in Observed : mem[f] = before[f]
  BY DEF Parts, Fresh, Carrying
<1> USE <1>3
<1> DEFINE Carries(fields) ==
             /\ UNCHANGED <<queued, resume>>
             /\ \A f \in Observed :
                  api'[f] = IF f \in fields THEN Merged(f) ELSE api[f]
<1>4. Observed \subseteq ControllerFields
  BY DEF Observed, BastionFields, ControllerFields, ConditionFields, StatusFields
<1> USE <1>4
<1>5. \/ pc = "patchConditions" /\ Carries(ConditionFields)
      \/ pc = "patchSpec" /\ Carries(SpecFields)
      \/ pc = "patchStatus" /\ Carries(StatusFields)
  <2>1. CASE PatchConditions
    <3> USE <2>1
    <3>1. BastionReadyAdmitted
      BY DEF BastionReadyAdmitted, PatchConditions
    <3>2. ConditionFields \in SUBSET ControllerFields
          /\ Send(ConditionFields, BastionReadyAdmitted, FALSE)
      BY Zenon DEF PatchConditions, ConditionFields, ControllerFields
    <3>3. Carries(ConditionFields)
      BY <3>1, <3>2, SendCalmly, Zenon
    <3> QED BY <3>3 DEF PatchConditions
  <2>2. CASE PatchSpec
    <3> USE <2>2
    <3>1. SpecFields \in SUBSET ControllerFields /\ Send(SpecFields, TRUE, FALSE)
      BY Zenon DEF PatchSpec, SpecFields, ControllerFields
    <3>2. Carries(SpecFields)
      BY <3>1, SendCalmly, Zenon
    <3> QED BY <3>2 DEF PatchSpec
  <2>3. CASE PatchStatus
    <3> USE <2>3
    <3>1. StatusFields \in SUBSET ControllerFields
          /\ Send(StatusFields, TRUE, mem.deleting /\ ~mem.finalizer)
      BY Zenon DEF PatchStatus, StatusFields, ControllerFields
    <3>2. Carries(StatusFields)
      BY <3>1, SendCalmly, Zenon
    <3> QED BY <3>2 DEF PatchStatus
  <2> QED BY <2>1, <2>2, <2>3
<1>6. /\ UNCHANGED <<queued, resume>>
      /\ api'.bastionReady = IF pc = "patchConditions" THEN Merged("bastionReady")
                                                       ELSE api.bastionReady
      /\ \A f \in BastionFields :
           api'[f] = IF pc = "patchStatus" THEN Merged(f) ELSE api[f]
      /\ pc' = "patchDone" <=> pc = "patchStatus"
  <2>1. pc' = "patchDone" <=> pc = "patchStatus"
    BY Zenon DEF PatchConditions, PatchSpec, PatchStatus
  <2>2. /\ "bastionReady" \in ConditionFields
        /\ "bastionReady" \notin SpecFields /\ "bastionReady" \notin StatusFields
        /\ \A f \in BastionFields : f \in StatusFields /\ f \notin SpecFields
                                    /\ f \notin ConditionFields
    BY DEF BastionFields, ConditionFields, SpecFields, StatusFields
  <2> QED BY <1>5, <2>1, <2>2
<1> USE <1>6
<1> HIDE DEF Carries
<1>7. Final' <=> Final
  BY DEF Final
<1>8. Fresh'
  <2>1. ~Final => \A f \in Observed : api'[f] = before[f] /\ mem[f] = before[f]
    BY DEF Merged, Observed
  <2> QED BY <1>7, <2>1 DEF Parts, Fresh
<1>9. Ensuring' /\ Dropping' /\ Resting'
  BY DEF Ensuring, Dropping, DropSteps, PatchSteps, Resting
<1>10. Carrying'
  <2>1. Honest(mem)'
    BY <1>1, HonestMemory DEF Parts, Carrying, PatchSteps
  <2>2. ASSUME Final, outcome = "settled" PROVE Fits(mem)'
    <3>1. Fits(mem)
      BY <2>2 DEF Parts, Carrying
    <3> QED BY <3>1 DEF Fits, Clean, Live, cloudVars
  <2>3. ASSUME Final
        PROVE  /\ api'.bastionReady = mem.bastionReady
               /\ \A f \in BastionFields :
                    api'[f] = IF pc' = "patchDone" THEN mem[f] ELSE before[f]
    BY <2>3 DEF Merged
  <2> QED BY <1>7, <2>1, <2>2, <2>3 DEF Carrying
<1> QED BY <1>8, <1>9, <1>10 DEF Parts

\* The reconcile begins after the finalizer is stored, or it ends.
LEMMA PatchDoneStep ==
  ASSUME Footing, Parts, PatchDone
  PROVE  Parts'
<1> USE BastionKindFields
<1>0. /\ pc = "patchDone" /\ UNCHANGED <<api, cache, queued, content>> /\ UNCHANGED cloudVars
      /\ \/ resume = "zones" /\ pc' = "zones" /\ UNCHANGED <<mem, before>>
         \/ resume = "idle" /\ pc' = "idle" /\ UNCHANGED outcome
      /\ resume' = "idle"
  <2>1. resume # "deferred"
    BY DEF Parts, Fresh
  <2> QED BY <2>1, Zenon DEF PatchDone, objectVars, worldVars
<1> USE <1>0
<1>1. Stands /\ Shrinks
  BY StandsStill, StandsShrinks DEF cloudVars
<1>2. Honest(mem)
  BY DEF Parts, Carrying
<1>3. ~Final' /\ Ensuring' /\ Dropping'
  BY DEF Final, PatchSteps, Ensuring, Dropping, DropSteps
<1>4. CASE resume = "zones" /\ pc' = "zones" /\ UNCHANGED <<mem, before>>
  <2> USE <1>4
  <2>1. Honest(mem)'
    BY <1>1, <1>2, HonestMemory
  <2>2. Fresh'
    BY DEF Parts, Fresh, Final
  <2> QED BY <1>3, <2>1, <2>2 DEF Parts, Carrying, Resting
<1>5. CASE resume = "idle" /\ pc' = "idle" /\ UNCHANGED outcome
  <2> USE <1>5
  <2>1. /\ Final /\ \A f \in Observed : api[f] = mem[f]
        /\ mem.enabled = before.enabled
        /\ outcome = "settled" => Fits(mem)
    BY DEF Parts, Fresh, Carrying, Final, PatchSteps, Observed
  <2> USE <2>1
  <2>2. Honest(api)
    BY <1>2 DEF Honest, AtMost, Hashed
  <2>3. Honest(api)'
    BY <1>1, <2>2, HonestObject
  <2>4. Resting'
    <3> SUFFICES ASSUME ~queued, outcome = "settled", \A f \in BastionFields : cache[f] = api[f]
                 PROVE  Fits(cache)'
      BY DEF Resting
    <3>1. before = cache
      BY DEF Footing, RestInv, Snapshot
    <3>2. cache.enabled = mem.enabled /\ \A k \in BastionKinds : cache[k] = mem[k]
      BY <3>1
    <3>3. Fits(cache)
      BY <3>2 DEF Fits
    <3> QED BY <3>3 DEF Fits, Clean, Live, cloudVars
  <2> QED BY <1>3, <2>3, <2>4 DEF Parts, Fresh, Carrying
<1> QED BY <1>4, <1>5

-----------------------------------------------------------------------------
(* Everybody else *)

\* Whoever changes what a reconcile may count on queues the key.
Unheard ==
  /\ UNCHANGED <<pc, mem, before, resume, ids, why, userData, outcome>>
  /\ Stands
  /\ \A f \in Observed : api'[f] = api[f]
  /\ queued => queued'
  /\ queued' \/ UNCHANGED <<cache, content>>

LEMMA UnheardStep ==
  ASSUME Parts, Unheard
  PROVE  Parts'
<1> USE BastionKindFields
<1>0. \A k \in BastionKinds : \A i : <<k, i>> \in Live' <=> <<k, i>> \in Live
  <2>1. \A k \in BastionKinds : \A i :
          <<k, i>> \in Live \/ <<k, i>> \in Live' => i \in IDs
    BY DEF Live, Resources
  <2> QED BY <2>1, Zenon DEF Unheard, Stands
<1> USE <1>0
<1>1. bootData' = bootData /\ (Final' <=> Final) /\ (Clean' <=> Clean)
  BY DEF Unheard, Stands, Final, Clean
<1> USE <1>1
<1>2. Fresh'
  <2>1. pc = "idle" => Honest(api)'
    BY StandsShrinks, HonestObject DEF Unheard, Parts, Fresh
  <2> QED BY <2>1 DEF Unheard, Parts, Fresh
<1>3. Ensuring'
  <2>1. AtMost("server", mem.server) => AtMost("server", mem.server)'
    BY DEF Unheard, AtMost
  <2>2. AtMost("server", ids.server) => AtMost("server", ids.server)'
    BY DEF Unheard, AtMost
  <2>3. Hashed(mem) => Hashed(mem)'
    BY DEF Unheard, Hashed
  <2>4. pc \in {"ensureSG", "ensureServer", "ensureIP"} =>
          /\ mem'.enabled /\ ~NeedsRecreate(mem', userData')
          /\ queued' \/ userData' = content'
    BY DEF Unheard, Parts, Ensuring, NeedsRecreate, HasBastionStatus
  <2> QED BY <2>1, <2>2, <2>3, <2>4 DEF Unheard, Parts, Ensuring
<1>4. Dropping'
  <2>1. \A k \in BastionKinds : AtMost(k, ids[k]) => AtMost(k, ids[k])'
    BY DEF Unheard, AtMost
  <2> QED BY <2>1 DEF Unheard, Parts, Dropping
<1>5. Carrying'
  <2>1. Honest(mem) => Honest(mem)'
    BY StandsShrinks, HonestMemory DEF Unheard
  <2>2. Fits(mem) => Fits(mem)'
    BY DEF Unheard, Fits
  <2>3. api'.bastionReady = api.bastionReady /\ \A f \in BastionFields : api'[f] = api[f]
    BY DEF Unheard
  <2> QED BY <2>1, <2>2, <2>3 DEF Unheard, Parts, Carrying
<1>6. Resting'
  <2> SUFFICES ASSUME pc = "idle", ~queued', outcome = "settled"
               PROVE  ((\E f \in BastionFields : cache[f] # api[f]) \/ Fits(cache))'
    BY DEF Unheard, Resting
  <2>1. ~queued /\ UNCHANGED <<cache, content>>
    BY DEF Unheard
  <2> USE <2>1
  <2>2. (\E f \in BastionFields : cache[f] # api[f]) \/ Fits(cache)
    BY DEF Parts, Resting
  <2>3. Fits(cache) => Fits(cache)'
    BY DEF Fits
  <2>4. \A f \in BastionFields : api'[f] = api[f]
    BY DEF Unheard
  <2> QED BY <2>2, <2>3, <2>4
<1> QED BY <1>2, <1>3, <1>4, <1>5, <1>6 DEF Parts

\* What the cloud does by itself, and what the machines make it do.
LEMMA CloudStands ==
  ASSUME TypeInv, GrantNodeSSH \/ \E r \in Resources : ResourceChanges(r)
  PROVE  Stands
<1>0. state \in [Resources -> States] /\ \A k \in BastionKinds, i \in IDs : <<k, i>> \in Resources
  BY DEF TypeInv, CloudTyped, Resources, Kinds, BastionKinds
<1> USE <1>0
<1>1. CASE GrantNodeSSH
  <2>1. bootData' = bootData /\ \E i \in IDs : state' = [state EXCEPT ![<<"nodeSG", i>>] = "up"]
    BY <1>1, Zenon DEF GrantNodeSSH
  <2> QED BY <2>1 DEF Stands, Live, BastionKinds
<1>2. ASSUME NEW r \in Resources, ResourceChanges(r) PROVE Stands
  <2> USE <1>2
  <2>1. bootData' = bootData
    BY DEF ResourceChanges
  <2>2. \A q \in Resources : q \in Live' <=> q \in Live
    BY DEF ResourceChanges, Live
  <2> QED BY <2>1, <2>2 DEF Stands
<1> QED BY <1>1, <1>2

Others ==
  \/ UNCHANGED vars \/ Observe \/ WatchEvent \/ ToggleBastion \/ EditContent
  \/ MachinesChange \/ GrantNodeSSH \/ \E r \in Resources : ResourceChanges(r)

LEMMA OthersUnheard ==
  ASSUME Footing, cache.exists, Others
  PROVE  Unheard
<1>0. TypeInv /\ api \in Objects
  BY DEF Footing, TypeInv, StoredTyped
<1>1. UNCHANGED reconcileVars /\ UNCHANGED outcome
  BY Zenon DEF Others, Observe, WatchEvent, ToggleBastion, EditContent, Edit,
     MachinesChange, GrantNodeSSH, ResourceChanges, vars
<1>2. Stands
  <2>1. CASE GrantNodeSSH \/ \E r \in Resources : ResourceChanges(r)
    BY <1>0, <2>1, CloudStands
  <2>2. CASE UNCHANGED cloudVars
    BY <2>2, StandsStill DEF cloudVars
  <2> QED BY <2>1, <2>2, Zenon DEF Others, Observe, WatchEvent, ToggleBastion, EditContent,
     Edit, MachinesChange, vars
<1>3. \A f \in Observed : api'[f] = api[f]
  <2>1. api' = api \/ api' = [api EXCEPT !.enabled = ~@]
    BY Zenon DEF Others, Observe, WatchEvent, ToggleBastion, EditContent, Edit,
     MachinesChange, GrantNodeSSH, ResourceChanges, vars, objectVars
  <2>2. \A f \in Observed : [api EXCEPT !.enabled = ~@][f] = api[f]
    BY <1>0 DEF Observed, BastionFields, Objects
  <2> QED BY <2>1, <2>2, Zenon
<1>4. (queued => queued') /\ (queued' \/ UNCHANGED <<cache, content>>)
  <2>1. CASE EditContent
    BY <2>1, Zenon DEF EditContent
  <2>2. CASE Observe \/ WatchEvent
    BY <2>2 DEF Observe, WatchEvent
  <2>3. CASE \/ UNCHANGED vars \/ ToggleBastion \/ MachinesChange \/ GrantNodeSSH
             \/ \E r \in Resources : ResourceChanges(r)
    <3>1. UNCHANGED <<queued, cache, content>>
      BY <2>3, Zenon DEF ToggleBastion, Edit, MachinesChange, GrantNodeSSH, ResourceChanges,
         vars, objectVars, worldVars
    <3> QED BY <3>1
  <2> QED BY <2>1, <2>2, <2>3, Zenon DEF Others
<1> QED BY <1>1, <1>2, <1>3, <1>4 DEF Unheard, reconcileVars, callVars

-----------------------------------------------------------------------------
(* The theorems *)

LEMMA BastionStep ==
  ASSUME Footing, ~StaleReads, BastionInv, [Next]_vars
  PROVE  BastionInv'
<1> SUFFICES ASSUME Calmly' PROVE Parts'
  BY DEF BastionInv, Parts
<1>0. /\ Parts /\ LabelInv /\ ~Fault
      /\ api.exists /\ ~api.deleting /\ ~mem.deleting /\ ~cache.deleting /\ cache.exists
  BY CalmBefore DEF BastionInv, Parts
<1> USE <1>0
<1>1. CASE Front
  BY <1>1, FrontStep
<1>2. CASE ReconcileBastion \/ EnsureSecurityGroup \/ EnsureServer \/ EnsurePublicIP
  BY <1>2, ReconcileBastionStep, EnsureSGStep, EnsureServerStep, EnsureIPStep
<1>3. CASE Drops
  BY <1>3, DropNodeSSHStep, ResolveStep, DropServerIPStep, DropSGStep DEF Drops
<1>4. CASE AwaitMachines \/ DeleteLoadBalancer \/ DeleteNetwork
  <2>1. pc \in {"machines", "deleteLB", "deleteNetwork"}
    BY <1>4, Zenon DEF AwaitMachines, DeleteLoadBalancer, DeleteNetwork
  <2> QED BY <2>1 DEF Footing, RestInv, Halves, Direction
<1>5. CASE PatchConditions \/ PatchSpec \/ PatchStatus \/ PatchDone
  BY <1>5, PatchStep, PatchDoneStep
<1>6. CASE ReconcileActive
  BY <1>6, ActiveStep
<1>7. ~ReconcileNothing /\ ~Restart /\ \A r \in Resources : ~DeleteOutOfBand(r)
  BY Zenon DEF ReconcileNothing, Restart, DeleteOutOfBand
<1>8. ~DeleteObject
  <2>1. ASSUME DeleteObject PROVE Going'
    <3>1. api \in Objects
      BY DEF Footing, TypeInv, StoredTyped
    <3>2. [api EXCEPT !.deleting = TRUE].deleting /\ ~NoObject.exists
      BY <3>1, NoObjectMeta DEF Objects, Footing, TypeInv, WorldTyped
    <3>3. api' = [api EXCEPT !.deleting = TRUE] \/ api' = NoObject
      BY <2>1, Zenon DEF DeleteObject, Collected
    <3> QED BY <3>2, <3>3, Zenon DEF Going
  <2> QED BY <2>1 DEF Calmly
<1>9. ~EditLabels
  BY CalmBefore DEF EditLabels, Edit, Calmly, LabelsFixed
<1>10. CASE Others
  BY <1>10, OthersUnheard, UnheardStep
<1> QED BY <1>1, <1>2, <1>3, <1>4, <1>5, <1>6, <1>7, <1>8, <1>9, <1>10
        DEF Next, Reconcile, Front, Drops, Others

LEMMA BastionInitially == Init => Footing /\ BastionInv
<1> SUFFICES ASSUME Init PROVE Footing /\ BastionInv
  OBVIOUS
<1>1. TypeInv /\ KeepInv /\ RestInv /\ LabelInv
  BY InitTyped, KeepInvInitially, RestInit, LabelsInitially
<1>2. CacheFirst
  BY DEF Init, CacheFirst
<1>3. \A k \in BastionKinds : \A i \in IDs : state[<<k, i>>] = "none"
  BY DEF Init, Resources, Kinds, BastionKinds
<1>4. AtOnce
  BY <1>3 DEF AtOnce, BastionKinds
<1>5. Honest(api)
  BY <1>3 DEF Honest, AtMost, Hashed, Clean, Live, BastionKinds
<1>6. pc = "idle" /\ resume = "idle" /\ queued
  BY DEF Init
<1>7. Fresh /\ Ensuring /\ Dropping /\ Carrying /\ Resting
  BY <1>5, <1>6 DEF Fresh, Ensuring, Dropping, DropSteps, Carrying, Final, PatchSteps, Resting
<1> QED BY <1>1, <1>2, <1>4, <1>7 DEF Footing, BastionInv

\* While no call fails, nobody edits the labels and the cluster is not being
\* deleted, a reconcile that reads the latest object finds the bastion it has to
\* keep or to drop on record, and whatever it leaves behind is recorded by its
\* PatchObject, however the switch and the document change in between.
THEOREM BastionInvariant == ~StaleReads => (Spec => []BastionInv)
<1> SUFFICES ASSUME ~StaleReads PROVE Spec => []BastionInv
  OBVIOUS
<1>1. Footing /\ BastionInv /\ [Next]_vars => (Footing /\ BastionInv)'
  BY Afoot, BastionStep
<1> QED BY <1>1, BastionInitially, PTL DEF Spec

\* A calm controller at rest after a reconcile that ended well.
LEMMA RestsFitting ==
  ASSUME BastionInv, Undisturbed, Quiet, ~api.deleting, outcome = "settled"
  PROVE  Fits(api) /\ Honest(api)
<1>1. Calmly
  BY DEF Undisturbed, Quiet, Calmly, LabelsFixed, Going
<1> QED BY <1>1 DEF BastionInv, Fresh, Resting, Quiet

\* BastionFollowsSpec for any number of edits of the switch and the document,
\* when reconciles read what was written last: the bastion that reconcileBastion
\* leaves is the one that spec.bastion.enabled asks for.
THEOREM BastionFollows == ~StaleReads => (Spec => []BastionFollowsSpec)
<1> SUFFICES ASSUME ~StaleReads PROVE Spec => []BastionFollowsSpec
  OBVIOUS
<1>1. BastionInv => BastionFollowsSpec
  <2> SUFFICES ASSUME Fits(api)
               PROVE  IF api.enabled
                        THEN \A k \in BastionKinds : <<k, api[k]>> \in Live
                        ELSE \A r \in Live : r[1] \notin BastionKinds
    BY RestsFitting DEF BastionFollowsSpec
  <2>1. CASE api.enabled
    BY <2>1 DEF Fits
  <2>2. CASE ~api.enabled
    BY <2>2 DEF Fits, Clean, Live, Resources
  <2> QED BY <2>1, <2>2
<1> QED BY <1>1, BastionInvariant, PTL

\* HashDescribesServer in the same generality: the recorded hash is the one of
\* the document the bastion server booted with, which is the present one.
THEOREM HashDescribes == ~StaleReads => (Spec => []HashDescribesServer)
<1> SUFFICES ASSUME ~StaleReads PROVE Spec => []HashDescribesServer
  OBVIOUS
<1>1. BastionInv => HashDescribesServer
  <2> SUFFICES ASSUME Fits(api), Honest(api), Quiet, api.enabled
               PROVE  /\ api.hash = CloudInitHash(bootData[api.server])
                      /\ bootData[api.server] = content
    BY RestsFitting DEF HashDescribesServer
  <2>1. <<"server", api.server>> \in Live /\ bootData[api.server] = content
    BY BastionKindFields DEF Fits, Quiet
  <2>2. api.server \in IDs
    BY <2>1 DEF Live, Resources
  <2> QED BY <2>1, <2>2 DEF Honest, Hashed
<1> QED BY <1>1, BastionInvariant, PTL
=============================================================================
