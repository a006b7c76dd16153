------------------------- MODULE StackitClusterRest -------------------------
(***************************************************************************)
(* What the cluster controller rests on, what its handlers write, create   *)
(* and delete, and that there is one resource of a kind: proofs about      *)
(* StackitCluster with every disturbance the model knows.                  *)
(***************************************************************************)
EXTENDS StackitClusterProofs

-----------------------------------------------------------------------------
(* The inductive invariant *)

NormalSteps ==
  {"zones", "network", "loadBalancer", "targets", "bastion", "ensureSG", "ensureServer",
   "ensureIP"}

DropSteps == {"dropNodeSSH", "resolveBastion", "dropServer", "dropIP", "dropSG"}

PatchSteps == {"patchConditions", "patchSpec", "patchStatus", "patchDone"}

\* The fields only the controller writes, by the request that carries them.
ConditionFields == {"lbReady", "bastionReady", "readyCond"}

SpecFields == {"finalizer", "endpoint"}

StatusFields == {"network", "lbID", "server", "ip", "sg", "hash", "ready", "provisioned"}

ControllerFields == ConditionFields \cup SpecFields \cup StatusFields

\* Everything in front of the bastion is done.
Based(o) == o.endpoint /\ (LoadBalancer => o.lbReady = "True" /\ o.lbID = LoadBalancerID)

\* The published status of an object that is not deleted is complete.
Published(o) == Based(o) /\ o.ready /\ o.provisioned /\ o.readyCond = "True"

\* What the outcome of a reconcile that will not be repeated says of the object
\* it read.
Justified(o) ==
  IF o.deleting
    THEN outcome \in {"paused", "orphaned"}
    ELSE outcome = "settled" => Published(o)

\* The informer still has to deliver what the controller wrote.
Behind == ~api.exists \/ \E f \in ControllerFields : api[f] # cache[f]

\* The running PatchObject has taken care of the fields.
Carried(fields) ==
  ~queued => \A f \in fields : ~api.exists \/ mem[f] = before[f] \/ api[f] = mem[f]

\* The running reconcile works on the object it read, which is still the
\* informer's copy unless the key was queued again.
Snapshot ==
  pc # "idle" =>
    /\ before.exists
    /\ mem.deleting = before.deleting
    /\ queued \/ before = cache

\* The two halves of a reconcile never mix, although both drop the bastion.
Direction ==
  /\ pc \in NormalSteps => ~mem.deleting
  /\ pc \in {"machines", "deleteLB", "deleteNetwork"} => mem.deleting
  /\ pc \in DropSteps => (mem.deleting <=> why = "delete")

Halves ==
  /\ Direction
  /\ resume # "idle" => pc \in PatchSteps /\ ~mem.deleting
  /\ resume = "deferred" => queued

\* The calls after the load balancer.
BastionSteps == {"bastion", "ensureSG", "ensureServer", "ensureIP"}

Progress ==
  /\ pc \in BastionSteps => Based(mem)
  /\ pc \in DropSteps /\ ~mem.deleting => Based(mem)
  /\ pc = "targets" => LoadBalancer /\ mem.endpoint /\ mem.lbID = LoadBalancerID

\* What the working copy says when the handler has returned.
Ended ==
  /\ outcome \in {"retry", "waiting", "settled"}
  /\ outcome = "retry" => queued
  /\ outcome = "waiting" => ~mem.deleting
  /\ outcome = "settled" => IF mem.deleting THEN ~mem.finalizer ELSE Published(mem)

Returned == pc \in PatchSteps /\ resume = "idle" => Ended

\* Only a finalizer keeps a deleted object, and nobody takes an endpoint back.
Stored(o) ==
  o.exists =>
    /\ o.deleting => o.finalizer
    /\ ~LoadBalancer => o.endpoint

AllStored == Stored(api) /\ Stored(cache)

Endpoints == pc # "idle" /\ ~LoadBalancer => before.endpoint /\ mem.endpoint

\* The fields before the next request of PatchObject are taken care of.
Sent ==
  /\ pc \in {"patchSpec", "patchStatus", "patchDone"} => Carried(ConditionFields)
  /\ pc \in {"patchStatus", "patchDone"} => Carried(SpecFields)
  /\ pc = "patchDone" => Carried(StatusFields)

\* A controller at rest has its reasons, or there is something to observe.
Rests == pc = "idle" /\ ~queued => ~cache.exists \/ Behind \/ Justified(cache)

RestInv ==
  AllStored /\ Endpoints /\ Snapshot /\ Halves /\ Progress /\ Returned /\ Sent /\ Rests

-----------------------------------------------------------------------------
(* What is recorded is there, while nobody deletes it in the portal *)

DeletionSeen == cache.deleting \/ ~cache.exists

\* The load balancer is torn down only by a reconcile that saw the deletion,
\* and networks are gone at once.
TornLast ==
  /\ ~cache.exists => ~api.exists
  /\ pc # "idle" /\ mem.deleting => DeletionSeen
  /\ \A i \in IDs : state[<<"network", i>>] # "deleting"
  /\ state[<<"lb", LoadBalancerID>>] = "deleting" =>
       DeletionSeen /\ (pc # "idle" => mem.deleting)

HasNetwork(o) == <<"network", o.network>> \in Live

HasLoadBalancer == LoadBalancer => <<"lb", LoadBalancerID>> \in Live

\* The handler returned well, or is past the load balancer.
PastLoadBalancer ==
  \/ pc \in BastionSteps
  \/ pc \in DropSteps /\ ~mem.deleting
  \/ pc \in PatchSteps /\ resume = "idle" /\ outcome = "settled" /\ ~mem.deleting

Backed ==
  /\ pc \in {"loadBalancer", "targets"} => HasNetwork(mem)
  /\ pc = "targets" => HasLoadBalancer
  /\ PastLoadBalancer => HasNetwork(mem) /\ HasLoadBalancer
  /\ pc = "idle" /\ ~queued /\ cache.exists /\ ~cache.deleting /\ outcome = "settled" =>
       Behind \/ (HasNetwork(cache) /\ HasLoadBalancer)

BackedInv == TornLast /\ Backed

-----------------------------------------------------------------------------
(* Steps that do not run the handlers *)

\* What somebody else may do to the object: delete it, edit its spec, and with
\* its last finalizer it disappears.
Spared ==
  \/ ~api'.exists
  \/ api'.exists = api.exists /\ \A f \in ControllerFields : api'[f] = api[f]

LEMMA BystanderRests ==
  ASSUME RestInv, Spared, AllStored', queued => queued',
         UNCHANGED <<cache, pc, mem, before, resume, why, outcome, mode>>
  PROVE  RestInv'
<1>1. Snapshot' /\ Halves' /\ Endpoints'
  BY DEF RestInv, Snapshot, Halves, Direction, Endpoints, LoadBalancer
<1>2. Progress' /\ Returned'
  BY DEF RestInv, Progress, Returned, Ended, Published, Based, LoadBalancer
<1>3. ASSUME NEW fields \in SUBSET ControllerFields, Carried(fields)
      PROVE  Carried(fields)'
  BY <1>3 DEF Carried, Spared
<1>4. Sent'
  BY <1>3 DEF RestInv, Sent, ControllerFields
<1>5. Rests'
  BY DEF RestInv, Rests, Behind, Justified, Published, Based, LoadBalancer, Spared
<1> QED BY <1>1, <1>2, <1>4, <1>5 DEF RestInv

\* The informer, or a watch, queues the key.
LEMMA QueuedRests ==
  ASSUME RestInv, AllStored', queued' = TRUE,
         UNCHANGED <<pc, mem, before, resume, why, outcome, mode>>
  PROVE  RestInv'
<1>1. Snapshot' /\ Halves' /\ Endpoints'
  BY DEF RestInv, Snapshot, Halves, Direction, Endpoints, LoadBalancer
<1>2. Progress' /\ Returned'
  BY DEF RestInv, Progress, Returned, Ended, Published, Based, LoadBalancer
<1>3. Sent' /\ Rests'
  BY DEF Sent, Carried, Rests
<1> QED BY <1>1, <1>2, <1>3 DEF RestInv

-----------------------------------------------------------------------------
(* The handlers *)

HandlerSteps == NormalSteps \cup DropSteps \cup {"machines", "deleteLB", "deleteNetwork"}

Unmoved == UNCHANGED <<api, cache, before, mode>>

\* The reconcile goes on with its next call,
GoesOn ==
  /\ mem'.deleting = mem.deleting
  /\ mem.endpoint => mem'.endpoint
  /\ UNCHANGED <<resume, queued, outcome>>
  /\ pc' \in HandlerSteps
  /\ Direction'
  /\ Progress'

\* or the handler returns.
Returns ==
  /\ mem'.deleting = mem.deleting
  /\ mem.endpoint => mem'.endpoint
  /\ queued => queued'
  /\ pc' = "patchConditions"
  /\ resume' = "idle"
  /\ Ended'

LEMMA HandlerRests ==
  ASSUME RestInv, Unmoved, pc \in HandlerSteps, GoesOn \/ Returns
  PROVE  RestInv'
<1> USE DEF HandlerSteps, NormalSteps, DropSteps, PatchSteps, Unmoved
<1>1. pc # "idle" /\ pc' # "idle" /\ resume = "idle"
  BY DEF RestInv, Halves, GoesOn, Returns
<1>2. AllStored'
  BY DEF RestInv, AllStored, Stored, LoadBalancer
<1>3. Snapshot'
  BY <1>1 DEF RestInv, Snapshot, GoesOn, Returns
<1>4. Endpoints'
  BY <1>1 DEF RestInv, Endpoints, LoadBalancer, GoesOn, Returns
<1>5. Halves'
  BY <1>1 DEF RestInv, Halves, Direction, GoesOn, Returns
<1>6. Progress'
  BY <1>1 DEF Progress, GoesOn, Returns, BastionSteps
<1>7. Returned'
  BY <1>1 DEF Returned, GoesOn, Returns
<1>8. Sent' /\ Rests'
  BY <1>1 DEF Sent, Rests, GoesOn, Returns
<1> QED BY <1>2, <1>3, <1>4, <1>5, <1>6, <1>7, <1>8 DEF RestInv

\* What the rest of a reconcile reads of the working copy.
SameBase(m, o) ==
  /\ m.deleting = o.deleting
  /\ m.endpoint = o.endpoint
  /\ m.lbReady = o.lbReady
  /\ m.lbID = o.lbID
  /\ m.network = o.network

LEMMA BaseKept ==
  ASSUME NEW o \in Objects, NEW c
  PROVE  /\ SameBase([o EXCEPT !.bastionReady = c], o)
         /\ SameBase([o EXCEPT !.ready = FALSE, !.readyCond = "False"], o)
         /\ SameBase([o EXCEPT !.ready = TRUE, !.provisioned = TRUE,
                               !.readyCond = "True"], o)
         /\ SameBase(WithoutBastion(o), o)
         /\ SameBase(o, o)
<1>1. SameBase([o EXCEPT !.bastionReady = c], o)
  BY DEF SameBase, Objects
<1>2. SameBase([o EXCEPT !.ready = FALSE, !.readyCond = "False"], o)
  BY DEF SameBase, Objects
<1>3. SameBase([o EXCEPT !.ready = TRUE, !.provisioned = TRUE, !.readyCond = "True"], o)
  BY DEF SameBase, Objects
<1>4. SameBase(WithoutBastion(o), o)
  BY DEF SameBase, Objects, WithoutBastion
<1> QED BY <1>1, <1>2, <1>3, <1>4 DEF SameBase

LEMMA RetryReturns ==
  ASSUME NEW m, Return(m, "retry"), m.deleting = mem.deleting,
         mem.endpoint => m.endpoint
  PROVE  Returns
  BY Zenon DEF Return, Returns, Ended

LEMMA CloudFailsReturns ==
  ASSUME NEW m \in Objects, NEW err, CloudFails(m, err), ~mem.deleting,
         m.deleting = mem.deleting, mem.endpoint => m.endpoint
  PROVE  Returns
<1> DEFINE o == [m EXCEPT !.ready = FALSE, !.readyCond = "False"]
<1>1. o.deleting = m.deleting /\ o.endpoint = m.endpoint
  BY BaseKept, Zenon DEF SameBase
<1>2. PICK how \in {"retry", "waiting"} : Return(o, how)
  BY Zenon DEF CloudFails
<1> HIDE DEF o
<1> QED BY <1>1, <1>2, Zenon DEF Return, Returns, Ended

LEMMA SetReadyReturns ==
  ASSUME NEW m \in Objects, SetReady(m), ~mem.deleting, SameBase(m, mem), Based(mem),
         mode' = mode
  PROVE  Returns
<1> DEFINE o == [m EXCEPT !.ready = TRUE, !.provisioned = TRUE, !.readyCond = "True"]
<1>1. SameBase(o, m)
  BY BaseKept, Zenon
<1>2. o.ready = TRUE /\ o.provisioned = TRUE /\ o.readyCond = "True"
  BY DEF Objects
<1>3. Return(o, "settled")
  BY Zenon DEF SetReady
<1> HIDE DEF o
<1>4. SameBase(mem', mem) /\ mem'.ready /\ mem'.provisioned /\ mem'.readyCond = "True"
  BY <1>1, <1>2, <1>3 DEF Return, SameBase
<1>5. Published(mem)'
  BY <1>4 DEF Published, Based, LoadBalancer, SameBase
<1> QED BY <1>3, <1>4, <1>5, Zenon DEF Return, Returns, Ended, SameBase

\* Going on inside reconcileNormal.
LEMMA NormalGoesOn ==
  ASSUME NEW m, NEW next \in {"network", "loadBalancer"}, Continue(m, next),
         ~mem.deleting, m.deleting = mem.deleting, mem.endpoint => m.endpoint
  PROVE  GoesOn
<1> USE DEF HandlerSteps, NormalSteps, DropSteps, BastionSteps
<1>1. mem' = m /\ pc' = next /\ UNCHANGED <<resume, queued, outcome>>
  BY DEF Continue
<1>2. Direction' /\ Progress'
  BY <1>1 DEF Direction, Progress
<1> QED BY <1>1, <1>2 DEF GoesOn

LEMMA NetworkHandled ==
  ASSUME TypeInv, ~mem.deleting, CheckZones \/ EnsureNetwork
  PROVE  GoesOn \/ Returns
<1>0. mem \in Objects
  BY DEF TypeInv, MoveTyped
<1>1. ASSUME NEW i, Continue([mem EXCEPT !.network = i], "loadBalancer")
      PROVE  GoesOn
  <2> DEFINE m == [mem EXCEPT !.network = i]
  <2>1. m.deleting = mem.deleting /\ m.endpoint = mem.endpoint
    BY <1>0 DEF Objects
  <2>2. Continue(m, "loadBalancer")
    BY <1>1
  <2> HIDE DEF m
  <2> QED BY <2>1, <2>2, NormalGoesOn
<1>2. ASSUME NEW err, CloudFails(mem, err)
      PROVE  Returns
  BY <1>0, <1>2, CloudFailsReturns
<1>3. ASSUME NEW next \in {"network", "loadBalancer"}, Continue(mem, next)
      PROVE  GoesOn
  BY <1>3, NormalGoesOn
<1>4. \/ \E i : Continue([mem EXCEPT !.network = i], "loadBalancer")
      \/ \E err : CloudFails(mem, err)
      \/ \E next \in {"network", "loadBalancer"} : Continue(mem, next)
  BY Zenon DEF CheckZones, EnsureNetwork
<1> QED BY <1>1, <1>2, <1>3, <1>4, Zenon

\* The load balancer condition, set on the working copy or on top of the ID.
LEMMA LoadBalancerFields ==
  ASSUME NEW o \in Objects, NEW c
  PROVE  /\ [o EXCEPT !.lbReady = c].deleting = o.deleting
         /\ [o EXCEPT !.lbReady = c].endpoint = o.endpoint
         /\ [o EXCEPT !.lbReady = c].lbID = o.lbID
         /\ [o EXCEPT !.lbReady = c].lbReady = c
         /\ [o EXCEPT !.lbReady = c].network = o.network
         /\ [o EXCEPT !.lbID = c].deleting = o.deleting
         /\ [o EXCEPT !.lbID = c].endpoint = o.endpoint
         /\ [o EXCEPT !.lbID = c].lbID = c
         /\ [o EXCEPT !.lbID = c].network = o.network
         /\ [o EXCEPT !.endpoint = c].deleting = o.deleting
         /\ [o EXCEPT !.endpoint = c].lbID = o.lbID
         /\ [o EXCEPT !.endpoint = c].endpoint = c
         /\ [o EXCEPT !.endpoint = c].network = o.network
<1>1. /\ [o EXCEPT !.lbReady = c].deleting = o.deleting
      /\ [o EXCEPT !.lbReady = c].endpoint = o.endpoint
      /\ [o EXCEPT !.lbReady = c].lbID = o.lbID
      /\ [o EXCEPT !.lbReady = c].lbReady = c
      /\ [o EXCEPT !.lbReady = c].network = o.network
  BY DEF Objects
<1>2. /\ [o EXCEPT !.lbID = c].deleting = o.deleting
      /\ [o EXCEPT !.lbID = c].endpoint = o.endpoint
      /\ [o EXCEPT !.lbID = c].lbID = c
      /\ [o EXCEPT !.lbID = c].network = o.network
  BY DEF Objects
<1>3. /\ [o EXCEPT !.endpoint = c].deleting = o.deleting
      /\ [o EXCEPT !.endpoint = c].lbID = o.lbID
      /\ [o EXCEPT !.endpoint = c].endpoint = c
      /\ [o EXCEPT !.endpoint = c].network = o.network
  BY DEF Objects
<1> QED BY <1>1, <1>2, <1>3

LEMMA LoadBalancerHandled ==
  ASSUME TypeInv, RestInv, EnsureLoadBalancer \/ SetTargets
  PROVE  GoesOn \/ Returns
<1> DEFINE found == [mem EXCEPT !.lbID = LoadBalancerID]
<1>0. /\ mem \in Objects /\ pc \in {"loadBalancer", "targets"} /\ mode' = mode
      /\ EnsureLoadBalancer => pc = "loadBalancer"
      /\ SetTargets => pc = "targets"
  BY Zenon DEF TypeInv, MoveTyped, EnsureLoadBalancer, SetTargets, worldVars
<1>1. ~mem.deleting
  BY <1>0 DEF RestInv, Halves, Direction, NormalSteps
<1>2. found \in Objects /\ found.deleting = mem.deleting /\ found.endpoint = mem.endpoint
  BY <1>0, IDFacts, SetIDs, LoadBalancerFields, Zenon DEF RecordedIDs
<1>3. \/ Return([mem EXCEPT !.lbReady = "False"], "retry")
      \/ CloudFails([found EXCEPT !.lbReady = "False"], "retryable")
      \/ LoadBalancer /\ Continue([found EXCEPT !.endpoint = TRUE], "targets")
      \/ \E err : CloudFails([mem EXCEPT !.lbReady = "False"], err)
      \/ /\ pc = "loadBalancer" /\ ~LoadBalancer
         /\ Continue([mem EXCEPT !.lbReady = "Skipped"], "bastion")
      \/ pc = "targets" /\ Continue([mem EXCEPT !.lbReady = "True"], "bastion")
  BY Zenon DEF EnsureLoadBalancer, SetTargets
<1>4. found.lbID = LoadBalancerID
  BY <1>0, LoadBalancerFields, Zenon
<1> HIDE DEF found
<1>5. ASSUME Return([mem EXCEPT !.lbReady = "False"], "retry")
      PROVE  Returns
  <2>1. /\ [mem EXCEPT !.lbReady = "False"].deleting = mem.deleting
        /\ [mem EXCEPT !.lbReady = "False"].endpoint = mem.endpoint
    BY <1>0, LoadBalancerFields, Zenon
  <2> QED BY <1>5, <2>1, RetryReturns, Zenon
<1>6. ASSUME NEW o \in Objects, NEW err, o.deleting = mem.deleting,
             o.endpoint = mem.endpoint, CloudFails([o EXCEPT !.lbReady = "False"], err)
      PROVE  Returns
  <2> DEFINE m == [o EXCEPT !.lbReady = "False"]
  <2>1. m \in Objects /\ m.deleting = mem.deleting /\ m.endpoint = mem.endpoint
    BY <1>6, SetConditions, LoadBalancerFields, Zenon DEF ConditionStatus
  <2>2. CloudFails(m, err)
    BY <1>6
  <2> HIDE DEF m
  <2> QED BY <1>1, <2>1, <2>2, CloudFailsReturns
<1>7. ASSUME LoadBalancer, Continue([found EXCEPT !.endpoint = TRUE], "targets")
      PROVE  GoesOn
  <2> DEFINE m == [found EXCEPT !.endpoint = TRUE]
  <2>1. m.deleting = mem.deleting /\ m.endpoint = TRUE /\ m.lbID = LoadBalancerID
    BY <1>2, <1>4, LoadBalancerFields, Zenon
  <2>2. Continue(m, "targets")
    BY <1>7
  <2> HIDE DEF m
  <2>3. Direction' /\ Progress'
    BY <1>0, <1>1, <1>7, <2>1, <2>2, Zenon
       DEF Continue, Direction, Progress, LoadBalancer, NormalSteps, DropSteps, BastionSteps
  <2> QED BY <2>1, <2>2, <2>3 DEF Continue, GoesOn, HandlerSteps, NormalSteps
<1>8. ASSUME NEW c \in {"Skipped", "True"}, Continue([mem EXCEPT !.lbReady = c], "bastion"),
             Based([mem EXCEPT !.lbReady = c])
      PROVE  GoesOn
  <2> DEFINE m == [mem EXCEPT !.lbReady = c]
  <2>1. m.deleting = mem.deleting /\ m.endpoint = mem.endpoint
    BY <1>0, LoadBalancerFields, Zenon
  <2>2. Continue(m, "bastion") /\ Based(m)
    BY <1>8
  <2> HIDE DEF m
  <2>3. Based(mem)'
    BY <1>0, <2>2 DEF Continue, Based, LoadBalancer
  <2>4. Direction' /\ Progress'
    BY <1>1, <2>1, <2>2, <2>3
       DEF Continue, Direction, Progress, NormalSteps, DropSteps, BastionSteps
  <2> QED BY <2>1, <2>2, <2>4 DEF Continue, GoesOn, HandlerSteps, NormalSteps
<1>9. ASSUME pc = "loadBalancer", ~LoadBalancer
      PROVE  Based([mem EXCEPT !.lbReady = "Skipped"])
  <2>1. mem.endpoint
    BY <1>9 DEF RestInv, Endpoints
  <2>2. [mem EXCEPT !.lbReady = "Skipped"].endpoint = mem.endpoint
    BY <1>0, LoadBalancerFields, Zenon
  <2> QED BY <1>9, <2>1, <2>2, Zenon DEF Based
<1>10. ASSUME pc = "targets"
       PROVE  Based([mem EXCEPT !.lbReady = "True"])
  <2>1. mem.endpoint /\ mem.lbID = LoadBalancerID
    BY <1>10 DEF RestInv, Progress
  <2>2. /\ [mem EXCEPT !.lbReady = "True"].endpoint = mem.endpoint
        /\ [mem EXCEPT !.lbReady = "True"].lbID = mem.lbID
        /\ [mem EXCEPT !.lbReady = "True"].lbReady = "True"
    BY <1>0, LoadBalancerFields, Zenon
  <2> QED BY <2>1, <2>2, Zenon DEF Based
<1> QED BY <1>0, <1>2, <1>3, <1>5, <1>6, <1>7, <1>8, <1>9, <1>10, Zenon

\* Going on with the bastion, which leaves the working copy alone.
LEMMA BastionGoesOn ==
  ASSUME NEW next \in BastionSteps \cup DropSteps, Continue(mem, next),
         ~mem.deleting, Based(mem), mode' = mode,
         next \in DropSteps => why' # "delete"
  PROVE  GoesOn
<1> USE DEF HandlerSteps, NormalSteps, DropSteps, BastionSteps
<1>1. mem' = mem /\ pc' = next /\ UNCHANGED <<resume, queued, outcome>>
  BY DEF Continue
<1>2. Direction' /\ Progress'
  BY <1>1 DEF Direction, Progress, Based, LoadBalancer
<1> QED BY <1>1, <1>2 DEF GoesOn

LEMMA ReconcileBastionHandled ==
  ASSUME TypeInv, ~mem.deleting, Based(mem), ReconcileBastion
  PROVE  GoesOn \/ Returns
<1>0. mem \in Objects /\ mode' = mode
  BY DEF TypeInv, MoveTyped, ReconcileBastion, worldVars
<1>1. /\ [mem EXCEPT !.bastionReady = "False"] \in Objects
      /\ [mem EXCEPT !.bastionReady = "Skipped"] \in Objects
      /\ \A c : SameBase([mem EXCEPT !.bastionReady = c], mem)
  BY <1>0, SetConditions, BaseKept, Zenon DEF ConditionStatus
<1>2. \/ SetReady([mem EXCEPT !.bastionReady = "Skipped"])
      \/ Continue(mem, "dropNodeSSH") /\ why' \in {"disable", "recreate"}
      \/ Continue(mem, "ensureSG")
      \/ CloudFails([mem EXCEPT !.bastionReady = "False"], "permanent")
  BY Zenon DEF ReconcileBastion
<1>3. CASE SetReady([mem EXCEPT !.bastionReady = "Skipped"])
  BY <1>0, <1>1, <1>3, SetReadyReturns, Zenon
<1>4. CASE Continue(mem, "dropNodeSSH") /\ why' \in {"disable", "recreate"}
  BY <1>0, <1>4, BastionGoesOn DEF DropSteps
<1>5. CASE Continue(mem, "ensureSG")
  BY <1>0, <1>5, BastionGoesOn DEF BastionSteps, DropSteps
<1>6. CASE CloudFails([mem EXCEPT !.bastionReady = "False"], "permanent")
  <2> DEFINE m == [mem EXCEPT !.bastionReady = "False"]
  <2>1. m \in Objects /\ m.deleting = mem.deleting /\ m.endpoint = mem.endpoint
    BY <1>1, Zenon DEF SameBase
  <2>2. CloudFails(m, "permanent")
    BY <1>6
  <2> HIDE DEF m
  <2> QED BY <2>1, <2>2, CloudFailsReturns
<1> QED BY <1>2, <1>3, <1>4, <1>5, <1>6

LEMMA BastionFailsReturns ==
  ASSUME TypeInv, ~mem.deleting, NEW err, BastionFails(err)
  PROVE  Returns
<1> DEFINE m == [mem EXCEPT !.bastionReady = "False"]
<1>1. mem \in Objects
  BY DEF TypeInv, MoveTyped
<1>2. m \in Objects /\ m.deleting = mem.deleting /\ m.endpoint = mem.endpoint
  BY <1>1, SetConditions, BaseKept, Zenon DEF ConditionStatus, SameBase
<1>3. CloudFails(m, err)
  BY DEF BastionFails
<1> HIDE DEF m
<1> QED BY <1>2, <1>3, CloudFailsReturns

\* A status or condition set on top of a copy with the same base.
LEMMA ConditionBase ==
  ASSUME NEW o \in Objects, NEW c \in ConditionStatus, SameBase(o, mem)
  PROVE  /\ [o EXCEPT !.bastionReady = c] \in Objects
         /\ SameBase([o EXCEPT !.bastionReady = c], mem)
<1>1. SameBase([o EXCEPT !.bastionReady = c], o)
  BY BaseKept, Zenon
<1> DEFINE m == [o EXCEPT !.bastionReady = c]
<1>2. m \in Objects /\ SameBase(m, o)
  BY <1>1, SetConditions, Zenon
<1> HIDE DEF m
<1>3. m \in Objects /\ SameBase(m, mem)
  BY <1>2 DEF SameBase
<1> QED BY <1>3 DEF m

LEMMA EnsureBastionHandled ==
  ASSUME TypeInv, ~mem.deleting, Based(mem),
         EnsureSecurityGroup \/ EnsureServer \/ EnsurePublicIP
  PROVE  GoesOn \/ Returns
<1>0. mem \in Objects /\ mode' = mode /\ CallTyped /\ MoveTyped
  BY Zenon DEF TypeInv, MoveTyped, EnsureSecurityGroup, EnsureServer, EnsurePublicIP,
               worldVars
<1>1. ASSUME NEW id \in IDs,
             \/ SetReady([WithBastion(id) EXCEPT !.bastionReady = "True"])
             \/ CloudFails([WithBastion(id) EXCEPT !.bastionReady = "False"],
                           "retryable")
      PROVE  Returns
  <2> DEFINE o == WithBastion(id)
  <2>1. o \in Objects /\ SameBase(o, mem)
    BY <1>0, SetBastion, Zenon DEF WithBastion, SameBase, Objects
  <2> HIDE DEF o
  <2>2. /\ [o EXCEPT !.bastionReady = "True"] \in Objects
        /\ [o EXCEPT !.bastionReady = "False"] \in Objects
        /\ SameBase([o EXCEPT !.bastionReady = "True"], mem)
        /\ SameBase([o EXCEPT !.bastionReady = "False"], mem)
    BY <2>1, ConditionBase, Zenon DEF ConditionStatus
  <2>3. \/ SetReady([o EXCEPT !.bastionReady = "True"])
        \/ CloudFails([o EXCEPT !.bastionReady = "False"], "retryable")
    BY <1>1 DEF o
  <2>4. CASE SetReady([o EXCEPT !.bastionReady = "True"])
    BY <1>0, <2>2, <2>4, SetReadyReturns
  <2>5. CASE CloudFails([o EXCEPT !.bastionReady = "False"], "retryable")
    <3> DEFINE m == [o EXCEPT !.bastionReady = "False"]
    <3>1. m \in Objects /\ m.deleting = mem.deleting /\ m.endpoint = mem.endpoint
      BY <2>2, Zenon DEF SameBase
    <3>2. CloudFails(m, "retryable")
      BY <2>5
    <3> HIDE DEF m
    <3> QED BY <3>1, <3>2, CloudFailsReturns
  <2> QED BY <2>3, <2>4, <2>5
<1>2. \/ \E next \in {"ensureServer", "ensureIP"} : Continue(mem, next)
      \/ \E err \in Errors : BastionFails(err)
      \/ \E id \in IDs :
           \/ SetReady([WithBastion(id) EXCEPT !.bastionReady = "True"])
           \/ CloudFails([WithBastion(id) EXCEPT !.bastionReady = "False"],
                         "retryable")
  BY Zenon DEF EnsureSecurityGroup, EnsureServer, EnsurePublicIP
<1>3. ASSUME NEW next \in {"ensureServer", "ensureIP"}, Continue(mem, next)
      PROVE  GoesOn
  BY <1>0, <1>3, BastionGoesOn DEF BastionSteps, DropSteps
<1> QED BY <1>1, <1>2, <1>3, BastionFailsReturns, Zenon

LEMMA DropFailsReturns ==
  ASSUME TypeInv, mem.deleting <=> why = "delete", NEW err, DropFails(err)
  PROVE  Returns
<1>1. CASE why = "delete"
  BY <1>1, RetryReturns DEF DropFails
<1>2. CASE why # "delete"
  BY <1>2, BastionFailsReturns DEF DropFails
<1> QED BY <1>1, <1>2

\* Both halves go on dropping the bastion.
LEMMA DropGoesOn ==
  ASSUME NEW next \in DropSteps, Continue(mem, next), why' = why, mode' = mode,
         mem.deleting <=> why = "delete", ~mem.deleting => Based(mem)
  PROVE  GoesOn
<1> USE DEF HandlerSteps, NormalSteps, DropSteps, BastionSteps
<1>1. mem' = mem /\ pc' = next /\ UNCHANGED <<resume, queued, outcome>>
  BY DEF Continue
<1>2. Direction' /\ Progress'
  BY <1>1 DEF Direction, Progress, Based, LoadBalancer
<1> QED BY <1>1, <1>2 DEF GoesOn

LEMMA DropsHandled ==
  ASSUME TypeInv, RestInv, DropNodeSSH \/ ResolveBastion \/ DropServer \/ DropIP
  PROVE  GoesOn \/ Returns
<1>1. pc \in DropSteps /\ why' = why /\ mode' = mode
  BY Zenon DEF DropNodeSSH, ResolveBastion, DropServer, DropIP, DropSteps, callVars, worldVars
<1>2. (mem.deleting <=> why = "delete") /\ (~mem.deleting => Based(mem))
  BY <1>1 DEF RestInv, Halves, Direction, Progress
<1>3. \/ \E err : DropFails(err)
      \/ \E next \in {"resolveBastion", "dropServer", "dropIP", "dropSG"} :
           Continue(mem, next)
  BY Zenon DEF DropNodeSSH, ResolveBastion, DropServer, DropIP, Drop, LookupFails
<1>4. {"resolveBastion", "dropServer", "dropIP", "dropSG"} \subseteq DropSteps
  BY DEF DropSteps
<1>5. ASSUME NEW next \in {"resolveBastion", "dropServer", "dropIP", "dropSG"},
             Continue(mem, next)
      PROVE  GoesOn
  BY <1>1, <1>2, <1>4, <1>5, DropGoesOn
<1> QED BY <1>2, <1>3, <1>5, DropFailsReturns

LEMMA DropSGHandled ==
  ASSUME TypeInv, RestInv, DropSG
  PROVE  GoesOn \/ Returns
<1> DEFINE o == WithoutBastion(mem)
<1>0. mem \in Objects /\ MoveTyped /\ pc = "dropSG" /\ why' = why /\ mode' = mode
  BY Zenon DEF TypeInv, MoveTyped, DropSG, callVars, worldVars
<1>1. (mem.deleting <=> why = "delete") /\ (~mem.deleting => Based(mem))
  BY <1>0 DEF RestInv, Halves, Direction, Progress, DropSteps
<1>2. o \in Objects /\ SameBase(o, mem)
  BY <1>0, SetIDs, BaseKept, Zenon DEF RecordedIDs
<1>3. \/ \E err : DropFails(err)
      \/ why = "disable" /\ SetReady([o EXCEPT !.bastionReady = "Skipped"])
      \/ /\ why = "recreate"
         /\ CloudFails([o EXCEPT !.bastionReady = "False"], "retryable")
      \/ why = "delete" /\ Continue(o, "deleteNetwork")
  BY Zenon DEF DropSG, BastionDropped
<1> HIDE DEF o
<1>4. CASE why = "disable" /\ SetReady([o EXCEPT !.bastionReady = "Skipped"])
  <2>1. /\ [o EXCEPT !.bastionReady = "Skipped"] \in Objects
        /\ SameBase([o EXCEPT !.bastionReady = "Skipped"], mem)
    BY <1>2, ConditionBase, Zenon DEF ConditionStatus
  <2> QED BY <1>0, <1>1, <1>4, <2>1, SetReadyReturns
<1>5. CASE why = "recreate" /\ CloudFails([o EXCEPT !.bastionReady = "False"], "retryable")
  <2> DEFINE m == [o EXCEPT !.bastionReady = "False"]
  <2>1. m \in Objects /\ SameBase(m, mem)
    BY <1>2, ConditionBase, Zenon DEF ConditionStatus
  <2>2. CloudFails(m, "retryable")
    BY <1>5
  <2> HIDE DEF m
  <2> QED BY <1>1, <1>5, <2>1, <2>2, CloudFailsReturns DEF SameBase
<1>6. CASE why = "delete" /\ Continue(o, "deleteNetwork")
  <2>1. mem' = o /\ pc' = "deleteNetwork" /\ UNCHANGED <<resume, queued, outcome>>
    BY <1>6 DEF Continue
  <2>2. mem'.deleting /\ mem.deleting /\ mem'.endpoint = mem.endpoint
    BY <1>1, <1>2, <1>6, <2>1 DEF SameBase
  <2>3. Direction' /\ Progress'
    BY <2>1, <2>2 DEF Direction, Progress, NormalSteps, DropSteps, BastionSteps
  <2>4. mem'.deleting = mem.deleting
    BY <1>2, <2>1 DEF SameBase
  <2> QED BY <2>1, <2>2, <2>3, <2>4 DEF GoesOn, HandlerSteps
<1> QED BY <1>1, <1>3, <1>4, <1>5, <1>6, DropFailsReturns

\* reconcileDelete, before and after the bastion.
LEMMA DeletionHandled ==
  ASSUME TypeInv, mem.deleting, AwaitMachines \/ DeleteLoadBalancer \/ DeleteNetwork
  PROVE  GoesOn \/ Returns
<1> USE DEF HandlerSteps, NormalSteps, DropSteps, BastionSteps
<1> mem \in Objects
  BY DEF TypeInv, MoveTyped
<1>1. ASSUME NEW m \in Objects, Return(m, "settled"), m.deleting, ~m.finalizer,
             m.endpoint = mem.endpoint
      PROVE  Returns
  <2>1. mem' = m /\ outcome' = "settled" /\ pc' = "patchConditions" /\ resume' = "idle"
        /\ (queued => queued')
    BY <1>1, Zenon DEF Return
  <2>2. Ended'
    BY <1>1, <2>1 DEF Ended
  <2>3. mem'.deleting = mem.deleting
    BY <1>1, <2>1, Zenon DEF Objects
  <2> QED BY <1>1, <2>1, <2>2, <2>3, Zenon DEF Returns
<1>2. ASSUME NEW m, NEW next \in {"deleteLB", "dropNodeSSH"}, Continue(m, next),
             m.deleting = mem.deleting, m.endpoint = mem.endpoint,
             next = "dropNodeSSH" => why' = "delete"
      PROVE  GoesOn
  <2>1. mem' = m /\ pc' = next /\ UNCHANGED <<resume, queued, outcome>>
    BY <1>2 DEF Continue
  <2>2. Direction' /\ Progress'
    BY <1>2, <2>1, Zenon DEF Direction, Progress
  <2> QED BY <1>2, <2>1, <2>2, Zenon DEF GoesOn
<1>3. ASSUME NEW i
      PROVE  /\ [mem EXCEPT !.lbID = i].deleting = mem.deleting
             /\ [mem EXCEPT !.lbID = i].endpoint = mem.endpoint
             /\ [mem EXCEPT !.finalizer = FALSE].deleting = mem.deleting
             /\ [mem EXCEPT !.finalizer = FALSE].endpoint = mem.endpoint
             /\ [mem EXCEPT !.finalizer = FALSE].finalizer = FALSE
             /\ [mem EXCEPT !.finalizer = FALSE] \in Objects
  BY Zenon DEF Objects
<1>4. ASSUME NEW i \in RecordedIDs
      PROVE  LET m == [mem EXCEPT !.finalizer = FALSE, !.network = i]
             IN  /\ m \in Objects /\ m.deleting = mem.deleting
                 /\ m.endpoint = mem.endpoint /\ m.finalizer = FALSE
  BY Zenon DEF Objects, RecordedIDs
<1>5. ASSUME Return(mem, "retry") PROVE Returns
  BY <1>5, RetryReturns, Zenon
<1>6. CASE AwaitMachines
  <2> DEFINE m == [mem EXCEPT !.finalizer = FALSE]
  <2>1. Return(mem, "retry") \/ Return(m, "settled") \/ Continue(mem, "deleteLB")
    BY <1>6, Zenon DEF AwaitMachines
  <2>2. m \in Objects /\ m.deleting /\ ~m.finalizer /\ m.endpoint = mem.endpoint
    BY <1>3, Zenon
  <2> HIDE DEF m
  <2>3. CASE Return(m, "settled")
    BY <1>1, <2>2, <2>3
  <2>4. CASE Continue(mem, "deleteLB")
    BY <1>2, <2>4, Zenon
  <2> QED BY <1>5, <2>1, <2>3, <2>4
<1>7. CASE DeleteLoadBalancer
  <2> DEFINE m == [mem EXCEPT !.lbID = NoID]
  <2>1. Return(mem, "retry") \/ (Continue(m, "dropNodeSSH") /\ why' = "delete")
    BY <1>7, Zenon DEF DeleteLoadBalancer
  <2>2. m.deleting = mem.deleting /\ m.endpoint = mem.endpoint
    BY <1>3, Zenon
  <2> HIDE DEF m
  <2> QED BY <1>2, <1>5, <2>1, <2>2, Zenon
<1>8. CASE DeleteNetwork
  <2>1. ASSUME NEW id \in IDs \cup {NoID},
               Return([mem EXCEPT !.finalizer = FALSE,
                                  !.network = IF id = NoID THEN @ ELSE NoID], "settled")
        PROVE  Returns
    <3> DEFINE i == IF id = NoID THEN mem.network ELSE NoID
               m == [mem EXCEPT !.finalizer = FALSE, !.network = i]
    <3>1. i \in RecordedIDs
      BY Zenon DEF RecordedIDs, Objects
    <3>2. Return(m, "settled")
      BY <2>1, Zenon DEF Objects
    <3> HIDE DEF i
    <3>3. m \in Objects /\ m.deleting /\ ~m.finalizer /\ m.endpoint = mem.endpoint
      BY <1>4, <3>1, Zenon
    <3> HIDE DEF m
    <3> QED BY <1>1, <3>2, <3>3
  <2> QED BY <1>5, <1>8, <2>1, Zenon DEF DeleteNetwork
<1> QED BY <1>6, <1>7, <1>8

-----------------------------------------------------------------------------
(* Dequeuing, patching, restarting, editing *)

LEMMA ReconcileActiveRests ==
  ASSUME TypeInv, RestInv, ReconcileActive
  PROVE  RestInv'
<1> USE DEF NormalSteps, PatchSteps, DropSteps, BastionSteps
<1>0. cache \in Objects /\ cache.exists
  BY DEF TypeInv, StoredTyped, ReconcileActive
<1> DEFINE f == [cache EXCEPT !.finalizer = TRUE]
<1>1. f.deleting = cache.deleting /\ f.endpoint = cache.endpoint
  BY <1>0 DEF Objects
<1> HIDE DEF f
<1>2. /\ UNCHANGED <<api, cache, mode>> /\ before' = cache
      /\ \/ cache.deleting /\ mem' = cache /\ pc' = "machines" /\ resume' = "idle"
         \/ /\ ~cache.deleting /\ mem' = f
            /\ pc' = "patchConditions" /\ resume' = "zones"
         \/ ~cache.deleting /\ mem' = cache /\ pc' = "zones" /\ resume' = "idle"
  BY Zenon DEF ReconcileActive, Dequeue, worldVars, f
<1>3. AllStored' /\ Endpoints'
  BY <1>0, <1>1, <1>2 DEF RestInv, AllStored, Stored, Endpoints, LoadBalancer
<1>4. Snapshot' /\ Halves' /\ Progress' /\ Returned'
  BY <1>0, <1>1, <1>2 DEF Snapshot, Halves, Direction, Progress, Returned
<1>5. Sent' /\ Rests'
  BY <1>2 DEF Sent, Rests
<1> QED BY <1>3, <1>4, <1>5 DEF RestInv

LEMMA ReconcileNothingRests ==
  ASSUME RestInv, ReconcileNothing
  PROVE  RestInv'
<1> USE DEF NormalSteps, PatchSteps, DropSteps, BastionSteps
<1>1. pc' = "idle" /\ UNCHANGED <<api, cache, mem, before, resume, mode>>
  BY DEF ReconcileNothing, Dequeue, worldVars
<1>2. \/ ~cache.exists
      \/ outcome' \in {"orphaned", "paused"}
      \/ queued' = TRUE
  BY DEF ReconcileNothing
<1>3. AllStored' /\ Endpoints'
  BY <1>1 DEF RestInv, AllStored, Stored, Endpoints, LoadBalancer
<1>4. resume = "idle"
  BY DEF RestInv, Halves, ReconcileNothing, Dequeue
<1>5. Snapshot' /\ Halves' /\ Progress' /\ Returned' /\ Sent'
  BY <1>1, <1>4 DEF Snapshot, Halves, Direction, Progress, Returned, Sent
<1>6. Rests'
  BY <1>1, <1>2 DEF Rests, Justified
<1> QED BY <1>3, <1>5, <1>6 DEF RestInv

\* What a request sends: its own fields merged, the others as they were.
LEMMA PatchedFields ==
  ASSUME TypeInv, NEW fields
  PROVE  LET o == Patched(fields)
         IN  /\ \A f \in ControllerFields :
                  o[f] = IF f \in fields THEN Merged(f) ELSE api[f]
             /\ o.exists = IF "exists" \in fields THEN Merged("exists") ELSE api.exists
             /\ o.deleting = IF "deleting" \in fields THEN Merged("deleting")
                                                      ELSE api.deleting
<1>1. \A f \in ControllerFields \cup {"exists", "deleting"} : f \in DOMAIN api
  BY DEF TypeInv, StoredTyped, Objects, ControllerFields, ConditionFields, SpecFields,
         StatusFields
<1> QED BY <1>1, Zenon DEF Patched

LEMMA RequestRests ==
  ASSUME TypeInv, NEW fields \in SUBSET ControllerFields, NEW admitted, NEW tolerated,
         Send(fields, admitted, tolerated), UNCHANGED <<mem, before>>
  PROVE  /\ Carried(fields)'
         /\ \A g \in SUBSET (ControllerFields \ fields) : Carried(g) => Carried(g)'
         /\ queued => queued'
<1>1. CASE ~Changed(fields) /\ UNCHANGED <<api, queued>>
  BY <1>1 DEF Changed, Carried
<1>2. CASE Changed(fields) /\ api.exists /\ api' = Collected(Patched(fields)) /\ UNCHANGED queued
  <2> DEFINE o == Patched(fields)
  <2>1. \A f \in ControllerFields : o[f] = IF f \in fields THEN Merged(f) ELSE api[f]
    BY PatchedFields
  <2>2. ~NoObject.exists
    BY DEF NoObject, NewObject
  <2> HIDE DEF o
  <2>3. ~api'.exists \/ api' = o
    BY <1>2, <2>2 DEF Collected, o
  <2>4. Carried(fields)'
    BY <1>2, <2>1, <2>3 DEF Carried, Merged
  <2>5. ASSUME NEW g \in SUBSET (ControllerFields \ fields), Carried(g)
        PROVE  Carried(g)'
    BY <1>2, <2>1, <2>3, <2>5 DEF Carried
  <2> QED BY <1>2, <2>4, <2>5
<1>3. CASE ~api.exists /\ UNCHANGED <<api, queued>>
  BY <1>3 DEF Carried
<1>4. CASE queued' = TRUE
  BY <1>4 DEF Carried
<1> QED BY <1>1, <1>2, <1>3, <1>4, Zenon DEF Send

\* The three requests keep everything but Sent as it was.
LEMMA PatchingRests ==
  ASSUME RestInv, TypeInv, NEW fields \in SUBSET ControllerFields,
         NEW admitted, NEW tolerated, Send(fields, admitted, tolerated),
         pc \in {"patchConditions", "patchSpec", "patchStatus"},
         pc' \in {"patchSpec", "patchStatus", "patchDone"},
         UNCHANGED <<cache, mem, before, outcome, mode>>
  PROVE  AllStored' /\ Endpoints' /\ Snapshot' /\ Halves' /\ Progress' /\ Returned' /\ Rests'
<1> USE DEF NormalSteps, PatchSteps, DropSteps, BastionSteps
<1>1. /\ api' = api \/ (api.exists /\ api' = Collected(Patched(fields)))
      /\ \/ UNCHANGED <<queued, resume>>
         \/ queued' = TRUE /\ resume' = IF resume = "zones" THEN "deferred" ELSE resume
  BY Zenon DEF Send
<1>2. Stored(api)'
  <2> DEFINE o == Patched(fields)
  <2>1. ~NoObject.exists
    BY DEF NoObject, NewObject
  <2>2. o.endpoint = (IF "endpoint" \in fields THEN Merged("endpoint") ELSE api.endpoint)
    BY PatchedFields, Zenon DEF ControllerFields, SpecFields
  <2>3. api.exists /\ ~LoadBalancer => o.endpoint
    BY <2>2 DEF RestInv, AllStored, Stored, Endpoints, Merged
  <2> HIDE DEF o
  <2>4. CASE api.exists /\ api' = Collected(o)
    BY <2>1, <2>3, <2>4 DEF Stored, Collected, LoadBalancer
  <2>5. CASE api' = api
    BY <2>5 DEF RestInv, AllStored, Stored, LoadBalancer
  <2> QED BY <1>1, <2>4, <2>5 DEF o
<1>3. AllStored' /\ Endpoints'
  BY <1>2 DEF RestInv, AllStored, Stored, Endpoints, LoadBalancer
<1>4. Snapshot' /\ Rests'
  BY <1>1 DEF RestInv, Snapshot, Rests
<1>5. Halves' /\ Progress'
  BY <1>1 DEF RestInv, Halves, Direction, Progress
<1>6. Returned'
  BY <1>1 DEF RestInv, Returned, Ended, Published, Based, LoadBalancer, TypeInv, MoveTyped
<1> QED BY <1>3, <1>4, <1>5, <1>6

LEMMA PatchesRest ==
  ASSUME RestInv, TypeInv, PatchConditions \/ PatchSpec \/ PatchStatus
  PROVE  RestInv'
<1>1. UNCHANGED <<cache, mem, before, outcome, mode>>
  BY Zenon DEF PatchConditions, PatchSpec, PatchStatus, worldVars
<1>2. /\ ConditionFields \in SUBSET ControllerFields
      /\ SpecFields \in SUBSET ControllerFields
      /\ StatusFields \in SUBSET ControllerFields
      /\ ConditionFields \in SUBSET (ControllerFields \ SpecFields)
      /\ ConditionFields \in SUBSET (ControllerFields \ StatusFields)
      /\ SpecFields \in SUBSET (ControllerFields \ StatusFields)
  BY DEF ControllerFields, ConditionFields, SpecFields, StatusFields
<1>3. CASE PatchConditions
  <2>1. /\ Send(ConditionFields, BastionReadyAdmitted, FALSE)
        /\ pc = "patchConditions" /\ pc' = "patchSpec"
    BY <1>3, Zenon DEF PatchConditions, ConditionFields
  <2>2. Carried(ConditionFields)'
    BY <1>1, <1>2, <2>1, RequestRests, Zenon
  <2>3. Sent'
    BY <2>1, <2>2 DEF Sent
  <2> QED BY <1>1, <1>2, <2>1, <2>3, PatchingRests, Zenon DEF RestInv
<1>4. CASE PatchSpec
  <2>1. Send(SpecFields, TRUE, FALSE) /\ pc = "patchSpec" /\ pc' = "patchStatus"
    BY <1>4, Zenon DEF PatchSpec, SpecFields
  <2>2. Carried(SpecFields)' /\ (Carried(ConditionFields) => Carried(ConditionFields)')
    BY <1>1, <1>2, <2>1, RequestRests, Zenon
  <2>3. Sent'
    BY <2>1, <2>2 DEF RestInv, Sent
  <2> QED BY <1>1, <1>2, <2>1, <2>3, PatchingRests, Zenon DEF RestInv
<1>5. CASE PatchStatus
  <2>1. /\ Send(StatusFields, TRUE, mem.deleting /\ ~mem.finalizer)
        /\ pc = "patchStatus" /\ pc' = "patchDone"
    BY <1>5, Zenon DEF PatchStatus, StatusFields
  <2>2. /\ Carried(StatusFields)'
        /\ Carried(ConditionFields) => Carried(ConditionFields)'
        /\ Carried(SpecFields) => Carried(SpecFields)'
    BY <1>1, <1>2, <2>1, RequestRests, Zenon
  <2>3. Sent'
    BY <2>1, <2>2 DEF RestInv, Sent
  <2> QED BY <1>1, <1>2, <2>1, <2>3, PatchingRests, Zenon DEF RestInv
<1> QED BY <1>3, <1>4, <1>5

\* The reconcile ends: with nothing queued and nothing to observe, the object it
\* read says what the working copy says.
LEMMA PatchDoneRests ==
  ASSUME RestInv, TypeInv, PatchDone
  PROVE  RestInv'
<1> USE DEF NormalSteps, PatchSteps, DropSteps, BastionSteps
<1>1. pc = "patchDone" /\ UNCHANGED <<api, cache, queued, mode>> /\ resume' = "idle"
  BY DEF PatchDone, objectVars, worldVars
<1>2. AllStored'
  BY <1>1 DEF RestInv, AllStored, Stored, LoadBalancer
<1>3. CASE resume = "zones"
  <2>1. pc' = "zones" /\ UNCHANGED <<mem, before, outcome>>
    BY <1>3 DEF PatchDone
  <2>2. Endpoints' /\ Snapshot' /\ Halves' /\ Progress'
    BY <1>1, <1>3, <2>1
       DEF RestInv, Endpoints, Snapshot, Halves, Direction, Progress, LoadBalancer
  <2>3. Returned' /\ Sent' /\ Rests'
    BY <2>1 DEF Returned, Sent, Rests
  <2> QED BY <1>2, <2>2, <2>3 DEF RestInv
<1>4. CASE resume = "deferred"
  <2>1. pc' = "patchConditions" /\ outcome' = "retry" /\ UNCHANGED <<mem, before>>
    BY <1>4 DEF PatchDone
  <2>2. queued
    BY <1>4 DEF RestInv, Halves
  <2>3. Endpoints' /\ Snapshot' /\ Halves' /\ Progress'
    BY <1>1, <2>1, <2>2
       DEF RestInv, Endpoints, Snapshot, Halves, Direction, Progress, LoadBalancer
  <2>4. Returned' /\ Sent' /\ Rests'
    BY <1>1, <2>1, <2>2 DEF Returned, Ended, Sent, Rests
  <2> QED BY <1>2, <2>3, <2>4 DEF RestInv
<1>5. CASE resume = "idle"
  <2>1. pc' = "idle" /\ UNCHANGED outcome
    BY <1>5 DEF PatchDone
  <2>2. Endpoints' /\ Snapshot' /\ Halves' /\ Progress' /\ Returned' /\ Sent'
    BY <1>1, <2>1 DEF Endpoints, Snapshot, Halves, Direction, Progress, Returned, Sent
  <2>3. ASSUME ~queued, ~Behind
        PROVE  Justified(cache)
    <3>1. before = cache /\ cache.exists /\ mem.deleting = cache.deleting
      BY <1>1, <2>3 DEF RestInv, Snapshot
    <3>2. \A f \in ControllerFields : mem[f] = cache[f]
      BY <1>1, <2>3, <3>1 DEF RestInv, Sent, Carried, Behind, ControllerFields
    <3>3. /\ mem.finalizer = cache.finalizer /\ mem.endpoint = cache.endpoint
          /\ mem.lbReady = cache.lbReady /\ mem.lbID = cache.lbID
          /\ mem.ready = cache.ready /\ mem.provisioned = cache.provisioned
          /\ mem.readyCond = cache.readyCond
      BY <3>2 DEF ControllerFields, ConditionFields, SpecFields, StatusFields
    <3>4. Ended
      BY <1>1, <1>5 DEF RestInv, Returned
    <3>5. CASE cache.deleting
      <4>1. cache.finalizer
        BY <3>1, <3>5 DEF RestInv, AllStored, Stored
      <4> QED BY <2>3, <3>1, <3>3, <3>4, <3>5, <4>1 DEF Ended
    <3>6. CASE ~cache.deleting
      BY <3>1, <3>3, <3>4, <3>6 DEF Ended, Published, Based, Justified
    <3> QED BY <3>5, <3>6
  <2>4. Rests'
    BY <1>1, <2>1, <2>3 DEF Rests, Behind, Justified, Published, Based, LoadBalancer
  <2> QED BY <1>2, <2>2, <2>4 DEF RestInv
<1> QED BY <1>3, <1>4, <1>5 DEF TypeInv, MoveTyped

LEMMA RestartRests ==
  ASSUME RestInv, Restart
  PROVE  RestInv'
<1> USE DEF NormalSteps, PatchSteps, DropSteps, BastionSteps
<1>1. /\ pc' = "idle" /\ queued' = TRUE /\ cache' = api /\ api' = api /\ resume' = "idle"
      /\ mode' = mode
  BY DEF Restart, worldVars
<1>2. AllStored'
  BY <1>1 DEF RestInv, AllStored, Stored, LoadBalancer
<1>3. Endpoints' /\ Snapshot' /\ Halves' /\ Progress'
  BY <1>1 DEF Endpoints, Snapshot, Halves, Direction, Progress
<1>4. Returned' /\ Sent' /\ Rests'
  BY <1>1 DEF Returned, Sent, Rests
<1> QED BY <1>2, <1>3, <1>4 DEF RestInv

\* What users do to the object leaves the controller's fields alone.
LEMMA EditsSpare ==
  ASSUME RestInv, TypeInv, DeleteObject \/ ToggleBastion \/ EditLabels
  PROVE  Spared /\ AllStored'
<1> api \in Objects
  BY DEF TypeInv, StoredTyped
<1>0. UNCHANGED <<cache, queued, pc, mem, before, resume, why, outcome, mode>>
  BY DEF DeleteObject, ToggleBastion, EditLabels, Edit, reconcileVars, callVars, worldVars
<1>1. CASE DeleteObject
  <2> DEFINE d == [api EXCEPT !.deleting = TRUE]
  <2>1. d.exists = api.exists /\ \A f \in ControllerFields : d[f] = api[f]
    BY DEF Objects, ControllerFields, ConditionFields, SpecFields, StatusFields
  <2>2. ~NoObject.exists
    BY DEF NoObject, NewObject
  <2>3. api' = Collected(d) /\ api.exists
    BY <1>1 DEF DeleteObject
  <2> HIDE DEF d
  <2>4. Collected(d).exists => Collected(d) = d /\ (d.deleting => d.finalizer)
    BY <2>2 DEF Collected
  <2>5. Spared
    BY <2>1, <2>3, <2>4, Zenon DEF Spared
  <2>6. AllStored'
    BY <1>0, <2>1, <2>3, <2>4
       DEF RestInv, AllStored, Stored, LoadBalancer, ControllerFields, SpecFields
  <2> QED BY <2>5, <2>6
<1>2. CASE ToggleBastion \/ EditLabels
  <2>1. ASSUME NEW l
        PROVE  LET e == [api EXCEPT !.labels = l] IN
               /\ e.exists = api.exists /\ e.deleting = api.deleting
               /\ \A f \in ControllerFields : e[f] = api[f]
    BY DEF Objects, ControllerFields, ConditionFields, SpecFields, StatusFields
  <2>2. LET e == [api EXCEPT !.enabled = ~@] IN
        /\ e.exists = api.exists /\ e.deleting = api.deleting
        /\ \A f \in ControllerFields : e[f] = api[f]
    BY DEF Objects, ControllerFields, ConditionFields, SpecFields, StatusFields
  <2>3. /\ api'.exists = api.exists /\ api'.deleting = api.deleting
        /\ \A f \in ControllerFields : api'[f] = api[f]
    <3>1. CASE ToggleBastion
      BY <2>2, <3>1, Zenon DEF ToggleBastion
    <3>2. CASE EditLabels
      BY <2>1, <3>2, Zenon DEF EditLabels
    <3> QED BY <1>2, <3>1, <3>2
  <2>4. api'.finalizer = api.finalizer /\ api'.endpoint = api.endpoint
    BY <2>3 DEF ControllerFields, SpecFields
  <2>5. AllStored'
    BY <1>0, <2>3, <2>4 DEF RestInv, AllStored, Stored, LoadBalancer
  <2> QED BY <2>3, <2>5 DEF Spared
<1> QED BY <1>1, <1>2

LEMMA EditsRest ==
  ASSUME RestInv, TypeInv, DeleteObject \/ ToggleBastion \/ EditLabels
  PROVE  RestInv'
<1>1. UNCHANGED <<cache, queued, pc, mem, before, resume, why, outcome, mode>>
  BY DEF DeleteObject, ToggleBastion, EditLabels, Edit, reconcileVars, callVars, worldVars
<1> QED BY <1>1, EditsSpare, BystanderRests

\* Every step keeps the invariant, whatever is lost, late, edited or restarted.
LEMMA RestStep == RestInv /\ TypeInv /\ [Next]_vars => RestInv'
<1> SUFFICES ASSUME RestInv, TypeInv, [Next]_vars PROVE RestInv'
  OBVIOUS
<1>1. ASSUME UNCHANGED <<api, mode>>, cache' \in {api, cache} PROVE AllStored' /\ Spared
  BY <1>1 DEF RestInv, AllStored, Stored, LoadBalancer, Spared
<1>2. CASE Observe \/ WatchEvent
  BY <1>1, <1>2, QueuedRests, Zenon DEF Observe, WatchEvent, reconcileVars, callVars, worldVars
<1>3. CASE \/ UNCHANGED vars \/ EditContent \/ MachinesChange \/ GrantNodeSSH
           \/ \E r \in Resources : ResourceChanges(r) \/ DeleteOutOfBand(r)
  <2>1. UNCHANGED <<api, cache, pc, mem, before, resume, why, outcome, mode>>
    BY <1>3 DEF EditContent, Edit, MachinesChange, GrantNodeSSH, ResourceChanges,
           DeleteOutOfBand, vars, objectVars, reconcileVars, callVars, worldVars
  <2>2. EditContent /\ queued => queued'
    BY Zenon DEF EditContent
  <2>3. queued => queued'
    BY <1>3, <2>2, Zenon
       DEF MachinesChange, GrantNodeSSH, ResourceChanges, DeleteOutOfBand, vars, objectVars
  <2> QED BY <1>1, <2>1, <2>3, BystanderRests
<1>4. CASE \/ CheckZones \/ EnsureNetwork \/ EnsureLoadBalancer \/ SetTargets
           \/ ReconcileBastion \/ EnsureSecurityGroup \/ EnsureServer \/ EnsurePublicIP
  <2>1. pc \in NormalSteps /\ Unmoved
    BY <1>4, Zenon DEF CheckZones, EnsureNetwork, EnsureLoadBalancer, SetTargets,
       ReconcileBastion, EnsureSecurityGroup, EnsureServer, EnsurePublicIP, NormalSteps,
       Unmoved, worldVars
  <2>2. ~mem.deleting
    BY <2>1 DEF RestInv, Halves, Direction
  <2>3. ReconcileBastion \/ EnsureSecurityGroup \/ EnsureServer \/ EnsurePublicIP
        => Based(mem)
    <3>1. ReconcileBastion \/ EnsureSecurityGroup \/ EnsureServer \/ EnsurePublicIP
          => pc \in BastionSteps
      BY Zenon DEF ReconcileBastion, EnsureSecurityGroup, EnsureServer, EnsurePublicIP,
                   BastionSteps
    <3> QED BY <3>1 DEF RestInv, Progress
  <2>4. GoesOn \/ Returns
    BY <1>4, <2>2, <2>3, NetworkHandled, LoadBalancerHandled, ReconcileBastionHandled,
       EnsureBastionHandled
  <2> QED BY <2>1, <2>4, HandlerRests DEF HandlerSteps
<1>5. CASE DropNodeSSH \/ ResolveBastion \/ DropServer \/ DropIP \/ DropSG
  <2>1. pc \in DropSteps /\ Unmoved
    BY <1>5, Zenon DEF DropNodeSSH, ResolveBastion, DropServer, DropIP, DropSG, DropSteps,
       Unmoved, worldVars
  <2>2. GoesOn \/ Returns
    BY <1>5, DropsHandled, DropSGHandled
  <2> QED BY <2>1, <2>2, HandlerRests DEF HandlerSteps
<1>6. CASE AwaitMachines \/ DeleteLoadBalancer \/ DeleteNetwork
  <2>1. pc \in {"machines", "deleteLB", "deleteNetwork"} /\ Unmoved
    BY <1>6, Zenon DEF AwaitMachines, DeleteLoadBalancer, DeleteNetwork, Unmoved, worldVars
  <2>2. mem.deleting
    BY <2>1 DEF RestInv, Halves, Direction
  <2>3. GoesOn \/ Returns
    BY <1>6, <2>2, DeletionHandled
  <2> QED BY <2>1, <2>3, HandlerRests DEF HandlerSteps
<1> QED
  BY <1>2, <1>3, <1>4, <1>5, <1>6, ReconcileNothingRests, ReconcileActiveRests, PatchesRest,
     PatchDoneRests, RestartRests, EditsRest
     DEF Next, Reconcile

LEMMA RestInit == Init => RestInv
<1> SUFFICES ASSUME Init PROVE RestInv
  OBVIOUS
<1>1. api = NewObject /\ cache = NewObject /\ pc = "idle" /\ queued /\ resume = "idle"
  BY DEF Init
<1>2. ~NewObject.deleting /\ (~LoadBalancer => NewObject.endpoint)
  BY Zenon DEF NewObject
<1>3. AllStored
  BY <1>1, <1>2 DEF AllStored, Stored
<1> QED BY <1>1, <1>3
        DEF RestInv, Endpoints, Snapshot, Halves, Direction, Progress, Returned, Sent, Rests,
            NormalSteps, DropSteps, BastionSteps, PatchSteps

\* What the controller rests on, for every instance and every disturbance: the
\* outcome of a reconcile that will not be repeated says of the object it read
\* what the object itself says, or the informer still has something to deliver.
THEOREM RestInvariant == Spec => []RestInv
  BY RestInit, RestStep, TypesHold, PTL DEF Spec

\* The controller never comes to rest on a deleted cluster, whatever fails, is
\* edited, deleted in the portal or read late (reconcileDelete,
\* controller/stackitcluster_infrastructure.go:475).
THEOREM DeletionRemembered == Spec => []DeletionNeverForgotten
<1>1. RestInv => DeletionNeverForgotten
  BY DEF RestInv, Rests, Behind, Justified, DeletionNeverForgotten, Quiet
<1> QED BY <1>1, RestInvariant, PTL

-----------------------------------------------------------------------------
(* The recorded network and load balancer *)

LEMMA MetaSteps ==
  ASSUME TypeInv, KeepInv, RestInv, [Next]_vars
  PROVE  /\ api'.exists => api.exists
         /\ Going => Going'
         /\ \/ cache' = cache \/ cache' = api
<1> USE DEF Going
<1>1. ~NoObject.exists
  BY NoObjectMeta DEF TypeInv, WorldTyped
<1>2. CASE PatchConditions \/ PatchSpec \/ PatchStatus
  <2>1. PICK fields, admitted, tolerated :
          fields \cap {"exists", "deleting"} = {} /\ Send(fields, admitted, tolerated)
    BY <1>2, Zenon DEF PatchConditions, PatchSpec, PatchStatus
  <2> QED BY <1>2, <2>1, SendMeta, Zenon DEF PatchConditions, PatchSpec, PatchStatus
<1>3. CASE DeleteObject
  <2>1. [api EXCEPT !.deleting = TRUE].deleting
    BY DEF TypeInv, StoredTyped, Objects
  <2> QED BY <1>1, <1>3, <2>1 DEF DeleteObject, Collected
<1>4. CASE ToggleBastion \/ EditLabels \/ EditContent
  <2>1. /\ cache' = cache
        /\ api' = api \/ (\E b : api' = [api EXCEPT !.enabled = b])
                      \/ (\E l : api' = [api EXCEPT !.labels = l])
    BY <1>4 DEF ToggleBastion, EditLabels, EditContent, Edit
  <2>2. api'.exists = api.exists /\ api'.deleting = api.deleting
    BY <2>1 DEF TypeInv, StoredTyped, Objects
  <2> QED BY <2>1, <2>2
<1>5. CASE ~(\/ PatchConditions \/ PatchSpec \/ PatchStatus \/ DeleteObject
             \/ ToggleBastion \/ EditLabels \/ EditContent)
  <2>1. api' = api /\ (cache' = cache \/ cache' = api)
    BY <1>5, Zenon
    DEF  Next, Reconcile, ReconcileNothing, ReconcileActive, Dequeue, CheckZones,
         EnsureNetwork, EnsureLoadBalancer, SetTargets, ReconcileBastion,
         EnsureSecurityGroup, EnsureServer, EnsurePublicIP, DropNodeSSH,
         ResolveBastion, DropServer, DropIP, DropSG, AwaitMachines,
         DeleteLoadBalancer, DeleteNetwork, PatchDone, Observe, WatchEvent, Restart,
         MachinesChange, GrantNodeSSH, ResourceChanges, DeleteOutOfBand, vars,
         objectVars
  <2> QED BY <2>1
<1> QED BY <1>2, <1>3, <1>4, <1>5

\* A reconcile keeps to the half it began with.
LEMMA SameHalf ==
  ASSUME TypeInv, RestInv, [Next]_vars, pc' # "idle"
  PROVE  \/ pc = "idle" /\ cache' = cache /\ cache.exists /\ mem'.deleting = cache.deleting
         \/ pc # "idle" /\ mem'.deleting = mem.deleting
<1>1. CASE ReconcileActive
  <2>1. [cache EXCEPT !.finalizer = TRUE].deleting = cache.deleting
    BY DEF TypeInv, StoredTyped, Objects
  <2> QED BY <1>1, <2>1, Zenon DEF ReconcileActive, Dequeue
<1>2. CASE \/ CheckZones \/ EnsureNetwork \/ EnsureLoadBalancer \/ SetTargets
           \/ ReconcileBastion \/ EnsureSecurityGroup \/ EnsureServer \/ EnsurePublicIP
  <2>1. pc \in NormalSteps /\ MoveTyped /\ CallTyped
    BY <1>2, Zenon DEF CheckZones, EnsureNetwork, EnsureLoadBalancer, SetTargets,
       ReconcileBastion, EnsureSecurityGroup, EnsureServer, EnsurePublicIP, NormalSteps,
       TypeInv
  <2>2. Routine
    BY <1>2, <2>1, NetworkRoutine, LoadBalancerRoutine, ReconcileBastionRoutine,
       EnsureBastionRoutine
  <2> QED BY <2>1, <2>2 DEF Routine, SameMeta, NormalSteps
<1>3. CASE DropNodeSSH \/ ResolveBastion \/ DropServer \/ DropIP \/ DropSG
  <2>1. pc \in DropSteps
    BY <1>3, Zenon DEF DropNodeSSH, ResolveBastion, DropServer, DropIP, DropSG, DropSteps
  <2>2. GoesOn \/ Returns
    BY <1>3, DropsHandled, DropSGHandled
  <2> QED BY <2>1, <2>2 DEF GoesOn, Returns, DropSteps
<1>4. CASE AwaitMachines \/ DeleteLoadBalancer \/ DeleteNetwork
  <2>1. pc \in {"machines", "deleteLB", "deleteNetwork"}
    BY <1>4, Zenon DEF AwaitMachines, DeleteLoadBalancer, DeleteNetwork
  <2>2. mem.deleting
    BY <2>1 DEF RestInv, Halves, Direction
  <2>3. GoesOn \/ Returns
    BY <1>4, <2>2, DeletionHandled
  <2> QED BY <2>1, <2>3 DEF GoesOn, Returns
<1>5. CASE PatchConditions \/ PatchSpec \/ PatchStatus \/ PatchDone
  BY <1>5, Zenon DEF PatchConditions, PatchSpec, PatchStatus, PatchDone
<1>6. CASE ReconcileNothing \/ Restart
  BY <1>6 DEF ReconcileNothing, Dequeue, Restart
<1>7. CASE \/ UNCHANGED vars \/ Observe \/ WatchEvent \/ DeleteObject
           \/ ToggleBastion \/ EditLabels \/ EditContent \/ MachinesChange \/ GrantNodeSSH
           \/ \E r \in Resources : ResourceChanges(r) \/ DeleteOutOfBand(r)
  <2>1. UNCHANGED reconcileVars
    BY <1>7, Zenon DEF Observe, WatchEvent, DeleteObject, ToggleBastion, EditLabels,
       EditContent, Edit, MachinesChange, GrantNodeSSH, ResourceChanges, DeleteOutOfBand,
       vars
  <2> QED BY <2>1 DEF reconcileVars
<1> QED BY <1>1, <1>2, <1>3, <1>4, <1>5, <1>6, <1>7 DEF Next, Reconcile

LEMMA TornLastKept ==
  ASSUME TypeInv, KeepInv, RestInv, TornLast, PortalClosed, [Next]_vars
  PROVE  TornLast'
<1> DEFINE lb == <<"lb", LoadBalancerID>>
<1>1. DeletionSeen => DeletionSeen'
  BY MetaSteps DEF DeletionSeen, KeepInv, Going, TornLast
<1>2. ~cache'.exists => ~api'.exists
  BY MetaSteps DEF TornLast
<1>3. (pc # "idle" /\ mem.deleting => DeletionSeen)'
  BY <1>1, SameHalf, Zenon DEF TornLast, DeletionSeen
<1>4. /\ \A i \in IDs : state'[<<"network", i>>] # "deleting"
      /\ state'[lb] = "deleting" => state[lb] = "deleting" \/ pc = "deleteLB"
  <2>1. /\ state \in [Resources -> States] /\ lb \in Resources
        /\ \A i \in IDs : <<"network", i>> \in Resources
        /\ \A i \in IDs : state[<<"network", i>>] # "deleting"
    BY IDFacts DEF TypeInv, CloudTyped, Resources, Kinds, TornLast
  <2>2. ASSUME NEW k, NEW i, Create(k, i)
        PROVE  \A r \in Resources : state'[r] = state[r] \/ state'[r] # "deleting"
    BY <2>1, <2>2 DEF Create
  <2>3. ASSUME NEW k, NEW i, state' = Deleted(k, i)
        PROVE  \A r \in Resources :
                 \/ state'[r] = state[r]
                 \/ r = <<k, i>> /\ (k = "network" => state'[r] # "deleting")
    BY <2>1, <2>3 DEF Deleted
  <2>4. ASSUME NEW k \in {"nodeSG", "server", "ip", "sg", "network"}, NEW i,
               state' = Deleted(k, i)
        PROVE  /\ \A j \in IDs : state'[<<"network", j>>] # "deleting"
               /\ state'[lb] = state[lb]
    <3>1. lb # <<k, i>> /\ \A j \in IDs : <<"network", j>> = <<k, i>> => k = "network"
      OBVIOUS
    <3> QED BY <2>1, <2>3, <2>4, <3>1
  <2>5. ASSUME NEW i, state' = Deleted("lb", i)
        PROVE  \A j \in IDs : state'[<<"network", j>>] # "deleting"
    <3>1. \A j \in IDs : <<"network", j>> # <<"lb", i>>
      OBVIOUS
    <3> QED BY <2>1, <2>3, <2>5, <3>1, Zenon
  <2>6. ASSUME NEW i \in IDs, state' = [state EXCEPT ![<<"nodeSG", i>>] = "up"]
        PROVE  \A r \in Resources : state'[r] = state[r] \/ state'[r] # "deleting"
    BY <2>1, <2>6
  <2>7. ASSUME NEW q \in Resources, ResourceChanges(q)
        PROVE  \A r \in Resources : state'[r] = state[r] \/ state'[r] # "deleting"
    BY <2>1, <2>7 DEF ResourceChanges
  <2>8. StateSteps
    BY StateChanges DEF PortalClosed
  <2>9. CASE pc = "deleteLB" /\ \E i : state' = Deleted("lb", i)
    BY <2>5, <2>9
  <2>10. CASE \/ \E k \in {"nodeSG", "server", "ip", "sg"} : \E i : state' = Deleted(k, i)
              \/ \E i : state' = Deleted("network", i)
    BY <2>4, <2>10
  <2>11. CASE \/ state' = state \/ \E k, i : Create(k, i)
              \/ \E i \in IDs : state' = [state EXCEPT ![<<"nodeSG", i>>] = "up"]
              \/ \E r \in Resources : ResourceChanges(r)
    <3>1. \A r \in Resources : state'[r] = state[r] \/ state'[r] # "deleting"
      BY <2>2, <2>6, <2>7, <2>11, Zenon
    <3> QED BY <2>1, <3>1
  <2> QED BY <2>8, <2>9, <2>10, <2>11, Zenon DEF StateSteps
<1>5. (state[lb] = "deleting" => DeletionSeen /\ (pc # "idle" => mem.deleting))'
  <2>1. ASSUME state[lb] = "deleting" \/ pc = "deleteLB"
        PROVE  DeletionSeen /\ (pc # "idle" => mem.deleting)
    BY <2>1 DEF TornLast, RestInv, Halves, Direction
  <2> QED BY <1>1, <1>4, <2>1, SameHalf DEF DeletionSeen
<1> QED BY <1>2, <1>3, <1>4, <1>5 DEF TornLast

\* Nothing but the two ends of the teardown takes the network or the load
\* balancer away.
LEMMA StillThere ==
  ASSUME TypeInv, [Next]_vars, PortalClosed, pc \notin {"deleteLB", "deleteNetwork"}
  PROVE  /\ \A i : <<"network", i>> \in Live => <<"network", i>> \in Live'
         /\ HasLoadBalancer => HasLoadBalancer'
<1>1. ASSUME NEW k \in {"network", "lb"}, NEW i, <<k, i>> \in Live
      PROVE  <<k, i>> \in Live'
  <2>1. Needed(<<k, i>>)
    BY DEF Needed
  <2> QED BY <1>1, <2>1, NeededResourcesKept DEF PortalClosed
<1> QED BY <1>1, ModeKept DEF HasLoadBalancer, LoadBalancer

\* The ways a handler hands its working copy on.
Moves(m) ==
  \/ \E how : Return(m, how)
  \/ \E next : Continue(m, next)
  \/ \E err : CloudFails(m, err)
  \/ SetReady(m)

LEMMA MovesKeepNetwork ==
  ASSUME NEW m \in Objects, m.network = mem.network, Moves(m)
  PROVE  mem'.network = mem.network
<1> DEFINE f == [m EXCEPT !.ready = FALSE, !.readyCond = "False"]
           r == [m EXCEPT !.ready = TRUE, !.provisioned = TRUE, !.readyCond = "True"]
<1>1. f.network = m.network /\ r.network = m.network
  BY BaseKept, Zenon DEF SameBase
<1>2. ASSUME NEW o, NEW how, Return(o, how) PROVE mem' = o
  BY <1>2, Zenon DEF Return
<1>3. mem' = m \/ (\E how : Return(f, how) \/ Return(r, how))
  BY <1>2, Zenon DEF Moves, Continue, CloudFails, SetReady
<1> HIDE DEF f, r
<1> QED BY <1>1, <1>2, <1>3

\* After the network, no step of reconcileNormal records another one.
LEMMA NetworkRecorded ==
  ASSUME TypeInv,
         \/ CheckZones \/ EnsureLoadBalancer \/ SetTargets
         \/ ReconcileBastion \/ EnsureSecurityGroup \/ EnsureServer \/ EnsurePublicIP
         \/ DropNodeSSH \/ ResolveBastion \/ DropServer \/ DropIP \/ DropSG
  PROVE  mem'.network = mem.network
<1>0. mem \in Objects /\ CallTyped
  BY DEF TypeInv, MoveTyped
<1>1. ASSUME NEW o \in Objects, o.network = mem.network, NEW c \in ConditionStatus
      PROVE  /\ [o EXCEPT !.bastionReady = c] \in Objects
             /\ [o EXCEPT !.bastionReady = c].network = mem.network
             /\ [o EXCEPT !.lbReady = c] \in Objects
             /\ [o EXCEPT !.lbReady = c].network = mem.network
  <2>1. [o EXCEPT !.bastionReady = c] \in Objects /\ [o EXCEPT !.lbReady = c] \in Objects
    BY SetConditions, Zenon
  <2>2. /\ [o EXCEPT !.bastionReady = c].network = o.network
        /\ [o EXCEPT !.lbReady = c].network = o.network
    BY DEF Objects
  <2> QED BY <1>1, <2>1, <2>2, Zenon
<1> DEFINE found == [mem EXCEPT !.lbID = LoadBalancerID]
           Set(o) == \/ Moves(o)
                     \/ \E c \in ConditionStatus :
                          \/ Moves([o EXCEPT !.bastionReady = c])
                          \/ Moves([o EXCEPT !.lbReady = c])
<1>2. ASSUME NEW o \in Objects, o.network = mem.network, Set(o)
      PROVE  mem'.network = mem.network
  BY <1>1, <1>2, MovesKeepNetwork, Zenon
<1>3. found \in Objects /\ found.network = mem.network
  BY <1>0, IDFacts, SetIDs, Zenon DEF RecordedIDs, Objects
<1>4. /\ [found EXCEPT !.endpoint = TRUE] \in Objects
      /\ [found EXCEPT !.endpoint = TRUE].network = mem.network
  <2> HIDE DEF found
  <2>1. [found EXCEPT !.endpoint = TRUE] \in Objects
    BY <1>3, SetFlags, Zenon
  <2>2. [found EXCEPT !.endpoint = TRUE].network = found.network
    BY <1>3 DEF Objects
  <2> QED BY <1>3, <2>1, <2>2
<1>5. WithoutBastion(mem) \in Objects /\ WithoutBastion(mem).network = mem.network
  BY <1>0, SetIDs, BaseKept, Zenon DEF RecordedIDs, SameBase
<1>6. ASSUME NEW id \in IDs
      PROVE  WithBastion(id) \in Objects /\ WithBastion(id).network = mem.network
  BY <1>0, SetBastion, Zenon DEF WithBastion, Objects
<1>7. CASE CheckZones
  <2>1. Set(mem)
    BY <1>7, Zenon DEF CheckZones, Moves
  <2> QED BY <1>0, <1>2, <2>1
<1>8. CASE EnsureLoadBalancer
  <2>1. Set(mem) \/ Set(found) \/ Moves([found EXCEPT !.endpoint = TRUE])
    BY <1>8, Zenon DEF EnsureLoadBalancer, Moves, ConditionStatus
  <2> HIDE DEF Set, found
  <2> QED BY <1>0, <1>2, <1>3, <1>4, <2>1, MovesKeepNetwork, Zenon
<1>9. CASE SetTargets
  <2>1. Set(mem)
    BY <1>9, Zenon DEF SetTargets, Moves, ConditionStatus
  <2> QED BY <1>0, <1>2, <2>1
<1>10. CASE ReconcileBastion
  <2>1. Set(mem)
    BY <1>10, Zenon DEF ReconcileBastion, Moves, ConditionStatus
  <2> QED BY <1>0, <1>2, <2>1
<1>11. CASE EnsureSecurityGroup \/ EnsureServer
  <2>1. Set(mem)
    BY <1>11, Zenon DEF EnsureSecurityGroup, EnsureServer, BastionFails, Moves, ConditionStatus
  <2> QED BY <1>0, <1>2, <2>1
<1>12. CASE EnsurePublicIP
  <2>1. Set(mem) \/ \E id \in IDs : Set(WithBastion(id))
    BY <1>12, Zenon DEF EnsurePublicIP, BastionFails, Moves, ConditionStatus
  <2> HIDE DEF Set
  <2> QED BY <1>0, <1>2, <1>6, <2>1, Zenon
<1>13. ASSUME NEW err, DropFails(err)
       PROVE  mem'.network = mem.network
  <2>1. Set(mem)
    BY <1>13, Zenon DEF DropFails, BastionFails, Moves, ConditionStatus
  <2> QED BY <1>0, <1>2, <2>1
<1>14. CASE DropNodeSSH \/ ResolveBastion \/ DropServer \/ DropIP
  <2>1. (\E err : DropFails(err)) \/ Set(mem)
    BY <1>14, Zenon
       DEF DropNodeSSH, ResolveBastion, DropServer, DropIP, Drop, LookupFails, Moves
  <2> HIDE DEF Set
  <2> QED BY <1>0, <1>2, <1>13, <2>1
<1>15. CASE DropSG
  <2>1. (\E err : DropFails(err)) \/ Set(WithoutBastion(mem))
    BY <1>15, Zenon DEF DropSG, BastionDropped, Moves, ConditionStatus
  <2> HIDE DEF Set
  <2> QED BY <1>2, <1>5, <1>13, <2>1
<1> QED BY <1>7, <1>8, <1>9, <1>10, <1>11, <1>12, <1>14, <1>15

\* The handler returned, and not well.
Failed == pc' = "patchConditions" /\ outcome' # "settled"

LEMMA FailuresFail ==
  ASSUME NEW m, (\E err : CloudFails(m, err)) \/ Return(m, "retry")
  PROVE  Failed
<1>1. ASSUME NEW o, NEW how \in {"retry", "waiting"}, Return(o, how) PROVE Failed
  BY <1>1 DEF Return, Failed
<1>2. \E o : \E how \in {"retry", "waiting"} : Return(o, how)
  BY Zenon DEF CloudFails
<1> QED BY <1>1, <1>2

\* What Ensure found or created is there.
LEMMA EnsuredLive ==
  ASSUME TypeInv, NEW k \in Kinds, NEW id \in IDs, Ensure(k, id, "none"),
         state[<<k, id>>] # "deleting"
  PROVE  <<k, id>> \in Live'
<1>1. <<k, id>> \in Resources /\ state \in [Resources -> States]
  BY DEF Resources, TypeInv, CloudTyped
<1>2. CASE Matching(k) = {id} /\ UNCHANGED state
  BY <1>1, <1>2 DEF Matching, Present, Live
<1>3. CASE Create(k, id)
  BY <1>1, <1>3 DEF Create, Live
<1> QED BY <1>2, <1>3, Zenon DEF Ensure, Errors

\* The way to the bastion: the network, the load balancer, its targets.
LEMMA FrontBacked ==
  ASSUME TypeInv, RestInv, BackedInv, NamedNetworkUp, PortalClosed, [Next]_vars,
         CheckZones \/ EnsureNetwork \/ EnsureLoadBalancer \/ SetTargets
  PROVE  \/ Failed
         \/ pc' = "network"
         \/ pc' = "loadBalancer" /\ HasNetwork(mem)'
         \/ pc' \in {"targets", "bastion"} /\ HasNetwork(mem)' /\ HasLoadBalancer'
<1>0. /\ mem \in Objects /\ pc \in {"zones", "network", "loadBalancer", "targets"}
      /\ mode' = mode
  BY ModeKept, Zenon
     DEF TypeInv, MoveTyped, CheckZones, EnsureNetwork, EnsureLoadBalancer, SetTargets
<1>1. ~mem.deleting /\ state[<<"lb", LoadBalancerID>>] # "deleting"
  BY <1>0 DEF RestInv, Halves, Direction, NormalSteps, BackedInv, TornLast
<1>2. /\ \A i : <<"network", i>> \in Live => <<"network", i>> \in Live'
      /\ HasLoadBalancer => HasLoadBalancer'
  BY <1>0, StillThere
<1>3. CASE CheckZones
  BY <1>3, FailuresFail DEF CheckZones, Continue
<1>4. CASE EnsureNetwork
  <2>1. ASSUME NEW i, Continue([mem EXCEPT !.network = i], "loadBalancer"),
               <<"network", i>> \in Live'
        PROVE  pc' = "loadBalancer" /\ HasNetwork(mem)'
    <3>1. [mem EXCEPT !.network = i].network = i
      BY <1>0 DEF Objects
    <3>2. mem'.network = i /\ pc' = "loadBalancer"
      BY <2>1, <3>1 DEF Continue
    <3> QED BY <2>1, <3>2 DEF HasNetwork
  <2>2. CASE ~ManagedNetwork
    <3>1. <<"network", ByoNetworkID>> \in Live
      BY <2>2, IDFacts DEF NamedNetworkUp, ByoNetwork, Live, Resources, Kinds
    <3>2. \/ Continue([mem EXCEPT !.network = ByoNetworkID], "loadBalancer")
          \/ \E err : CloudFails(mem, err)
      BY <1>4, <2>2, Zenon DEF EnsureNetwork
    <3> QED BY <1>2, <2>1, <3>1, <3>2, FailuresFail
  <2>3. CASE ManagedNetwork /\ Present("network", mem.network)
    <3>1. HasNetwork(mem)
      BY <2>3 DEF Present, HasNetwork, Live, Resources, Kinds, BackedInv, TornLast
    <3>2. Continue(mem, "loadBalancer") \/ \E err : CloudFails(mem, err)
      BY <1>4, <2>3, Zenon DEF EnsureNetwork
    <3>3. CASE Continue(mem, "loadBalancer")
      BY <1>2, <3>1, <3>3 DEF Continue, HasNetwork
    <3> QED BY <3>2, <3>3, FailuresFail
  <2>4. CASE ManagedNetwork /\ ~Present("network", mem.network)
    <3>1. \/ \E id \in IDs :
               /\ Ensure("network", id, "none")
               /\ Continue([mem EXCEPT !.network = id], "loadBalancer")
          \/ \E err : CloudFails(mem, err)
      BY <1>4, <2>4, Zenon DEF EnsureNetwork
    <3>2. ASSUME NEW id \in IDs, Ensure("network", id, "none")
          PROVE  <<"network", id>> \in Live'
      BY <3>2, EnsuredLive DEF Kinds, BackedInv, TornLast
    <3> QED BY <2>1, <3>1, <3>2, FailuresFail, Zenon
  <2> QED BY <2>2, <2>3, <2>4
<1>5. CASE EnsureLoadBalancer
  <2>1. HasNetwork(mem)'
    <3>1. mem'.network = mem.network /\ HasNetwork(mem)
      BY <1>5, NetworkRecorded DEF BackedInv, Backed, EnsureLoadBalancer
    <3> QED BY <1>2, <3>1 DEF HasNetwork
  <2>2. CASE ~LoadBalancer
    <3>1. pc' = "bastion"
      BY <1>5, <2>2, Zenon DEF EnsureLoadBalancer, Continue
    <3> QED BY <1>0, <2>1, <2>2, <3>1 DEF HasLoadBalancer, LoadBalancer
  <2>3. CASE LoadBalancer
    <3>1. \/ \E m : Return(m, "retry") \/ \E err : CloudFails(m, err)
          \/ Ensure("lb", LoadBalancerID, "none") /\ pc' = "targets"
      BY <1>5, <2>3, Zenon DEF EnsureLoadBalancer, Continue
    <3>2. CASE Ensure("lb", LoadBalancerID, "none") /\ pc' = "targets"
      BY <1>1, <2>1, <3>2, IDFacts, EnsuredLive DEF HasLoadBalancer, Kinds
    <3> QED BY <3>1, <3>2, FailuresFail
  <2> QED BY <2>2, <2>3
<1>6. CASE SetTargets
  <2>1. mem'.network = mem.network /\ HasNetwork(mem) /\ HasLoadBalancer
    BY <1>6, NetworkRecorded DEF BackedInv, Backed, SetTargets
  <2>2. (\E m : Return(m, "retry")) \/ pc' = "bastion"
    BY <1>6, Zenon DEF SetTargets, Continue
  <2> QED BY <1>2, <2>1, <2>2, FailuresFail DEF HasNetwork
<1> QED BY <1>3, <1>4, <1>5, <1>6

\* The bastion's half of a reconcile, and the teardown.
LEMMA BackBacked ==
  ASSUME TypeInv, RestInv, BackedInv, PortalClosed, [Next]_vars, RestInv',
         \/ ReconcileBastion \/ EnsureSecurityGroup \/ EnsureServer \/ EnsurePublicIP
         \/ DropNodeSSH \/ ResolveBastion \/ DropServer \/ DropIP \/ DropSG
         \/ AwaitMachines \/ DeleteLoadBalancer \/ DeleteNetwork
  PROVE  Backed'
<1>1. pc \in BastionSteps \cup DropSteps \cup {"machines", "deleteLB", "deleteNetwork"}
  BY Zenon DEF ReconcileBastion, EnsureSecurityGroup, EnsureServer, EnsurePublicIP,
       DropNodeSSH, ResolveBastion, DropServer, DropIP, DropSG, AwaitMachines,
       DeleteLoadBalancer, DeleteNetwork, BastionSteps, DropSteps
<1>2. pc # "idle" /\ (pc \in {"machines", "deleteLB", "deleteNetwork"} => mem.deleting)
  BY <1>1 DEF BastionSteps, DropSteps, RestInv, Halves, Direction
<1>3. pc' # "idle"
  BY Zenon DEF ReconcileBastion, EnsureSecurityGroup, EnsureServer, EnsurePublicIP,
       DropNodeSSH, ResolveBastion, DropServer, DropIP, DropSG, AwaitMachines,
       DeleteLoadBalancer, DeleteNetwork, Drop, LookupFails, BastionDropped, DropFails,
       BastionFails, CloudFails, SetReady, Return, Continue
<1>4. mem'.deleting = mem.deleting
  BY <1>2, <1>3, SameHalf
<1>5. CASE mem.deleting
  <2>1. mem'.deleting
    BY <1>4, <1>5
  <2>2. pc' \notin NormalSteps
    BY <2>1 DEF RestInv, Halves, Direction
  <2> QED BY <1>3, <2>1, <2>2 DEF Backed, PastLoadBalancer, NormalSteps, BastionSteps
<1>6. CASE ~mem.deleting
  <2>1. pc \in BastionSteps \cup DropSteps /\ pc \notin {"machines", "deleteLB", "deleteNetwork"}
    BY <1>1, <1>2, <1>6
  <2>2. HasNetwork(mem) /\ HasLoadBalancer
    BY <1>6, <2>1 DEF BackedInv, Backed, PastLoadBalancer
  <2>3. mem'.network = mem.network
    BY <2>1, NetworkRecorded, Zenon DEF AwaitMachines, DeleteLoadBalancer, DeleteNetwork
  <2>4. HasNetwork(mem)' /\ HasLoadBalancer'
    BY <2>1, <2>2, <2>3, StillThere DEF HasNetwork
  <2> QED BY <1>3, <2>4 DEF Backed
<1> QED BY <1>5, <1>6

LEMMA PatchBacked ==
  ASSUME TypeInv, RestInv, BackedInv, PortalClosed, [Next]_vars,
         PatchConditions \/ PatchSpec \/ PatchStatus \/ PatchDone
  PROVE  Backed'
<1> USE DEF PatchSteps, NormalSteps, BastionSteps, DropSteps
<1>1. /\ pc \in PatchSteps
      /\ \A i : <<"network", i>> \in Live => <<"network", i>> \in Live'
      /\ HasLoadBalancer => HasLoadBalancer'
  <2>1. pc \in PatchSteps
    BY Zenon DEF PatchConditions, PatchSpec, PatchStatus, PatchDone
  <2> QED BY <2>1, StillThere
<1>2. CASE PatchConditions \/ PatchSpec \/ PatchStatus
  <2>1. /\ pc' \in PatchSteps /\ UNCHANGED <<mem, outcome>>
        /\ resume' = "idle" => resume = "idle"
    BY <1>2, Zenon DEF PatchConditions, PatchSpec, PatchStatus, Send
  <2>2. PastLoadBalancer' => PastLoadBalancer
    BY <1>1, <2>1 DEF PastLoadBalancer
  <2>3. PastLoadBalancer' => HasNetwork(mem)' /\ HasLoadBalancer'
    BY <1>1, <2>1, <2>2 DEF BackedInv, Backed, HasNetwork
  <2> QED BY <2>1, <2>3 DEF Backed
<1>3. CASE PatchDone
  <2>0. pc = "patchDone" /\ UNCHANGED <<api, cache, queued, mode, state>>
    BY <1>3 DEF PatchDone, objectVars, worldVars, cloudVars
  <2>1. CASE resume = "zones"
    BY <1>3, <2>1 DEF PatchDone, Backed, PastLoadBalancer
  <2>2. CASE resume = "deferred"
    BY <1>3, <2>2 DEF PatchDone, Backed, PastLoadBalancer
  <2>3. CASE resume = "idle"
    <3>1. pc' = "idle" /\ UNCHANGED outcome
      BY <1>3, <2>3 DEF PatchDone
    <3>2. ASSUME ~queued, cache.exists, ~cache.deleting, outcome = "settled", ~Behind
          PROVE  HasNetwork(cache) /\ HasLoadBalancer
      <4>1. before = cache /\ mem.deleting = cache.deleting
        BY <2>0, <3>2 DEF RestInv, Snapshot
      <4>2. mem.network = cache.network
        BY <2>0, <3>2, <4>1
           DEF RestInv, Sent, Carried, Behind, ControllerFields, StatusFields
      <4>3. HasNetwork(mem) /\ HasLoadBalancer
        BY <2>0, <2>3, <3>2, <4>1 DEF BackedInv, Backed, PastLoadBalancer
      <4> QED BY <4>2, <4>3 DEF HasNetwork
    <3> QED BY <2>0, <3>1, <3>2
            DEF Backed, PastLoadBalancer, Behind, HasNetwork, HasLoadBalancer, LoadBalancer,
                Live
  <2> QED BY <2>1, <2>2, <2>3 DEF TypeInv, MoveTyped
<1> QED BY <1>2, <1>3

LEMMA BackedStep ==
  ASSUME TypeInv, KeepInv, RestInv, BackedInv, NamedNetworkUp, PortalClosed, [Next]_vars
  PROVE  BackedInv'
<1> USE DEF PatchSteps, BastionSteps, DropSteps
<1>1. TornLast'
  BY TornLastKept DEF BackedInv
<1>2. RestInv'
  BY RestStep
<1>3. CASE ReconcileNothing \/ ReconcileActive
  <2>1. /\ pc = "idle" /\ cache' = cache
        /\ \/ /\ pc' = "idle"
              /\ ~cache.exists \/ queued' \/ outcome' # "settled"
           \/ pc' = "patchConditions" /\ resume' = "zones"
           \/ pc' \in {"machines", "zones"}
    BY <1>3 DEF ReconcileNothing, ReconcileActive, Dequeue
  <2> QED BY <1>1, <2>1 DEF BackedInv, Backed, PastLoadBalancer
<1>4. CASE CheckZones \/ EnsureNetwork \/ EnsureLoadBalancer \/ SetTargets
  <2>1. Backed'
    BY <1>4, FrontBacked DEF Failed, Backed, PastLoadBalancer
  <2> QED BY <1>1, <2>1 DEF BackedInv
<1>5. CASE Observe \/ WatchEvent \/ DeleteObject \/ ToggleBastion \/ EditLabels
           \/ EditContent \/ MachinesChange \/ GrantNodeSSH \/ UNCHANGED vars
           \/ \E r \in Resources : ResourceChanges(r) \/ DeleteOutOfBand(r)
  <2>1. /\ UNCHANGED <<pc, mem, resume, outcome>>
        /\ queued' \/ (~queued /\ cache' = cache /\ Spared)
    <3>1. CASE Observe \/ WatchEvent
      BY <3>1 DEF Observe, WatchEvent, reconcileVars
    <3>2. CASE DeleteObject \/ ToggleBastion \/ EditLabels
      <4>1. UNCHANGED <<pc, mem, resume, outcome, cache, queued>>
        BY <3>2 DEF DeleteObject, ToggleBastion, EditLabels, Edit, reconcileVars
      <4> QED BY <3>2, <4>1, EditsSpare
    <3>3. CASE EditContent
      <4>1. UNCHANGED <<pc, mem, resume, outcome, cache, api>>
        BY <3>3 DEF EditContent, Edit, reconcileVars
      <4>2. queued => queued'
        BY <3>3, Zenon DEF EditContent
      <4> QED BY <4>1, <4>2 DEF Spared
    <3>4. CASE MachinesChange \/ GrantNodeSSH \/ UNCHANGED vars
               \/ \E r \in Resources : ResourceChanges(r) \/ DeleteOutOfBand(r)
      <4>1. UNCHANGED <<objectVars, reconcileVars, outcome>>
        BY <3>4, Zenon DEF MachinesChange, GrantNodeSSH, ResourceChanges,
                           DeleteOutOfBand, vars
      <4>2. UNCHANGED <<pc, mem, resume, outcome, cache, api, queued>>
        BY <4>1 DEF objectVars, reconcileVars
      <4> QED BY <4>2 DEF Spared
    <3> QED BY <1>5, <3>1, <3>2, <3>3, <3>4
  <2>2. CASE pc \in {"deleteLB", "deleteNetwork"}
    BY <1>1, <2>1, <2>2 DEF BackedInv, Backed, PastLoadBalancer
  <2>3. CASE pc \notin {"deleteLB", "deleteNetwork"}
    <3>1. /\ \A i : <<"network", i>> \in Live => <<"network", i>> \in Live'
          /\ HasLoadBalancer => HasLoadBalancer'
      BY <2>3, StillThere
    <3>2. /\ pc' \in {"loadBalancer", "targets"} => HasNetwork(mem)'
          /\ pc' = "targets" => HasLoadBalancer'
          /\ PastLoadBalancer' => HasNetwork(mem)' /\ HasLoadBalancer'
      BY <2>1, <3>1 DEF BackedInv, Backed, PastLoadBalancer, HasNetwork
    <3>3. ~queued' /\ Behind => Behind'
      BY <2>1 DEF Behind, Spared
    <3>4. /\ pc' = "idle" /\ ~queued' /\ cache'.exists /\ ~cache'.deleting
          /\ outcome' = "settled"
          => Behind' \/ (HasNetwork(cache)' /\ HasLoadBalancer')
      BY <2>1, <3>1, <3>3 DEF BackedInv, Backed, HasNetwork
    <3> QED BY <1>1, <3>2, <3>4 DEF BackedInv, Backed
  <2> QED BY <2>2, <2>3
<1>6. CASE Restart
  BY <1>1, <1>6 DEF Restart, BackedInv, Backed, PastLoadBalancer
<1>7. CASE PatchConditions \/ PatchSpec \/ PatchStatus \/ PatchDone
  BY <1>1, <1>7, PatchBacked DEF BackedInv
<1> QED BY <1>1, <1>2, <1>3, <1>4, <1>5, <1>6, <1>7, BackBacked DEF BackedInv, Next, Reconcile

LEMMA BackedInit == Init => BackedInv
<1> SUFFICES ASSUME Init PROVE BackedInv
  OBVIOUS
<1>1. /\ cache.exists /\ pc = "idle" /\ queued
      /\ \A r \in Resources : state[r] # "deleting"
  BY DEF Init, NewObject
<1>2. /\ \A i \in IDs : <<"network", i>> \in Resources
      /\ <<"lb", LoadBalancerID>> \in Resources
  BY IDFacts DEF Resources, Kinds
<1> QED BY <1>1, <1>2
        DEF BackedInv, TornLast, Backed, PastLoadBalancer, BastionSteps, DropSteps,
            PatchSteps

\* When the controller rests on a cluster after a reconcile that ended well, its
\* published status is complete, and the network and the load balancer on record
\* exist, whichever requests were lost on the way and however late the reads
\* were, as long as nobody deletes the provider's resources in the portal.
THEOREM RestPublished == Spec /\ []PortalClosed => []RestIsPublished
<1>1. RestInv /\ BackedInv /\ TypeInv => RestIsPublished
  <2> SUFFICES ASSUME RestInv, BackedInv, TypeInv, Quiet, ~api.deleting,
                      outcome = "settled"
               PROVE  RestIsPublished
    BY DEF RestIsPublished
  <2>1. cache = api /\ pc = "idle" /\ ~queued /\ cache.exists
    BY DEF Quiet
  <2>2. ~Behind
    BY <2>1 DEF Behind
  <2>3. Published(api)
    BY <2>1, <2>2 DEF RestInv, Rests, Justified
  <2>4. HasNetwork(api) /\ HasLoadBalancer
    BY <2>1, <2>2 DEF BackedInv, Backed, HasNetwork
  <2> QED BY <2>3, <2>4 DEF Published, Based, HasNetwork, HasLoadBalancer, RestIsPublished
<1>2. Spec => []KeepInv
  <2>1. TypeInv /\ KeepInv /\ [Next]_vars => KeepInv'
    BY KeepInvInductive
  <2> QED BY <2>1, KeepInvInitially, TypesHold, PTL DEF Spec
<1>3. Spec => []NamedNetworkUp
  <2>1. Init => NamedNetworkUp
    BY IDFacts DEF Init, NamedNetworkUp, ByoNetwork, ManagedNetwork, Resources, Kinds
  <2>2. TypeInv /\ NamedNetworkUp /\ [Next]_vars => NamedNetworkUp'
    BY NetworkSpared
  <2> QED BY <2>1, <2>2, TypesHold, PTL DEF Spec
<1>4. /\ TypeInv /\ KeepInv /\ RestInv /\ BackedInv /\ NamedNetworkUp /\ PortalClosed
      /\ [Next]_vars
      => BackedInv'
  BY BackedStep
<1> QED BY <1>1, <1>2, <1>3, <1>4, BackedInit, RestInvariant, TypesHold, PTL DEF Spec

-----------------------------------------------------------------------------
(* One of a kind, while the labels stay *)

\* Nobody edits spec.additionalLabels.
LabelsFixed == "labels" \notin mode.kinds

SameLabels ==
  /\ api.labels = InitialLabels /\ cache.labels = InitialLabels
  /\ mem.labels = InitialLabels /\ before.labels = InitialLabels
  /\ \A r \in Resources : tags[r] = InitialLabels

OnePresent ==
  \A k \in Kinds : \A i, j \in IDs : Present(k, i) /\ Present(k, j) => i = j

LabelInv == SameLabels /\ OnePresent

-----------------------------------------------------------------------------
(* What the handlers write *)

Fields ==
  {"exists", "deleting", "finalizer", "labels", "enabled", "endpoint", "network", "lbID",
   "server", "ip", "sg", "hash", "ready", "provisioned", "lbReady", "bastionReady",
   "readyCond"}

\* What every handler may write.
Flags == {"endpoint", "ready", "provisioned", "lbReady", "bastionReady", "readyCond"}

BastionFields == {"server", "ip", "sg", "hash"}

\* Object m is o with other flags and other fields in the set.
Only(m, o, fields) == \A f \in Fields \ (Flags \cup fields) : m[f] = o[f]

LEMMA OnlyFlags ==
  ASSUME NEW o \in Objects, NEW c
  PROVE  /\ Only([o EXCEPT !.lbReady = c], o, {})
         /\ Only([o EXCEPT !.bastionReady = c], o, {})
         /\ Only([o EXCEPT !.endpoint = c], o, {})
         /\ Only([o EXCEPT !.ready = FALSE, !.readyCond = "False"], o, {})
         /\ Only([o EXCEPT !.ready = TRUE, !.provisioned = TRUE, !.readyCond = "True"], o, {})
<1> USE DEF Only, Fields, Flags, Objects
<1>1. Only([o EXCEPT !.lbReady = c], o, {})
  OBVIOUS
<1>2. Only([o EXCEPT !.bastionReady = c], o, {})
  OBVIOUS
<1>3. Only([o EXCEPT !.endpoint = c], o, {})
  OBVIOUS
<1>4. Only([o EXCEPT !.ready = FALSE, !.readyCond = "False"], o, {})
  BY Zenon
<1>5. Only([o EXCEPT !.ready = TRUE, !.provisioned = TRUE, !.readyCond = "True"], o, {})
  BY Zenon
<1> QED BY <1>1, <1>2, <1>3, <1>4, <1>5, Zenon

LEMMA OnlyRecords ==
  ASSUME NEW o \in Objects, NEW c
  PROVE  /\ Only([o EXCEPT !.network = c], o, {"network"})
         /\ [o EXCEPT !.network = c].network = c
         /\ Only([o EXCEPT !.lbID = c], o, {"lbID"})
         /\ [o EXCEPT !.lbID = c].lbID = c
         /\ Only([o EXCEPT !.finalizer = c], o, {"finalizer"})
         /\ [o EXCEPT !.finalizer = c].finalizer = c
<1> USE DEF Only, Fields, Flags, Objects
<1>1. Only([o EXCEPT !.network = c], o, {"network"}) /\ [o EXCEPT !.network = c].network = c
  OBVIOUS
<1>2. Only([o EXCEPT !.lbID = c], o, {"lbID"}) /\ [o EXCEPT !.lbID = c].lbID = c
  OBVIOUS
<1>3. /\ Only([o EXCEPT !.finalizer = c], o, {"finalizer"})
      /\ [o EXCEPT !.finalizer = c].finalizer = c
  OBVIOUS
<1> QED BY <1>1, <1>2, <1>3, Zenon

\* The four fields of the bastion's record are written together.
LEMMA OnlyBastion ==
  ASSUME TypeInv, NEW i
  PROVE  /\ Only(WithBastion(i), mem, BastionFields)
         /\ WithBastion(i).server = ids.server /\ WithBastion(i).ip = i
         /\ WithBastion(i).sg = ids.sg /\ WithBastion(i).hash = CloudInitHash(userData)
         /\ Only(WithoutBastion(mem), mem, BastionFields)
         /\ WithoutBastion(mem).server = NoID /\ WithoutBastion(mem).ip = NoID
         /\ WithoutBastion(mem).sg = NoID /\ WithoutBastion(mem).hash = NoHash
<1> USE DEF Only, Fields, Flags, BastionFields, Objects, WithBastion, WithoutBastion
<1>0. mem \in Objects
  BY DEF TypeInv, MoveTyped
<1> DEFINE h == CloudInitHash(userData)
<1> HIDE DEF h
<1>1. /\ Only(WithBastion(i), mem, BastionFields)
      /\ WithBastion(i).server = ids.server /\ WithBastion(i).ip = i
      /\ WithBastion(i).sg = ids.sg /\ WithBastion(i).hash = CloudInitHash(userData)
  BY <1>0, Zenon
<1>2. /\ Only(WithoutBastion(mem), mem, BastionFields)
      /\ WithoutBastion(mem).server = NoID /\ WithoutBastion(mem).ip = NoID
      /\ WithoutBastion(mem).sg = NoID /\ WithoutBastion(mem).hash = NoHash
  BY <1>0, Zenon
<1> QED BY <1>1, <1>2, Zenon

LEMMA OnlyThrough ==
  ASSUME NEW m, NEW o, NEW p, NEW fields, Only(m, o, {}), Only(o, p, fields)
  PROVE  Only(m, p, fields)
  BY DEF Only

\* Whatever a handler hands on, only its flags may differ.
LEMMA MovesOnly ==
  ASSUME NEW m \in Objects, Moves(m)
  PROVE  Only(mem', m, {})
<1> DEFINE f == [m EXCEPT !.ready = FALSE, !.readyCond = "False"]
           r == [m EXCEPT !.ready = TRUE, !.provisioned = TRUE, !.readyCond = "True"]
<1>1. Only(f, m, {}) /\ Only(r, m, {}) /\ Only(m, m, {})
  BY OnlyFlags, Zenon DEF Only
<1>2. ASSUME NEW o, NEW how, Return(o, how) PROVE mem' = o
  BY <1>2, Zenon DEF Return
<1>3. mem' = m \/ (\E how : Return(f, how) \/ Return(r, how))
  BY <1>2, Zenon DEF Moves, Continue, CloudFails, SetReady
<1> HIDE DEF f, r
<1> QED BY <1>1, <1>2, <1>3

\* A working copy is handed on, perhaps with a condition set.
Hands(o) ==
  \/ Moves(o)
  \/ \E c \in ConditionStatus :
       Moves([o EXCEPT !.bastionReady = c]) \/ Moves([o EXCEPT !.lbReady = c])

LEMMA HandsOnly ==
  ASSUME NEW o \in Objects, Hands(o)
  PROVE  Only(mem', o, {})
<1>1. ASSUME NEW c \in ConditionStatus
      PROVE  /\ [o EXCEPT !.bastionReady = c] \in Objects
             /\ Only([o EXCEPT !.bastionReady = c], o, {})
             /\ [o EXCEPT !.lbReady = c] \in Objects
             /\ Only([o EXCEPT !.lbReady = c], o, {})
  BY SetConditions, OnlyFlags, Zenon
<1>2. ASSUME NEW m \in Objects, Only(m, o, {}), Moves(m)
      PROVE  Only(mem', o, {})
  <2>1. Only(mem', m, {})
    BY <1>2, MovesOnly
  <2> QED BY <1>2, <2>1 DEF Only
<1>3. Only(o, o, {})
  BY DEF Only
<1> QED BY <1>1, <1>2, <1>3, Zenon DEF Hands

LEMMA DropFailsHands ==
  ASSUME NEW err, DropFails(err)
  PROVE  Hands(mem)
  BY Zenon DEF DropFails, BastionFails, Hands, Moves, ConditionStatus

\* Most calls write flags only,
LEMMA FlagsWritten ==
  ASSUME TypeInv,
         \/ CheckZones \/ SetTargets \/ ReconcileBastion \/ EnsureSecurityGroup
         \/ EnsureServer \/ DropNodeSSH \/ ResolveBastion \/ DropServer \/ DropIP
  PROVE  Only(mem', mem, {})
<1>0. mem \in Objects
  BY DEF TypeInv, MoveTyped
<1>1. CASE CheckZones \/ SetTargets \/ ReconcileBastion \/ EnsureSecurityGroup \/ EnsureServer
  <2>1. Hands(mem)
    BY <1>1, Zenon DEF CheckZones, SetTargets, ReconcileBastion, EnsureSecurityGroup,
       EnsureServer, BastionFails, Hands, Moves, ConditionStatus
  <2> QED BY <1>0, <2>1, HandsOnly
<1>2. CASE DropNodeSSH \/ ResolveBastion \/ DropServer \/ DropIP
  <2>1. (\E err : DropFails(err)) \/ Hands(mem)
    BY <1>2, Zenon
       DEF DropNodeSSH, ResolveBastion, DropServer, DropIP, Drop, LookupFails, Hands, Moves
  <2> QED BY <1>0, <2>1, HandsOnly, DropFailsHands
<1> QED BY <1>1, <1>2

\* the others write what they found, created or deleted.
LEMMA NetworkWritten ==
  ASSUME TypeInv, EnsureNetwork
  PROVE  /\ Only(mem', mem, {"network"})
         /\ \/ mem'.network = mem.network
            \/ ~ManagedNetwork /\ mem'.network = ByoNetworkID
            \/ \E id \in IDs : Ensure("network", id, "none") /\ mem'.network = id
<1>0. mem \in Objects /\ IDs \subseteq RecordedIDs /\ ByoNetworkID \in IDs
  BY IDFacts DEF TypeInv, MoveTyped, RecordedIDs
<1>1. ASSUME NEW id \in IDs
      PROVE  /\ [mem EXCEPT !.network = id] \in Objects
             /\ Only([mem EXCEPT !.network = id], mem, {"network"})
             /\ [mem EXCEPT !.network = id].network = id
  BY <1>0, SetIDs, OnlyRecords, Zenon
<1>2. ASSUME NEW id \in IDs, Moves([mem EXCEPT !.network = id])
      PROVE  Only(mem', mem, {"network"}) /\ mem'.network = id
  <2> DEFINE o == [mem EXCEPT !.network = id]
  <2>1. o \in Objects /\ Only(o, mem, {"network"}) /\ o.network = id
    BY <1>1, Zenon
  <2>2. Moves(o)
    BY <1>2
  <2> HIDE DEF o
  <2>3. Only(mem', o, {})
    BY <2>1, <2>2, MovesOnly
  <2> QED BY <2>1, <2>3 DEF Only, Fields, Flags
<1>3. \/ Hands(mem)
      \/ ~ManagedNetwork /\ Moves([mem EXCEPT !.network = ByoNetworkID])
      \/ \E id \in IDs : Ensure("network", id, "none") /\ Moves([mem EXCEPT !.network = id])
  BY Zenon DEF EnsureNetwork, Hands, Moves
<1>4. CASE Hands(mem)
  BY <1>0, <1>4, HandsOnly DEF Only, Fields, Flags
<1> QED BY <1>0, <1>2, <1>3, <1>4, Zenon

LEMMA LoadBalancerWritten ==
  ASSUME TypeInv, EnsureLoadBalancer
  PROVE  Only(mem', mem, {"lbID"}) /\ mem'.lbID \in {mem.lbID, LoadBalancerID}
<1> DEFINE found == [mem EXCEPT !.lbID = LoadBalancerID]
<1>0. mem \in Objects /\ LoadBalancerID \in RecordedIDs
  BY IDFacts DEF TypeInv, MoveTyped, RecordedIDs
<1>1. found \in Objects /\ Only(found, mem, {"lbID"}) /\ found.lbID = LoadBalancerID
  BY <1>0, SetIDs, OnlyRecords, Zenon
<1>2. Hands(mem) \/ Hands(found) \/ Moves([found EXCEPT !.endpoint = TRUE])
  BY Zenon DEF EnsureLoadBalancer, Hands, Moves, ConditionStatus
<1> HIDE DEF found
<1>3. [found EXCEPT !.endpoint = TRUE] \in Objects /\ Only([found EXCEPT !.endpoint = TRUE], found, {})
  BY <1>1, SetFlags, OnlyFlags, Zenon
<1>4. Only(mem', mem, {}) \/ Only(mem', found, {})
  BY <1>0, <1>1, <1>2, <1>3, HandsOnly, MovesOnly, OnlyThrough, Zenon
<1> QED BY <1>1, <1>4 DEF Only, Fields, Flags

LEMMA BastionWritten ==
  ASSUME TypeInv, EnsurePublicIP
  PROVE  /\ Only(mem', mem, BastionFields)
         /\ \/ \A f \in BastionFields : mem'[f] = mem[f]
            \/ \E id \in IDs :
                 /\ Ensure("ip", id, "none")
                 /\ mem'.server = ids.server /\ mem'.ip = id /\ mem'.sg = ids.sg
                 /\ mem'.hash = CloudInitHash(userData)
<1>0. mem \in Objects /\ CallTyped
  BY DEF TypeInv, MoveTyped
<1>1. Hands(mem) \/ \E id \in IDs : Ensure("ip", id, "none") /\ Hands(WithBastion(id))
  BY Zenon DEF EnsurePublicIP, BastionFails, Hands, Moves, ConditionStatus
<1>2. CASE Hands(mem)
  BY <1>0, <1>2, HandsOnly DEF Only, Fields, Flags, BastionFields
<1>3. ASSUME NEW id \in IDs, Hands(WithBastion(id))
      PROVE  /\ Only(mem', mem, BastionFields)
             /\ mem'.server = ids.server /\ mem'.ip = id /\ mem'.sg = ids.sg
             /\ mem'.hash = CloudInitHash(userData)
  <2> DEFINE o == WithBastion(id)
  <2>1. o \in Objects
    BY <1>0, SetBastion
  <2>2. /\ Only(o, mem, BastionFields)
        /\ o.server = ids.server /\ o.ip = id /\ o.sg = ids.sg
        /\ o.hash = CloudInitHash(userData)
    BY OnlyBastion, Zenon
  <2>3. Hands(o)
    BY <1>3
  <2> HIDE DEF o
  <2>4. Only(mem', o, {})
    BY <2>1, <2>3, HandsOnly
  <2> QED BY <2>2, <2>4 DEF Only, Fields, Flags, BastionFields
<1> QED BY <1>1, <1>2, <1>3, Zenon

LEMMA BastionErased ==
  ASSUME TypeInv, DropSG
  PROVE  /\ Only(mem', mem, BastionFields)
         /\ \/ \A f \in BastionFields : mem'[f] = mem[f]
            \/ /\ mem'.server = NoID /\ mem'.ip = NoID /\ mem'.sg = NoID
               /\ mem'.hash = NoHash
<1> DEFINE o == WithoutBastion(mem)
<1>0. mem \in Objects
  BY DEF TypeInv, MoveTyped
<1>1. (\E err : DropFails(err)) \/ Hands(o)
  BY Zenon DEF DropSG, BastionDropped, Hands, Moves, ConditionStatus
<1>2. o \in Objects
  BY <1>0, SetIDs, Zenon DEF RecordedIDs
<1>3. /\ Only(o, mem, BastionFields)
      /\ o.server = NoID /\ o.ip = NoID /\ o.sg = NoID /\ o.hash = NoHash
  BY OnlyBastion, Zenon
<1> HIDE DEF o
<1>4. Only(mem', mem, {}) \/ Only(mem', o, {})
  BY <1>0, <1>1, <1>2, HandsOnly, DropFailsHands, Zenon
<1> QED BY <1>3, <1>4 DEF Only, Fields, Flags, BastionFields

\* reconcileDelete writes back what it deleted, and gives up the finalizer.
LEMMA DeletionWritten ==
  ASSUME TypeInv, AwaitMachines \/ DeleteLoadBalancer \/ DeleteNetwork
  PROVE  /\ Only(mem', mem, {"finalizer", "network", "lbID"})
         /\ mem'.network \in {mem.network, NoID} /\ mem'.lbID \in {mem.lbID, NoID}
         /\ \/ mem'.finalizer = mem.finalizer
            \/ pc = "machines" /\ skipped'
            \/ /\ pc = "deleteNetwork"
               /\ \E id \in RecordedIDs : ManagedNetworkID(id) /\ state' = Deleted("network", id)
<1>0. mem \in Objects
  BY DEF TypeInv, MoveTyped
<1> USE DEF Only, Fields, Flags
<1>1. CASE AwaitMachines
  <2>1. [mem EXCEPT !.finalizer = FALSE] \in Objects /\ Only([mem EXCEPT !.finalizer = FALSE], mem, {"finalizer"})
    BY <1>0, SetFlags, OnlyRecords, Zenon
  <2>2. mem' = mem \/ (mem' = [mem EXCEPT !.finalizer = FALSE] /\ pc = "machines" /\ skipped')
    BY <1>1, Zenon DEF AwaitMachines, Return, Continue
  <2> DEFINE o == [mem EXCEPT !.finalizer = FALSE]
  <2> HIDE DEF o
  <2>3. mem' = mem \/ (mem' = o /\ Only(o, mem, {"finalizer"}) /\ pc = "machines" /\ skipped')
    BY <2>1, <2>2, Zenon DEF o
  <2> QED BY <2>3
<1>2. CASE DeleteLoadBalancer
  <2> DEFINE o == [mem EXCEPT !.lbID = NoID]
  <2>1. Only(o, mem, {"lbID"}) /\ o.lbID = NoID
    BY <1>0, OnlyRecords, Zenon
  <2>2. mem' = mem \/ mem' = o
    BY <1>2, Zenon DEF DeleteLoadBalancer, Return, Continue
  <2> HIDE DEF o
  <2> QED BY <2>1, <2>2
<1>3. CASE DeleteNetwork
  <2> DEFINE o(i) == [mem EXCEPT !.finalizer = FALSE, !.network = IF i = NoID THEN @ ELSE NoID]
  <2>1. ASSUME NEW i
        PROVE  Only(o(i), mem, {"finalizer", "network"}) /\ o(i).network \in {mem.network, NoID}
    BY <1>0, Zenon DEF Objects
  <2>2. \/ mem' = mem
        \/ /\ pc = "deleteNetwork"
           /\ \E id \in RecordedIDs :
                ManagedNetworkID(id) /\ state' = Deleted("network", id) /\ mem' = o(id)
    BY <1>3, Zenon DEF DeleteNetwork, Return, RecordedIDs
  <2> HIDE DEF o
  <2> QED BY <2>1, <2>2
<1> QED BY <1>1, <1>2, <1>3

Handlers ==
  \/ CheckZones \/ EnsureNetwork \/ EnsureLoadBalancer \/ SetTargets
  \/ ReconcileBastion \/ EnsureSecurityGroup \/ EnsureServer \/ EnsurePublicIP
  \/ DropNodeSSH \/ ResolveBastion \/ DropServer \/ DropIP \/ DropSG
  \/ AwaitMachines \/ DeleteLoadBalancer \/ DeleteNetwork

\* Fields that no handler writes: the spec and most of the metadata.
SpecKept(m, o) == m.labels = o.labels /\ m.enabled = o.enabled /\ m.exists = o.exists

LEMMA HandlersSpareSpec ==
  ASSUME TypeInv, Handlers
  PROVE  SpecKept(mem', mem) /\ UNCHANGED <<api, cache, before>>
<1> USE DEF SpecKept, Only, Fields, Flags, BastionFields
<1>1. UNCHANGED <<api, cache, before>>
  BY Zenon DEF Handlers, CheckZones, EnsureNetwork, EnsureLoadBalancer, SetTargets,
     ReconcileBastion, EnsureSecurityGroup, EnsureServer, EnsurePublicIP, DropNodeSSH,
     ResolveBastion, DropServer, DropIP, DropSG, AwaitMachines, DeleteLoadBalancer,
     DeleteNetwork
<1>2. CASE \/ CheckZones \/ SetTargets \/ ReconcileBastion \/ EnsureSecurityGroup
           \/ EnsureServer \/ DropNodeSSH \/ ResolveBastion \/ DropServer \/ DropIP
  <2>1. Only(mem', mem, {})
    BY <1>2, FlagsWritten
  <2> QED BY <1>1, <2>1
<1>3. CASE EnsureNetwork
  <2>1. Only(mem', mem, {"network"})
    BY <1>3, NetworkWritten
  <2> QED BY <1>1, <2>1
<1>4. CASE EnsureLoadBalancer
  <2>1. Only(mem', mem, {"lbID"})
    BY <1>4, LoadBalancerWritten
  <2> QED BY <1>1, <2>1
<1>5. CASE EnsurePublicIP \/ DropSG
  <2>1. Only(mem', mem, BastionFields)
    BY <1>5, BastionWritten, BastionErased
  <2> QED BY <1>1, <2>1
<1>6. CASE AwaitMachines \/ DeleteLoadBalancer \/ DeleteNetwork
  <2>1. Only(mem', mem, {"finalizer", "network", "lbID"})
    BY <1>6, DeletionWritten
  <2> QED BY <1>1, <2>1
<1> QED BY <1>2, <1>3, <1>4, <1>5, <1>6, Zenon DEF Handlers

\* Where the copies of a reconcile come from.
LEMMA WorkingCopies ==
  ASSUME TypeInv, [Next]_vars
  PROVE  \/ UNCHANGED <<mem, before>>
         \/ Handlers
         \/ before' = cache /\ SpecKept(mem', cache) /\ ReconcileActive
         \/ mem' = NoObject /\ before' = NoObject /\ pc' = "idle"
<1>1. CASE ReconcileActive
  <2>1. SpecKept([cache EXCEPT !.finalizer = TRUE], cache) /\ SpecKept(cache, cache)
    BY DEF SpecKept, TypeInv, StoredTyped, Objects
  <2> QED BY <1>1, <2>1, Zenon DEF ReconcileActive
<1>2. CASE PatchDone \/ Restart
  BY <1>2, Zenon DEF PatchDone, Restart
<1>3. CASE PatchConditions \/ PatchSpec \/ PatchStatus \/ ReconcileNothing
  BY <1>3, Zenon DEF PatchConditions, PatchSpec, PatchStatus, ReconcileNothing
<1>4. CASE \/ UNCHANGED vars \/ Observe \/ WatchEvent \/ DeleteObject
           \/ ToggleBastion \/ EditLabels \/ EditContent \/ MachinesChange \/ GrantNodeSSH
           \/ \E r \in Resources : ResourceChanges(r) \/ DeleteOutOfBand(r)
  <2>1. UNCHANGED reconcileVars
    BY <1>4, Zenon DEF Observe, WatchEvent, DeleteObject, ToggleBastion, EditLabels,
       EditContent, Edit, MachinesChange, GrantNodeSSH, ResourceChanges, DeleteOutOfBand,
       vars
  <2> QED BY <2>1 DEF reconcileVars
<1> QED BY <1>1, <1>2, <1>3, <1>4 DEF Next, Reconcile, Handlers

\* Who writes the object: the three requests, and whoever edits or deletes it.
LEMMA StoredCopies ==
  ASSUME TypeInv, [Next]_vars
  PROVE  /\ cache' = cache \/ cache' = api
         /\ \/ api' = api
            \/ api' = NoObject
            \/ PatchConditions /\ api' = Patched(ConditionFields)
            \/ PatchSpec /\ api' = Patched(SpecFields)
            \/ PatchStatus /\ api' = Patched(StatusFields)
            \/ DeleteObject /\ api' = [api EXCEPT !.deleting = TRUE]
            \/ ToggleBastion /\ api' = [api EXCEPT !.enabled = ~@]
            \/ EditLabels
<1> USE DEF Collected
<1>1. CASE PatchConditions
  <2>1. api' = api \/ api' = Collected(Patched(ConditionFields))
    BY <1>1, Zenon DEF PatchConditions, Send, ConditionFields
  <2> QED BY <1>1, <2>1, Zenon DEF PatchConditions
<1>2. CASE PatchSpec
  <2>1. api' = api \/ api' = Collected(Patched(SpecFields))
    BY <1>2, Zenon DEF PatchSpec, Send, SpecFields
  <2> QED BY <1>2, <2>1, Zenon DEF PatchSpec
<1>3. CASE PatchStatus
  <2>1. api' = api \/ api' = Collected(Patched(StatusFields))
    BY <1>3, Zenon DEF PatchStatus, Send, StatusFields
  <2> QED BY <1>3, <2>1, Zenon DEF PatchStatus
<1>4. CASE DeleteObject
  BY <1>4, Zenon DEF DeleteObject
<1>5. CASE ToggleBastion \/ EditLabels
  BY <1>5, Zenon DEF ToggleBastion, EditLabels, Edit
<1>6. CASE ~(\/ PatchConditions \/ PatchSpec \/ PatchStatus \/ DeleteObject
             \/ ToggleBastion \/ EditLabels)
  <2>1. api' = api /\ (cache' = cache \/ cache' = api)
    BY <1>6, Zenon
    DEF  Next, Reconcile, ReconcileNothing, ReconcileActive, Dequeue, CheckZones,
         EnsureNetwork, EnsureLoadBalancer, SetTargets, ReconcileBastion,
         EnsureSecurityGroup, EnsureServer, EnsurePublicIP, DropNodeSSH,
         ResolveBastion, DropServer, DropIP, DropSG, AwaitMachines,
         DeleteLoadBalancer, DeleteNetwork, PatchDone, Observe, WatchEvent, Restart,
         EditContent, Edit, MachinesChange, GrantNodeSSH, ResourceChanges,
         DeleteOutOfBand, vars, objectVars
  <2> QED BY <2>1
<1> QED BY <1>1, <1>2, <1>3, <1>4, <1>5, <1>6

-----------------------------------------------------------------------------
(* What happens to the resources *)

EnsureSteps == {"network", "loadBalancer", "ensureSG", "ensureServer", "ensureIP"}

\* One of the Ensure calls creates a resource: it found none.
Creating(k, i) ==
  /\ Create(k, i) /\ Available(k, i) /\ Matching(k) = {}
  /\ pc \in EnsureSteps
  /\ k = "network" => ManagedNetwork
  /\ k \in BastionKinds => pc \in {"ensureSG", "ensureServer", "ensureIP"}
  /\ UNCHANGED <<api, cache, before, machines, skipped>>

\* One of the delete calls takes effect.
Deleting(k, i) ==
  /\ state' = Deleted(k, i) /\ UNCHANGED tags
  /\ pc \in DropSteps \cup {"deleteLB", "deleteNetwork"}
  /\ k \in {"network", "lb"} => pc \in {"deleteLB", "deleteNetwork"}
  /\ k = "network" => ManagedNetwork \/ i = NoID
  /\ UNCHANGED <<api, cache, before, machines, skipped>>

CloudSteps ==
  \/ UNCHANGED <<state, tags>>
  \/ \E k \in Kinds \ {"nodeSG"} : \E i \in IDs : Creating(k, i)
  \/ \E k \in Kinds : \E i \in RecordedIDs : Deleting(k, i)
  \/ GrantNodeSSH
  \/ \E r \in Resources : ResourceChanges(r) \/ DeleteOutOfBand(r)

LEMMA EnsureCreates ==
  ASSUME NEW k \in Kinds, NEW id, NEW err, id \in IDs \/ (id = NoID /\ err # "none"),
         Ensure(k, id, err)
  PROVE  \/ UNCHANGED <<state, tags>>
         \/ \E i \in IDs : Create(k, i) /\ Available(k, i) /\ Matching(k) = {}
<1>1. CASE id \in IDs /\ Matching(k) = {} /\ Available(k, id) /\ Create(k, id)
  BY <1>1
<1>2. CASE Matching(k) = {} /\ \E i \in IDs : Available(k, i) /\ Create(k, i)
  BY <1>2
<1>3. CASE UNCHANGED <<state, tags>> \/ UNCHANGED cloudVars
  BY <1>3 DEF cloudVars
<1> QED BY <1>1, <1>2, <1>3, Zenon DEF Ensure

LEMMA EnsuresCreate ==
  ASSUME \/ EnsureNetwork \/ EnsureLoadBalancer \/ EnsureSecurityGroup \/ EnsureServer
         \/ EnsurePublicIP
  PROVE  CloudSteps
<1> DEFINE Ensures(k) ==
             \E id, err : (id \in IDs \/ (id = NoID /\ err # "none")) /\ Ensure(k, id, err)
           Same == UNCHANGED <<api, cache, before, machines, skipped>>
<1>0. "none" \notin Errors /\ LoadBalancerID \in IDs
  BY IDFacts DEF Errors
<1>6. ASSUME NEW k \in Kinds \ {"nodeSG"}, Ensures(k) \/ UNCHANGED cloudVars, Same,
             pc \in EnsureSteps, k = "network" => ManagedNetwork \/ UNCHANGED cloudVars,
             k \in BastionKinds => pc \in {"ensureSG", "ensureServer", "ensureIP"}
      PROVE  CloudSteps
  <2>1. CASE UNCHANGED cloudVars
    BY <2>1 DEF cloudVars, CloudSteps
  <2>2. CASE ~UNCHANGED cloudVars
    <3>1. \/ UNCHANGED <<state, tags>>
          \/ \E i \in IDs : Create(k, i) /\ Available(k, i) /\ Matching(k) = {}
      BY <1>6, <2>2, EnsureCreates, Zenon
    <3>2. CASE \E i \in IDs : Create(k, i) /\ Available(k, i) /\ Matching(k) = {}
      <4>1. \E i \in IDs : Creating(k, i)
        BY <1>6, <2>2, <3>2, Zenon DEF Creating
      <4> QED BY <1>6, <4>1, Zenon DEF CloudSteps
    <3> QED BY <3>1, <3>2, Zenon DEF CloudSteps
  <2> QED BY <2>1, <2>2
<1>1. CASE EnsureNetwork
  <2>1. UNCHANGED cloudVars \/ (ManagedNetwork /\ Ensures("network"))
    BY <1>0, <1>1, Zenon DEF EnsureNetwork
  <2>2. pc = "network" /\ Same
    BY <1>1, Zenon DEF EnsureNetwork, worldVars
  <2> HIDE DEF Ensures, Same
  <2> QED BY <1>6, <2>1, <2>2 DEF Kinds, EnsureSteps, BastionKinds
<1>2. CASE EnsureLoadBalancer
  <2>1. UNCHANGED cloudVars \/ Ensures("lb")
    BY <1>0, <1>2, Zenon DEF EnsureLoadBalancer
  <2>2. pc = "loadBalancer" /\ Same
    BY <1>2, Zenon DEF EnsureLoadBalancer, worldVars
  <2> HIDE DEF Ensures, Same
  <2> QED BY <1>6, <2>1, <2>2 DEF Kinds, EnsureSteps, BastionKinds
<1>3. CASE EnsureSecurityGroup
  <2>1. Ensures("sg") /\ pc = "ensureSG" /\ Same
    BY <1>0, <1>3, Zenon DEF EnsureSecurityGroup, worldVars
  <2> HIDE DEF Ensures, Same
  <2> QED BY <1>6, <2>1 DEF Kinds, EnsureSteps, BastionKinds
<1>4. CASE EnsureServer
  <2>1. Ensures("server") /\ pc = "ensureServer" /\ Same
    BY <1>0, <1>4, Zenon DEF EnsureServer, worldVars
  <2> HIDE DEF Ensures, Same
  <2> QED BY <1>6, <2>1 DEF Kinds, EnsureSteps, BastionKinds
<1>5. CASE EnsurePublicIP
  <2>1. Ensures("ip") /\ pc = "ensureIP" /\ Same
    BY <1>0, <1>5, Zenon DEF EnsurePublicIP, worldVars
  <2> HIDE DEF Ensures, Same
  <2> QED BY <1>6, <2>1 DEF Kinds, EnsureSteps, BastionKinds
<1> QED BY <1>1, <1>2, <1>3, <1>4, <1>5

LEMMA DropsDelete ==
  ASSUME TypeInv,
         \/ DropNodeSSH \/ DropServer \/ DropIP \/ DropSG \/ DeleteLoadBalancer
         \/ DeleteNetwork
  PROVE  CloudSteps
<1> USE DEF Kinds, DropSteps
<1>0. UNCHANGED <<tags, api, cache, before, machines, skipped>>
  BY Zenon DEF DropNodeSSH, DropServer, DropIP, DropSG, DeleteLoadBalancer, DeleteNetwork,
     worldVars
<1>1. CASE DropNodeSSH \/ DropServer \/ DropIP \/ DropSG
  <2>1. /\ pc \in DropSteps
        /\ \/ state' = state
           \/ \E i \in IDs : state' = Deleted("nodeSG", i)
           \/ state' = Deleted("server", ids.server)
           \/ state' = Deleted("ip", ids.ip)
           \/ state' = Deleted("sg", ids.sg)
    BY <1>1, Zenon DEF DropNodeSSH, DropServer, DropIP, DropSG, Drop
  <2>2. ids.server \in RecordedIDs /\ ids.ip \in RecordedIDs /\ ids.sg \in RecordedIDs
        /\ IDs \subseteq RecordedIDs
    BY DEF TypeInv, CallTyped, RecordedIDs
  <2>3. state' = state \/ \E k \in Kinds \ {"network", "lb"} : \E i \in RecordedIDs : state' = Deleted(k, i)
    BY <2>1, <2>2, Zenon
  <2> QED BY <1>0, <2>1, <2>3 DEF CloudSteps, Deleting
<1>2. CASE DeleteLoadBalancer
  <2>1. pc = "deleteLB" /\ \E i \in RecordedIDs : state' \in {state, Deleted("lb", i)}
    BY <1>2, Zenon DEF DeleteLoadBalancer, RecordedIDs
  <2> QED BY <1>0, <2>1 DEF CloudSteps, Deleting
<1>3. CASE DeleteNetwork
  <2>1. /\ pc = "deleteNetwork"
        /\ \/ state' = state
           \/ \E i \in RecordedIDs : ManagedNetworkID(i) /\ state' = Deleted("network", i)
    BY <1>3, Zenon DEF DeleteNetwork, RecordedIDs
  <2> QED BY <1>0, <2>1 DEF CloudSteps, Deleting, ManagedNetworkID
<1> QED BY <1>1, <1>2, <1>3

LEMMA CloudChanges ==
  ASSUME TypeInv, [Next]_vars
  PROVE  CloudSteps
<1>1. CASE ReconcileNothing \/ ReconcileActive \/ CheckZones \/ SetTargets
           \/ ReconcileBastion \/ ResolveBastion \/ AwaitMachines
           \/ PatchConditions \/ PatchSpec \/ PatchStatus \/ PatchDone
           \/ Observe \/ WatchEvent \/ DeleteObject \/ Restart
           \/ ToggleBastion \/ EditLabels \/ EditContent \/ MachinesChange
           \/ UNCHANGED vars
  <2>1. UNCHANGED cloudVars
    BY <1>1, Zenon
           DEF ReconcileNothing, ReconcileActive, Dequeue, CheckZones, SetTargets,
                ReconcileBastion, ResolveBastion, AwaitMachines, PatchConditions,
                PatchSpec, PatchStatus, PatchDone, Observe, WatchEvent, DeleteObject,
                Restart, ToggleBastion, EditLabels, EditContent, Edit, MachinesChange,
                vars
  <2> QED BY <2>1 DEF cloudVars, CloudSteps
<1>2. CASE GrantNodeSSH \/ \E r \in Resources : ResourceChanges(r) \/ DeleteOutOfBand(r)
  BY <1>2 DEF CloudSteps
<1> QED BY <1>1, <1>2, EnsuresCreate, DropsDelete DEF Next, Reconcile

-----------------------------------------------------------------------------
(* One of a kind *)

LEMMA ObjectLabels ==
  ASSUME TypeInv, NEW fields, "labels" \notin fields, "enabled" \notin fields
  PROVE  /\ Patched(fields).labels = api.labels /\ Patched(fields).enabled = api.enabled
         /\ NoObject.labels = InitialLabels /\ NoObject.enabled = BastionAtStart
         /\ [api EXCEPT !.deleting = TRUE].labels = api.labels
         /\ [api EXCEPT !.enabled = ~@].labels = api.labels
         /\ [api EXCEPT !.deleting = TRUE].enabled = api.enabled
<1>0. api \in Objects /\ NewObject \in Objects
  BY NewObjects DEF TypeInv, StoredTyped, WorldTyped
<1>1. {"labels", "enabled"} \subseteq DOMAIN api
  BY <1>0 DEF Objects
<1>2. Patched(fields).labels = api.labels /\ Patched(fields).enabled = api.enabled
  BY <1>1 DEF Patched
<1>3. NewObject.labels = InitialLabels /\ NewObject.enabled = BastionAtStart
  BY Zenon DEF NewObject
<1>4. NoObject.labels = InitialLabels /\ NoObject.enabled = BastionAtStart
  BY <1>0, <1>3 DEF NoObject, Objects
<1>5. /\ [api EXCEPT !.deleting = TRUE].labels = api.labels
      /\ [api EXCEPT !.enabled = ~@].labels = api.labels
      /\ [api EXCEPT !.deleting = TRUE].enabled = api.enabled
  BY <1>0 DEF Objects
<1> QED BY <1>2, <1>4, <1>5

\* The labels of every copy and every tag are those of the spec as created.
LEMMA LabelsKept ==
  ASSUME TypeInv, SameLabels, LabelsFixed, [Next]_vars
  PROVE  SameLabels'
<1>0. /\ "labels" \notin ConditionFields \cup SpecFields \cup StatusFields
      /\ "enabled" \notin ConditionFields \cup SpecFields \cup StatusFields
  BY DEF ConditionFields, SpecFields, StatusFields
<1>1. NoObject.labels = InitialLabels
  BY <1>0, ObjectLabels
<1>2. api'.labels = InitialLabels
  <2>1. ~EditLabels
    BY DEF EditLabels, Edit, LabelsFixed
  <2> QED BY <1>0, <1>1, <2>1, ObjectLabels, StoredCopies, Zenon DEF SameLabels
<1>3. cache'.labels = InitialLabels
  BY StoredCopies DEF SameLabels
<1>4. mem'.labels = InitialLabels /\ before'.labels = InitialLabels
  <2>1. CASE Handlers
    BY <2>1, HandlersSpareSpec DEF SameLabels, SpecKept
  <2>2. CASE ~Handlers
    BY <1>1, <2>2, WorkingCopies DEF SameLabels, SpecKept
  <2> QED BY <2>1, <2>2
<1>5. \A r \in Resources : tags'[r] = InitialLabels
  <2>0. tags \in [Resources -> LabelSets]
    BY DEF TypeInv, CloudTyped
  <2>1. ASSUME NEW k, NEW i, tags' = [tags EXCEPT ![<<k, i>>] = InitialLabels]
        PROVE  \A r \in Resources : tags'[r] = InitialLabels
    BY <2>0, <2>1 DEF SameLabels
  <2>2. \/ tags' = tags
        \/ \E k, i : tags' = [tags EXCEPT ![<<k, i>>] = InitialLabels]
    <3>1. mem.labels = InitialLabels /\ cache.labels = InitialLabels
      BY DEF SameLabels
    <3>2. \/ tags' = tags
          \/ \E k, i : tags' = [tags EXCEPT ![<<k, i>>] = mem.labels]
          \/ \E k, i : tags' = [tags EXCEPT ![<<k, i>>] = cache.labels]
      BY CloudChanges, Zenon DEF CloudSteps, Creating, Create, Deleting, GrantNodeSSH,
         ResourceChanges, DeleteOutOfBand
    <3> QED BY <3>1, <3>2, Zenon
  <2> QED BY <2>1, <2>2, Zenon DEF SameLabels
<1> QED BY <1>2, <1>3, <1>4, <1>5 DEF SameLabels

\* While the labels stay, a lookup by tags finds every resource of the kind.
LEMMA AllMatch ==
  ASSUME SameLabels, NEW k \in Kinds
  PROVE  Matching(k) = {i \in IDs : Present(k, i)}
  BY DEF Matching, SameLabels, Resources

\* A resource that comes into being when none of its kind is present.
LEMMA FirstPresent ==
  ASSUME TypeInv, OnePresent, NEW k \in Kinds, NEW i \in IDs, NEW v,
         \A j \in IDs : ~Present(k, j), state' = [state EXCEPT ![<<k, i>>] = v]
  PROVE  OnePresent'
<1>1. state \in [Resources -> States] /\ \A l \in Kinds, j \in IDs : <<l, j>> \in Resources
  BY DEF TypeInv, CloudTyped, Resources
<1>2. \A l \in Kinds, j \in IDs : <<l, j>> # <<k, i>> => state'[<<l, j>>] = state[<<l, j>>]
  BY <1>1
<1>3. ASSUME NEW l \in Kinds, NEW j \in IDs, Present(l, j)'
      PROVE  (l = k /\ j = i) \/ Present(l, j)
  BY <1>2, <1>3 DEF Present
<1>4. ASSUME NEW l \in Kinds, NEW j \in IDs, NEW h \in IDs, Present(l, j)', Present(l, h)'
      PROVE  j = h
  BY <1>3, <1>4 DEF OnePresent
<1> QED BY <1>4 DEF OnePresent

\* The other steps bring nothing into being.
LEMMA NonePresented ==
  ASSUME TypeInv, OnePresent,
         \A r \in Resources : state'[r] \in {"pending", "up", "deleting"} =>
                                state[r] \in {"pending", "up", "deleting"}
  PROVE  OnePresent'
  BY DEF OnePresent, Present, Resources

LEMMA OnePresentKept ==
  ASSUME TypeInv, SameLabels, OnePresent, [Next]_vars
  PROVE  OnePresent'
<1>0. state \in [Resources -> States]
  BY DEF TypeInv, CloudTyped
<1>1. ASSUME NEW k \in Kinds, NEW i \in IDs, Creating(k, i)
      PROVE  OnePresent'
  <2>1. \A j \in IDs : ~Present(k, j)
    BY <1>1, AllMatch DEF Creating
  <2> QED BY <1>1, <2>1, FirstPresent, Zenon DEF Creating, Create
<1>2. CASE GrantNodeSSH
  <2>1. \A j \in IDs : ~Present("nodeSG", j)
    BY <1>2, Zenon DEF GrantNodeSSH, SameLabels, Resources, Kinds
  <2> QED BY <1>2, <2>1, FirstPresent, Zenon DEF GrantNodeSSH, Kinds
<1>3. ASSUME NEW k \in Kinds, NEW i \in RecordedIDs, Deleting(k, i)
      PROVE  OnePresent'
  BY <1>0, <1>3, NonePresented DEF Deleting, Deleted, Live
<1>4. ASSUME NEW r \in Resources, ResourceChanges(r) \/ DeleteOutOfBand(r)
      PROVE  OnePresent'
  <2>1. \/ state[r] = "pending" /\ state' = [state EXCEPT ![r] = "up"]
        \/ state' = [state EXCEPT ![r] = "gone"]
    BY <1>4, Zenon DEF ResourceChanges, DeleteOutOfBand
  <2> QED BY <1>0, <2>1, NonePresented
<1>5. CASE UNCHANGED state
  BY <1>5, NonePresented
<1> QED BY <1>1, <1>2, <1>3, <1>4, <1>5, CloudChanges DEF CloudSteps

LEMMA LabelsInitially == Init => LabelInv
<1> SUFFICES ASSUME Init PROVE LabelInv
  OBVIOUS
<1>1. TypeInv
  BY InitTyped
<1>2. NoObject.labels = InitialLabels /\ NewObject.labels = InitialLabels
  <2>1. "labels" \notin SpecFields /\ "enabled" \notin SpecFields
    BY DEF SpecFields
  <2>2. NoObject.labels = InitialLabels
    BY <1>1, <2>1, ObjectLabels
  <2> QED BY <2>2, Zenon DEF NewObject
<1>3. SameLabels
  BY <1>2 DEF Init, SameLabels
<1>4. OnePresent
  <2>1. ASSUME NEW k \in Kinds, NEW i \in IDs, Present(k, i)
        PROVE  i = ByoNetworkID
    BY <2>1, Zenon DEF Init, Present, Resources
  <2> QED BY <2>1 DEF OnePresent
<1> QED BY <1>3, <1>4 DEF LabelInv

\* While nobody edits spec.additionalLabels, no failed call, lost response, lost
\* patch, crash or late read leads to a second network, load balancer, bastion
\* server, address or group: the lookup by tags finds what an earlier attempt
\* left (cloud/client.go:23).
THEOREM OneOfAKind == Spec /\ []LabelsFixed => []AtMostOneOfAKind
<1>1. TypeInv /\ LabelInv /\ LabelsFixed /\ [Next]_vars => LabelInv'
  BY LabelsKept, OnePresentKept DEF LabelInv
<1>2. LabelInv => AtMostOneOfAKind
  <2> SUFFICES ASSUME OnePresent, NEW r \in Owned, NEW s \in Owned, r[1] = s[1]
               PROVE  r = s
    BY DEF LabelInv, AtMostOneOfAKind
  <2>1. r \in Kinds \X IDs /\ s \in Kinds \X IDs /\ state[r] \in {"pending", "up"}
        /\ state[s] \in {"pending", "up"}
    BY DEF Owned, Live, Resources
  <2>2. PICK k \in Kinds, i \in IDs, j \in IDs : r = <<k, i>> /\ s = <<k, j>>
    BY <2>1
  <2>3. Present(k, i) /\ Present(k, j)
    BY <2>1, <2>2 DEF Present
  <2> QED BY <2>2, <2>3 DEF OnePresent
<1>3. Spec /\ []LabelsFixed => []LabelInv
  BY <1>1, LabelsInitially, TypesHold, PTL DEF Spec
<1> QED BY <1>2, <1>3, PTL

-----------------------------------------------------------------------------
(* The calls of a reconcile *)

Stops == pc' = "patchConditions" /\ resume' = "idle"

LEMMA Stopping ==
  ASSUME \E m : SetReady(m) \/ \E x : Return(m, x) \/ CloudFails(m, x)
  PROVE  Stops
<1>1. ASSUME NEW o, NEW how, Return(o, how) PROVE Stops
  BY <1>1 DEF Return, Stops
<1>2. \E o, how : Return(o, how)
  BY Zenon DEF SetReady, CloudFails
<1> QED BY <1>1, <1>2

LEMMA DropStopping ==
  ASSUME \E err : DropFails(err) \/ BastionFails(err)
  PROVE  Stops
  BY Stopping, Zenon DEF DropFails, BastionFails

\* The calls that keep, create or drop a bastion, and the last one of the teardown.
Watched == DropSteps \cup {"ensureSG", "ensureServer", "ensureIP", "deleteNetwork"}

\* The steps that lead there.
Leading ==
  \/ ReconcileBastion \/ EnsureSecurityGroup \/ EnsureServer \/ DropNodeSSH
  \/ ResolveBastion \/ DropServer \/ DropIP \/ DropSG \/ DeleteLoadBalancer

Calm ==
  /\ pc' \notin Watched
  /\ ids' \in {ids, NoIDs} /\ userData' \in {userData, InitialContent}

LEMMA CalmSteps ==
  ASSUME [Next]_vars
  PROVE  UNCHANGED reconcileVars \/ Calm \/ Leading
<1> USE DEF Watched, DropSteps
<1>1. CASE CheckZones \/ EnsureNetwork \/ EnsureLoadBalancer \/ SetTargets
  <2>1. Stops \/ pc' \in {"network", "loadBalancer", "targets", "bastion"}
    BY <1>1, Stopping, Zenon DEF CheckZones, EnsureNetwork, EnsureLoadBalancer, SetTargets,
       Continue
  <2>2. UNCHANGED callVars
    BY <1>1, Zenon DEF CheckZones, EnsureNetwork, EnsureLoadBalancer, SetTargets
  <2> QED BY <2>1, <2>2 DEF Stops, Calm, callVars
<1>2. CASE EnsurePublicIP
  <2>1. Stops
    BY <1>2, Stopping, DropStopping, Zenon DEF EnsurePublicIP
  <2>2. UNCHANGED callVars
    BY <1>2, Zenon DEF EnsurePublicIP
  <2> QED BY <2>1, <2>2 DEF Stops, Calm, callVars
<1>3. CASE AwaitMachines \/ DeleteNetwork
  <2>1. Stops \/ pc' = "deleteLB"
    BY <1>3, Stopping, Zenon DEF AwaitMachines, DeleteNetwork, Continue
  <2>2. UNCHANGED callVars
    BY <1>3, Zenon DEF AwaitMachines, DeleteNetwork
  <2> QED BY <2>1, <2>2 DEF Stops, Calm, callVars
<1>4. CASE ReconcileNothing \/ ReconcileActive
  <2>1. pc' \in {"idle", "machines", "patchConditions", "zones"} /\ UNCHANGED callVars
    BY <1>4, Zenon DEF ReconcileNothing, ReconcileActive, Dequeue
  <2> QED BY <2>1 DEF Calm, callVars
<1>5. CASE PatchConditions \/ PatchSpec \/ PatchStatus
  <2>1. pc' \in {"patchSpec", "patchStatus", "patchDone"} /\ UNCHANGED callVars
    BY <1>5, Zenon DEF PatchConditions, PatchSpec, PatchStatus
  <2> QED BY <2>1 DEF Calm, callVars
<1>6. CASE PatchDone \/ Restart
  <2>1. /\ pc' \in {"idle", "zones", "patchConditions"}
        /\ UNCHANGED callVars \/ (ids' = NoIDs /\ userData' = InitialContent)
    BY <1>6, Zenon DEF PatchDone, Restart
  <2> QED BY <2>1 DEF Calm, callVars
<1>7. CASE \/ UNCHANGED vars \/ Observe \/ WatchEvent \/ DeleteObject
           \/ ToggleBastion \/ EditLabels \/ EditContent \/ MachinesChange \/ GrantNodeSSH
           \/ \E r \in Resources : ResourceChanges(r) \/ DeleteOutOfBand(r)
  BY <1>7, Zenon DEF Observe, WatchEvent, DeleteObject, ToggleBastion, EditLabels,
       EditContent, Edit, MachinesChange, GrantNodeSSH, ResourceChanges, DeleteOutOfBand,
       vars
<1> QED BY <1>1, <1>2, <1>3, <1>4, <1>5, <1>6, <1>7 DEF Next, Reconcile, Leading

\* One by one.
LEMMA BastionCalls ==
  ASSUME ReconcileBastion
  PROVE  /\ \/ Stops
            \/ pc' = "dropNodeSSH" /\ (~mem.enabled \/ NeedsRecreate(mem, content))
            \/ pc' = "ensureSG" /\ mem.enabled
         /\ UNCHANGED ids /\ userData' \in {userData, content}
  BY Stopping, Zenon DEF ReconcileBastion, Continue

LEMMA EnsureCalls ==
  ASSUME EnsureSecurityGroup \/ EnsureServer
  PROVE  /\ UNCHANGED userData
         /\ \/ Stops /\ UNCHANGED ids
            \/ \E id \in IDs :
                 /\ pc = "ensureSG" /\ pc' = "ensureServer" /\ Ensure("sg", id, "none")
                 /\ ids' = [NoIDs EXCEPT !.sg = id]
            \/ \E id \in IDs, active \in BOOLEAN :
                 /\ pc = "ensureServer" /\ pc' = "ensureIP" /\ Ensure("server", id, "none")
                 /\ ids' = [ids EXCEPT !.server = id, !.active = active]
  BY DropStopping, Zenon DEF EnsureSecurityGroup, EnsureServer, Continue

\* A drop stops, or it goes on because its resource is deleted or was not found.
LEMMA DropCalls ==
  ASSUME DropNodeSSH \/ ResolveBastion \/ DropServer \/ DropIP \/ DropSG
  PROVE  /\ pc \in DropSteps /\ UNCHANGED userData
         /\ \/ Stops /\ ids' = ids
            \/ /\ pc = "dropNodeSSH" /\ pc' = "resolveBastion" /\ UNCHANGED ids
               /\ \/ Matching("nodeSG") = {} /\ UNCHANGED state
                  \/ \E i \in IDs : Matching("nodeSG") = {i} /\ state' = Deleted("nodeSG", i)
            \/ /\ pc = "resolveBastion" /\ pc' = "dropServer"
               /\ \E s, p, g \in RecordedIDs :
                    /\ Resolved("server", mem.server, s)
                    /\ Resolved("ip", mem.ip, p)
                    /\ Resolved("sg", mem.sg, g)
                    /\ ids' = [server |-> s, ip |-> p, sg |-> g, active |-> FALSE]
               /\ UNCHANGED state
            \/ /\ pc = "dropServer" /\ pc' = "dropIP" /\ state' = Deleted("server", ids.server)
               /\ UNCHANGED ids
            \/ /\ pc = "dropIP" /\ pc' = "dropSG" /\ state' = Deleted("ip", ids.ip)
               /\ UNCHANGED ids
            \/ /\ pc = "dropSG" /\ pc' = "deleteNetwork" /\ state' = Deleted("sg", ids.sg)
               /\ why = "delete" /\ UNCHANGED ids
<1> USE DEF callVars, DropSteps
<1>1. CASE DropNodeSSH
  <2>1. \/ Stops
        \/ /\ pc' = "resolveBastion"
           /\ \/ Matching("nodeSG") = {} /\ UNCHANGED state
              \/ \E i \in IDs : Matching("nodeSG") = {i} /\ state' = Deleted("nodeSG", i)
    BY <1>1, DropStopping, Zenon DEF DropNodeSSH, LookupFails, Continue
  <2>2. pc = "dropNodeSSH" /\ UNCHANGED callVars
    BY <1>1, Zenon DEF DropNodeSSH
  <2> QED BY <2>1, <2>2, Zenon
<1>2. CASE ResolveBastion
  BY <1>2, DropStopping, Zenon DEF ResolveBastion, LookupFails, Continue, RecordedIDs, cloudVars
<1>3. CASE DropServer \/ DropIP
  <2>1. \/ Stops
        \/ pc = "dropServer" /\ pc' = "dropIP" /\ state' = Deleted("server", ids.server)
        \/ pc = "dropIP" /\ pc' = "dropSG" /\ state' = Deleted("ip", ids.ip)
    BY <1>3, DropStopping, Zenon DEF DropServer, DropIP, Drop, Continue
  <2>2. pc \in DropSteps /\ UNCHANGED callVars
    BY <1>3, Zenon DEF DropServer, DropIP
  <2> QED BY <2>1, <2>2, Zenon
<1>4. CASE DropSG
  <2>1. \/ Stops
        \/ pc' = "deleteNetwork" /\ state' = Deleted("sg", ids.sg) /\ why = "delete"
    BY <1>4, Stopping, DropStopping, Zenon DEF DropSG, BastionDropped, Continue
  <2>2. pc = "dropSG" /\ UNCHANGED callVars
    BY <1>4, Zenon DEF DropSG
  <2> QED BY <2>1, <2>2
<1> QED BY <1>1, <1>2, <1>3, <1>4, Zenon

\* Who moves a reconcile.
LEMMA ReconcileMoves ==
  ASSUME [Next]_vars
  PROVE  \/ UNCHANGED reconcileVars
         \/ pc = "idle" /\ ReconcileActive
         \/ Handlers /\ pc \in HandlerSteps
         \/ PatchConditions \/ PatchSpec \/ PatchStatus \/ PatchDone
         \/ pc' = "idle"
<1>1. ASSUME Handlers PROVE pc \in HandlerSteps
  BY <1>1, Zenon DEF Handlers, CheckZones, EnsureNetwork, EnsureLoadBalancer, SetTargets,
     ReconcileBastion, EnsureSecurityGroup, EnsureServer, EnsurePublicIP, DropNodeSSH,
     ResolveBastion, DropServer, DropIP, DropSG, AwaitMachines, DeleteLoadBalancer,
     DeleteNetwork, HandlerSteps, NormalSteps, DropSteps
<1>2. CASE \/ UNCHANGED vars \/ Observe \/ WatchEvent \/ DeleteObject
           \/ ToggleBastion \/ EditLabels \/ EditContent \/ MachinesChange \/ GrantNodeSSH
           \/ \E r \in Resources : ResourceChanges(r) \/ DeleteOutOfBand(r)
  BY <1>2, Zenon DEF Observe, WatchEvent, DeleteObject, ToggleBastion, EditLabels,
       EditContent, Edit, MachinesChange, GrantNodeSSH, ResourceChanges, DeleteOutOfBand,
       vars
<1>3. CASE ReconcileNothing \/ Restart \/ ReconcileActive
  BY <1>3, Zenon DEF ReconcileNothing, Restart, ReconcileActive, Dequeue
<1> QED BY <1>1, <1>2, <1>3 DEF Next, Reconcile, Handlers

LEMMA HandlersKeepFinalizer ==
  ASSUME TypeInv, Handlers, pc \notin {"machines", "deleteLB", "deleteNetwork"}
  PROVE  mem'.finalizer = mem.finalizer
<1> USE DEF Only, Fields, Flags, BastionFields
<1>1. CASE \/ CheckZones \/ SetTargets \/ ReconcileBastion \/ EnsureSecurityGroup
           \/ EnsureServer \/ DropNodeSSH \/ ResolveBastion \/ DropServer \/ DropIP
  <2>1. Only(mem', mem, {})
    BY <1>1, FlagsWritten
  <2> QED BY <2>1
<1>2. CASE EnsureNetwork \/ EnsureLoadBalancer
  <2>1. Only(mem', mem, {"network"}) \/ Only(mem', mem, {"lbID"})
    BY <1>2, NetworkWritten, LoadBalancerWritten
  <2> QED BY <2>1
<1>3. CASE EnsurePublicIP \/ DropSG
  <2>1. Only(mem', mem, BastionFields)
    BY <1>3, BastionWritten, BastionErased
  <2> QED BY <2>1
<1>4. CASE AwaitMachines \/ DeleteLoadBalancer \/ DeleteNetwork
  BY <1>4, Zenon DEF AwaitMachines, DeleteLoadBalancer, DeleteNetwork
<1> QED BY <1>1, <1>2, <1>3, <1>4 DEF Handlers
=============================================================================
