--------------------------- MODULE StackitMachine ---------------------------
(***************************************************************************)
(* The StackitMachine reconciler: one StackitMachine object, the           *)
(* controller that reconciles it, and the STACKIT servers created for it.  *)
(*                                                                         *)
(* controller-runtime never runs two reconciles of one key at a time, so   *)
(* the controller is one sequential process.  Everything else interleaves  *)
(* with it: the user deletes or edits the object, the informer delivers    *)
(* the object late, servers change state, API and cloud calls fail with or *)
(* without taking effect, and the process crashes between any two calls.   *)
(* Each step below ends at a call that another actor can observe.          *)
(*                                                                         *)
(* StackitCluster, Machine, Cluster, the bootstrap Secret and the          *)
(* credentials Secret are environment: a reconcile may find each of them   *)
(* in any state.                                                           *)
(***************************************************************************)
EXTENDS Naturals, FiniteSets

CONSTANTS
  Servers,           \* the server IDs the cloud can hand out
  NoServer,          \* an empty server ID
  LabelSets,         \* values of spec.additionalLabels: sets of key-value pairs
  InitialLabels,     \* spec.additionalLabels as created
  MaxFaults,         \* bound on failed calls, unmet preconditions and crashes
  StaleReads,        \* reads may be served from an informer that lags
  OutOfBandDeletes,  \* someone may delete a server behind the provider's back
  LabelEdits,        \* the user may edit spec.additionalLabels
  LateCreates        \* a create request may execute after its caller gave up

ASSUME ServerAssumption == NoServer \notin Servers
ASSUME LabelAssumption == InitialLabels \in LabelSets
ASSUME BoundAssumption == MaxFaults \in Nat
ASSUME FaultAssumption ==
  /\ StaleReads \in BOOLEAN
  /\ OutOfBandDeletes \in BOOLEAN
  /\ LabelEdits \in BOOLEAN
  /\ LateCreates \in BOOLEAN

VARIABLES
  api,           \* the StackitMachine in the API server
  cache,         \* the informer's copy, which reconciles read
  queued,        \* the work queue holds the object's key
  pc,            \* the next call of the running reconcile, "idle" when none
  mem,           \* the working copy of the running reconcile
  before,        \* the snapshot its patch helper compares mem with
  resume,        \* where the running PatchObject returns to
  target,        \* the server a running deletion resolved
  server,        \* state of every server, "none" until it is created
  serverLabels,  \* labels of every server
  inflight,      \* label sets of create requests nobody waits for any more
  faults,        \* faults so far
  outcome,       \* history: how the last reconcile ended
  skipped        \* history: a CleanupSkipped event was recorded

objectVars == <<api, cache, queued>>
reconcileVars == <<pc, mem, before, resume, target>>
cloudVars == <<server, serverLabels, inflight>>
vars == <<objectVars, reconcileVars, cloudVars, faults, outcome, skipped>>

-----------------------------------------------------------------------------
(* The object.  Messages and timestamps are left out, and the Ready        *)
(* condition is its reason; InstanceReady and BootstrapReady are written   *)
(* together with it.                                                       *)

\* NewProviderID: stackit://<server-id>.
NewProviderID(s) == <<"stackit", s>>

NoProviderID == <<>>

\* Reasons that come with no requeue: a watch event has to wake the machine.
WatchedReasons ==
  {"InfrastructureNotReady", "InvalidFailureDomain", "BootstrapInvalid"}

\* Reasons of an unmet precondition that is polled.
PolledReasons == {"BootstrapPending", "CredentialsInvalid"}

Reasons ==
  WatchedReasons \cup PolledReasons \cup
  {"Unknown", "InstanceNotFound", "InstanceError", "InstanceNotActive",
   "BastionSSHAccessError", "Available"}

ConditionStatus == {"Unknown", "True", "False"}

ServerIDs == Servers \cup {NoServer}

ProviderIDs == {NoProviderID} \cup {NewProviderID(s) : s \in Servers}

Objects ==
  [exists : BOOLEAN, deleting : BOOLEAN,              \* metadata
   finalizer : BOOLEAN,
   labels : LabelSets, providerID : ProviderIDs,      \* spec
   instanceID : ServerIDs, provisioned : BOOLEAN,     \* status
   ready : BOOLEAN,
   paused : ConditionStatus,                          \* status.conditions
   credentials : ConditionStatus, reason : Reasons]

\* A StackitMachine as Cluster API creates it from a template.
NewObject ==
  [exists |-> TRUE, deleting |-> FALSE, finalizer |-> FALSE,
   labels |-> InitialLabels, providerID |-> NoProviderID,
   instanceID |-> NoServer, provisioned |-> FALSE, ready |-> FALSE,
   paused |-> "Unknown", credentials |-> "Unknown", reason |-> "Unknown"]

NoObject == [NewObject EXCEPT !.exists = FALSE]

ServerStates == {"none", "starting", "active", "failed", "deleting", "gone"}

\* Mutant of Present: servers in an error state are not reported.
PresentUnlessFailed(s) ==
  s \in Servers /\ server[s] \in {"starting", "active", "deleting"}

\* Servers that GetServer and ListServers report.
Present(s) ==
  s \in Servers /\ server[s] \in {"starting", "active", "failed", "deleting"}

\* Servers that run, or will, until somebody deletes them.
LiveServers == {s \in Servers : server[s] \in {"starting", "active", "failed"}}

ObjectsTyped ==
  api \in Objects /\ cache \in Objects /\ mem \in Objects /\ before \in Objects

ControlTyped ==
  /\ pc \in {"idle", "gates", "lookup", "createFind", "createPost", "nodeSSH",
             "resolve", "deleteServer",
             "patchConditions", "patchSpec", "patchStatus", "patchDone"}
  /\ resume \in {"gates", "deferred", "idle"}
  /\ outcome \in {"none", "retry", "settled", "waiting", "paused", "orphaned",
                  "unauthorized"}

FlagsTyped == queued \in BOOLEAN /\ skipped \in BOOLEAN

CloudTyped ==
  /\ server \in [Servers -> ServerStates]
  /\ serverLabels \in [Servers -> LabelSets]
  /\ inflight \in SUBSET LabelSets
  /\ target \in ServerIDs

\* Every variable keeps its type; in particular the IDs the reconciler records
\* are IDs of servers, and its reasons are the published ones.
TypeOK ==
  /\ ObjectsTyped
  /\ ControlTyped
  /\ FlagsTyped
  /\ CloudTyped
  /\ faults \in 0..MaxFaults

Init ==
  /\ api = NewObject
  /\ cache = NewObject
  /\ queued = TRUE
  /\ pc = "idle"
  /\ mem = NoObject
  /\ before = NoObject
  /\ resume = "idle"
  /\ target = NoServer
  /\ server = [s \in Servers |-> "none"]
  /\ serverLabels = [s \in Servers |-> InitialLabels]
  /\ inflight = {}
  /\ faults = 0
  /\ outcome = "none"
  /\ skipped = FALSE

\* One of the bounded number of things that go wrong.
Fault ==
  /\ faults < MaxFaults
  /\ faults' = faults + 1

NoFault == faults' = faults

-----------------------------------------------------------------------------
(* Reconcile: the reads every reconcile starts with.                       *)

\* Mutant of Return: the requeue the handler asks for is dropped.
ReturnWithoutRequeue(m, requeue, how) ==
  /\ mem' = m
  /\ pc' = "patchConditions"
  /\ resume' = "idle"
  /\ queued' = queued
  /\ outcome' = how

\* The handler returns with working copy m; the deferred PatchObject is next.
Return(m, requeue, how) ==
  /\ mem' = m
  /\ pc' = "patchConditions"
  /\ resume' = "idle"
  /\ queued' = (queued \/ requeue)
  /\ outcome' = how

\* A reconcile leaves the work queue and reads the informer's copy.
Dequeue ==
  /\ pc = "idle"
  /\ queued
  /\ StaleReads \/ cache = api
  /\ UNCHANGED <<api, cache, target, cloudVars, skipped>>

\* The object is gone, its Machine or StackitCluster is not there, or a read
\* failed: the reconcile returns without a scope, so nothing is patched.
ReconcileNothing ==
  /\ Dequeue
  /\ \/ ~cache.exists /\ NoFault /\ queued' = FALSE /\ outcome' = "settled"
     \/ cache.exists /\ Fault /\ queued' = FALSE /\ outcome' = "orphaned"
     \/ Fault /\ queued' = TRUE /\ outcome' = "retry"
  /\ UNCHANGED <<pc, mem, before, resume>>

\* The Cluster or the object is paused: only the Paused condition is recorded.
ReconcilePaused ==
  /\ Dequeue
  /\ cache.exists
  /\ Fault
  /\ queued' = FALSE
  /\ before' = cache
  /\ mem' = [cache EXCEPT !.paused = "True"]
  /\ pc' = "patchConditions"
  /\ resume' = "idle"
  /\ outcome' = "paused"

\* Dispatch to reconcileDelete or reconcileNormal; the latter persists the
\* finalizer with a PatchObject of its own before anything else.
ReconcileActive ==
  /\ Dequeue
  /\ cache.exists
  /\ NoFault
  /\ queued' = FALSE
  /\ before' = cache
  /\ LET unpaused == [cache EXCEPT !.paused = "False"] IN
     \/ /\ cache.deleting
        /\ mem' = unpaused
        /\ pc' = "resolve"
        /\ resume' = "idle"
     \/ /\ ~cache.deleting
        /\ ~cache.finalizer
        /\ mem' = [unpaused EXCEPT !.finalizer = TRUE]
        /\ pc' = "patchConditions"
        /\ resume' = "gates"
     \/ /\ ~cache.deleting
        /\ cache.finalizer
        /\ mem' = unpaused
        /\ pc' = "gates"
        /\ resume' = "idle"
  /\ UNCHANGED outcome

-----------------------------------------------------------------------------
(* reconcileNormal.                                                        *)

\* The preconditions: StackitCluster ready, zone published, bootstrap data
\* there, credentials usable.  Only the first two also clear status.ready.
CheckGates ==
  /\ pc = "gates"
  /\ \/ /\ NoFault
        /\ mem' = [mem EXCEPT !.credentials = "True"]
        /\ pc' = "lookup"
        /\ UNCHANGED <<resume, queued, outcome>>
     \/ /\ Fault
        /\ \E r \in {"InfrastructureNotReady", "InvalidFailureDomain"} :
             Return([mem EXCEPT !.ready = FALSE, !.reason = r], FALSE, "waiting")
     \/ /\ Fault
        /\ Return([mem EXCEPT !.reason = "BootstrapInvalid"], FALSE, "waiting")
     \/ /\ Fault
        /\ Return([mem EXCEPT !.reason = "BootstrapPending"], TRUE, "retry")
     \/ /\ Fault
        /\ Return([mem EXCEPT !.reason = "CredentialsInvalid",
                              !.credentials = "False"], TRUE, "retry")
  /\ UNCHANGED <<api, cache, before, target, cloudVars, skipped>>

\* SetNotReady with a reason that is retried.
FailWith(r) ==
  Return([mem EXCEPT !.ready = FALSE, !.reason = r], TRUE, "retry")

\* Mutant of WithInstance: the providerID is the server ID without its scheme.
WithBareProviderID(s) ==
  [mem EXCEPT !.instanceID = s, !.providerID = <<s>>, !.provisioned = TRUE]

\* SetInstance.
WithInstance(s) ==
  [mem EXCEPT !.instanceID = s, !.providerID = NewProviderID(s),
              !.provisioned = TRUE]

\* ensureServer returned server s, reported in state st.
Found(s, st) ==
  \/ /\ st = "active"
     /\ mem' = WithInstance(s)
     /\ pc' = "nodeSSH"
     /\ UNCHANGED <<resume, queued, outcome>>
  \/ /\ st # "active"
     /\ Return([WithInstance(s) EXCEPT !.ready = FALSE,
                                       !.reason = "InstanceNotActive"],
               TRUE, "retry")

\* Mutant of Matching: servers that do not run yet are not found.
MatchingActive(tags) ==
  {s \in Servers : server[s] = "active" /\ tags \subseteq serverLabels[s]}

\* FindServerByTags: the servers whose labels contain the machine's tags.  The
\* tags hold the Machine UID, so only this machine's servers can match.
Matching(tags) == {s \in Servers : Present(s) /\ tags \subseteq serverLabels[s]}

\* A server that was provisioned once is not created again.
MayCreate == ~mem.provisioned

\* ensureServer up to CreateServer: GetServer by status.instanceID, then
\* FindServerByTags.  A server that is gone stays gone, so the two lookups
\* are one step.
LookupServer ==
  /\ pc = "lookup"
  /\ \/ /\ NoFault
        /\ \/ /\ Present(mem.instanceID)
              /\ Found(mem.instanceID, server[mem.instanceID])
           \/ /\ ~Present(mem.instanceID)
              /\ \/ \E s \in Servers :
                      Matching(mem.labels) = {s} /\ Found(s, server[s])
                 \/ /\ Cardinality(Matching(mem.labels)) > 1
                    /\ FailWith("InstanceError")
                 \/ /\ Matching(mem.labels) = {}
                    /\ ~MayCreate
                    /\ Return([mem EXCEPT !.ready = FALSE,
                                          !.reason = "InstanceNotFound"],
                              FALSE, "waiting")
                 \/ /\ Matching(mem.labels) = {}
                    /\ MayCreate
                    /\ pc' = "createFind"
                    /\ UNCHANGED <<mem, resume, queued, outcome>>
     \/ Fault /\ FailWith("InstanceError")
  /\ UNCHANGED <<api, cache, before, target, cloudVars, skipped>>

\* CreateServer looks for a server with the tags once more.
CreateServerFind ==
  /\ pc = "createFind"
  /\ \/ /\ NoFault
        /\ \/ \E s \in Servers :
                Matching(mem.labels) = {s} /\ Found(s, server[s])
           \/ /\ Cardinality(Matching(mem.labels)) > 1
              /\ FailWith("InstanceError")
           \/ /\ Matching(mem.labels) = {}
              /\ pc' = "createPost"
              /\ UNCHANGED <<mem, resume, queued, outcome>>
     \/ Fault /\ FailWith("InstanceError")
  /\ UNCHANGED <<api, cache, before, target, cloudVars, skipped>>

\* The cloud creates a server with the given labels.
Provision(s, labels) ==
  /\ server[s] = "none"
  /\ server' = [server EXCEPT ![s] = "starting"]
  /\ serverLabels' = [serverLabels EXCEPT ![s] = labels]

\* CreateServer posts the request.  The response may be lost, the request may
\* be refused, or it may execute after the caller timed out.  A response that
\* carries no state counts as ready (serverStateCondition).
CreateServerPost ==
  /\ pc = "createPost"
  /\ \/ \E s \in Servers :
          /\ Provision(s, mem.labels)
          /\ UNCHANGED inflight
          /\ \/ NoFault /\ \E st \in {"starting", "active"} : Found(s, st)
             \/ Fault /\ FailWith("InstanceError")
     \/ /\ Fault
        /\ FailWith("InstanceError")
        /\ inflight' \in {inflight} \cup
             IF LateCreates THEN {inflight \cup {mem.labels}} ELSE {}
        /\ UNCHANGED <<server, serverLabels>>
  /\ UNCHANGED <<api, cache, before, target, skipped>>

\* reconcileBastionNodeSSHAccess, then SetReady.
NodeSSHAccess ==
  /\ pc = "nodeSSH"
  /\ \/ /\ NoFault
        /\ Return([mem EXCEPT !.ready = TRUE, !.reason = "Available"],
                  FALSE, "settled")
     \/ Fault /\ FailWith("BastionSSHAccessError")
  /\ UNCHANGED <<api, cache, before, target, cloudVars, skipped>>

-----------------------------------------------------------------------------
(* reconcileDelete.                                                        *)

\* RemoveFinalizer on the working copy.
Released(m) == [m EXCEPT !.finalizer = FALSE]

\* ClearInstance: spec.providerID and status.initialization stay.
Cleared(m) == [m EXCEPT !.instanceID = NoServer]

\* BuildCloudClient and resolveServerForDeletion.  A missing credentials Secret
\* finalizes without cleanup.  For invalid credentials the caller drops the
\* requeue that CredentialFailureResult asks for.
ResolveServer ==
  /\ pc = "resolve"
  /\ \/ /\ Fault                                   \* the Secret is gone
        /\ Return(Released(mem), FALSE, "settled")
        /\ skipped' = TRUE
        /\ UNCHANGED target
     \/ /\ Fault                                   \* the Secret is invalid
        /\ Return([mem EXCEPT !.credentials = "False"], FALSE, "unauthorized")
        /\ UNCHANGED <<target, skipped>>
     \/ /\ Fault                                   \* reading it failed
        /\ Return([mem EXCEPT !.credentials = "False"], TRUE, "retry")
        /\ UNCHANGED <<target, skipped>>
     \/ /\ NoFault
        /\ mem.instanceID # NoServer
        /\ target' = mem.instanceID
        /\ pc' = "deleteServer"
        /\ UNCHANGED <<mem, resume, queued, outcome, skipped>>
     \/ /\ NoFault
        /\ mem.instanceID = NoServer
        /\ \E s \in Servers :
             /\ Matching(mem.labels) = {s}
             /\ target' = s
        /\ pc' = "deleteServer"
        /\ UNCHANGED <<mem, resume, queued, outcome, skipped>>
     \/ /\ NoFault
        /\ mem.instanceID = NoServer
        /\ Matching(mem.labels) = {}
        /\ Return(Released(mem), FALSE, "settled")
        /\ UNCHANGED <<target, skipped>>
     \/ /\ \/ /\ NoFault                           \* several servers match
              /\ mem.instanceID = NoServer
              /\ Cardinality(Matching(mem.labels)) > 1
           \/ Fault                                \* the lookup failed
        /\ Return(mem, TRUE, "retry")
        /\ UNCHANGED <<target, skipped>>
  /\ UNCHANGED <<api, cache, before, cloudVars>>

\* Mutant of DeleteServer: its error is logged and the finalizer dropped.
DeleteServerIgnoringErrors ==
  /\ pc = "deleteServer"
  /\ Return(Released(Cleared(mem)), FALSE, "settled")
  /\ \/ NoFault /\ Present(target) /\ server' = [server EXCEPT ![target] = "deleting"]
     \/ NoFault /\ ~Present(target) /\ UNCHANGED server
     \/ Fault /\ UNCHANGED server
  /\ target' = NoServer
  /\ UNCHANGED <<api, cache, before, serverLabels, inflight, skipped>>

\* DeleteServer, where NotFound is success; then ClearInstance and
\* RemoveFinalizer.  The cloud accepts the request and deletes later.
DeleteServer ==
  /\ pc = "deleteServer"
  /\ \/ /\ NoFault
        /\ Return(Released(Cleared(mem)), FALSE, "settled")
        /\ server' = IF Present(target)
                       THEN [server EXCEPT ![target] = "deleting"] ELSE server
     \/ /\ Fault
        /\ Return(mem, TRUE, "retry")
        /\ \/ UNCHANGED server
           \/ /\ Present(target)
              /\ server' = [server EXCEPT ![target] = "deleting"]
  /\ target' = NoServer
  /\ UNCHANGED <<api, cache, before, serverLabels, inflight, skipped>>

-----------------------------------------------------------------------------
(* PatchObject: the patch helper sends the conditions, then metadata and   *)
(* spec, then the rest of the status, each only if it differs from the     *)
(* snapshot, and goes on to the next part when one fails.                  *)

\* A merge patch carries only the fields that differ from the snapshot.
Merged(f) == IF mem[f] # before[f] THEN mem[f] ELSE api[f]

\* Mutant of Send: a failed request is not retried.
SendOnce(changed, admitted, tolerated, patched) ==
  /\ UNCHANGED <<queued, resume>>
  /\ \/ ~changed /\ NoFault /\ UNCHANGED api
     \/ changed /\ api.exists /\ admitted /\ NoFault /\ api' = patched
     \/ changed /\ ~(api.exists /\ admitted) /\ NoFault /\ UNCHANGED api
     \/ changed /\ Fault /\ UNCHANGED api

\* One request of the patch helper; nothing is sent when nothing changed.
Send(changed, admitted, tolerated, patched) ==
  \/ /\ ~changed
     /\ NoFault
     /\ UNCHANGED <<api, queued, resume>>
  \/ /\ changed
     /\ api.exists
     /\ admitted
     /\ NoFault
     /\ api' = patched
     /\ UNCHANGED <<queued, resume>>
  \/ /\ changed
     /\ ~api.exists
     /\ tolerated
     /\ NoFault
     /\ UNCHANGED <<api, queued, resume>>
  \/ /\ changed
     /\ IF api.exists /\ admitted THEN Fault ELSE ~tolerated /\ NoFault
     /\ queued' = TRUE
     /\ resume' = IF resume = "gates" THEN "deferred" ELSE resume
     /\ UNCHANGED api

PatchConditions ==
  /\ pc = "patchConditions"
  /\ Send(\E f \in {"paused", "credentials", "reason"} : mem[f] # before[f],
          TRUE, FALSE,
          [api EXCEPT !.paused = Merged("paused"),
                      !.credentials = Merged("credentials"),
                      !.reason = Merged("reason")])
  /\ pc' = "patchSpec"
  /\ UNCHANGED <<cache, mem, before, target, cloudVars, outcome, skipped>>

\* The validating webhook: a providerID once set can be neither changed nor
\* removed.
ProviderIDAdmitted ==
  \/ api.providerID = NoProviderID
  \/ Merged("providerID") = api.providerID

\* A deleted object disappears with its last finalizer.
Collected(o) == IF o.deleting /\ ~o.finalizer THEN NoObject ELSE o

PatchSpec ==
  /\ pc = "patchSpec"
  /\ Send(\E f \in {"finalizer", "providerID"} : mem[f] # before[f],
          ProviderIDAdmitted, FALSE,
          Collected([api EXCEPT !.finalizer = Merged("finalizer"),
                                !.providerID = Merged("providerID")]))
  /\ pc' = "patchStatus"
  /\ UNCHANGED <<cache, mem, before, target, cloudVars, outcome, skipped>>

\* Patching the status of an object that the finalizer removal just collected
\* is not an error.
PatchStatus ==
  /\ pc = "patchStatus"
  /\ Send(\E f \in {"instanceID", "provisioned", "ready"} : mem[f] # before[f],
          TRUE, mem.deleting /\ ~mem.finalizer,
          [api EXCEPT !.instanceID = Merged("instanceID"),
                      !.provisioned = Merged("provisioned"),
                      !.ready = Merged("ready")])
  /\ pc' = "patchDone"
  /\ UNCHANGED <<cache, mem, before, target, cloudVars, outcome, skipped>>

\* Mutant of PatchDone: reconcileNormal goes on although the finalizer was not
\* persisted.
PatchDoneIgnoringErrors ==
  /\ pc = "patchDone"
  /\ \/ /\ resume \in {"gates", "deferred"}
        /\ pc' = "gates"
        /\ UNCHANGED <<mem, before, outcome>>
     \/ /\ resume = "idle"
        /\ pc' = "idle"
        /\ mem' = NoObject
        /\ before' = NoObject
        /\ UNCHANGED outcome
  /\ resume' = "idle"
  /\ UNCHANGED <<objectVars, target, cloudVars, faults, skipped>>

\* PatchObject returns: into reconcileNormal once the finalizer is persisted,
\* into the deferred PatchObject when persisting it failed, or out of Reconcile.
PatchDone ==
  /\ pc = "patchDone"
  /\ \/ /\ resume = "gates"
        /\ pc' = "gates"
        /\ UNCHANGED <<mem, before, outcome>>
     \/ /\ resume = "deferred"
        /\ pc' = "patchConditions"
        /\ outcome' = "retry"
        /\ UNCHANGED <<mem, before>>
     \/ /\ resume = "idle"
        /\ pc' = "idle"
        /\ mem' = NoObject
        /\ before' = NoObject
        /\ UNCHANGED outcome
  /\ resume' = "idle"
  /\ UNCHANGED <<objectVars, target, cloudVars, faults, skipped>>

-----------------------------------------------------------------------------
(* Everybody else.                                                         *)

\* Mutant of Observe: the event is filtered out.
ObserveSilently ==
  /\ cache # api
  /\ cache' = api
  /\ UNCHANGED <<api, queued, reconcileVars, cloudVars, faults, outcome, skipped>>

\* The informer catches up and hands the controller an event.
Observe ==
  /\ cache # api
  /\ cache' = api
  /\ queued' = TRUE
  /\ UNCHANGED <<api, reconcileVars, cloudVars, faults, outcome, skipped>>

\* An event of the Machine, the StackitCluster or the bootstrap Secret.
WatchEvent ==
  /\ ~queued
  /\ cache.exists
  /\ queued' = TRUE
  /\ UNCHANGED <<api, cache, reconcileVars, cloudVars, faults, outcome, skipped>>

\* Somebody deletes the StackitMachine.
DeleteObject ==
  /\ api.exists
  /\ ~api.deleting
  /\ api' = Collected([api EXCEPT !.deleting = TRUE])
  /\ UNCHANGED <<cache, queued, reconcileVars, cloudVars, faults, outcome, skipped>>

\* Somebody edits spec.additionalLabels; the webhook allows it as long as
\* status.instanceID is empty.
EditLabels(l) ==
  /\ LabelEdits
  /\ api.exists
  /\ api.instanceID = NoServer
  /\ l # api.labels
  /\ api' = [api EXCEPT !.labels = l]
  /\ UNCHANGED <<cache, queued, reconcileVars, cloudVars, faults, outcome, skipped>>

\* The controller crashes and starts again: informers list the objects anew
\* and every key is queued.
Restart ==
  /\ Fault
  /\ pc' = "idle"
  /\ mem' = NoObject
  /\ before' = NoObject
  /\ resume' = "idle"
  /\ target' = NoServer
  /\ cache' = api
  /\ queued' = TRUE
  /\ UNCHANGED <<api, cloudVars, outcome, skipped>>

\* A server boots, breaks, recovers or finishes being deleted.
ServerChanges(s) ==
  /\ \/ server[s] \in {"starting", "failed"} /\ server' = [server EXCEPT ![s] = "active"]
     \/ server[s] \in {"starting", "active"} /\ server' = [server EXCEPT ![s] = "failed"]
     \/ server[s] = "deleting" /\ server' = [server EXCEPT ![s] = "gone"]
  /\ UNCHANGED <<objectVars, reconcileVars, serverLabels, inflight, faults, outcome, skipped>>

DeleteOutOfBand(s) ==
  /\ OutOfBandDeletes
  /\ s \in LiveServers
  /\ server' = [server EXCEPT ![s] = "gone"]
  /\ UNCHANGED <<objectVars, reconcileVars, serverLabels, inflight, faults, outcome, skipped>>

\* A create request whose caller gave up executes after all.
CreateLate(s) ==
  /\ \E labels \in inflight :
       /\ Provision(s, labels)
       /\ inflight' = inflight \ {labels}
  /\ UNCHANGED <<objectVars, reconcileVars, faults, outcome, skipped>>

-----------------------------------------------------------------------------
Reconcile ==
  \/ ReconcileNothing \/ ReconcilePaused \/ ReconcileActive
  \/ CheckGates \/ LookupServer \/ CreateServerFind \/ CreateServerPost
  \/ NodeSSHAccess \/ ResolveServer \/ DeleteServer
  \/ PatchConditions \/ PatchSpec \/ PatchStatus \/ PatchDone

Next ==
  \/ Reconcile
  \/ Observe \/ WatchEvent \/ DeleteObject \/ Restart
  \/ \E l \in LabelSets : EditLabels(l)
  \/ \E s \in Servers : ServerChanges(s) \/ DeleteOutOfBand(s) \/ CreateLate(s)

Spec == Init /\ [][Next]_vars

(* The controller works through its queue, the informer catches up, a      *)
(* booting server comes up or fails, a server being deleted disappears.    *)
ServerProgresses(s) == server[s] \in {"starting", "deleting"} /\ ServerChanges(s)

Fairness ==
  /\ WF_vars(Reconcile)
  /\ WF_vars(Observe)
  /\ \A s \in Servers : WF_vars(ServerProgresses(s))

FairSpec == Spec /\ Fairness

-----------------------------------------------------------------------------
(* Properties.                                                             *)

\* A server that runs, or will, is backed by a StackitMachine that carries the
\* finalizer, unless the controller announced that it skips the cleanup.
\* "... to ensure no servers are running behind an object that carries no
\* finalizer to clean it up" (controller/stackitmachine_infrastructure.go:45).
FinalizerGuardsServer ==
  LiveServers # {} => (api.exists /\ api.finalizer) \/ skipped

\* At most one server runs for the machine, whatever calls fail, responses get
\* lost or restarts happen between CreateServer and the status patch
\* (CreateServer "must not produce duplicates", cloud/client.go:23).
AtMostOneServer == \A s, t \in LiveServers : s = t

\* CreateServer is never sent for a machine that has anything of a server on
\* record, whichever of PatchObject's requests was lost and however old the copy
\* is that the reconcile decides on: the lookup by tags finds the server that the
\* copy does not know (ensureServer, controller/stackitmachine_infrastructure.go:331).
NeverRecreated ==
  pc = "createPost" =>
    /\ ~api.provisioned
    /\ api.instanceID = NoServer /\ api.providerID = NoProviderID

\* The server named by spec.providerID is the one named by status.instanceID,
\* although the two are persisted by different requests (SetInstance).
IdentityAgrees ==
  api.providerID # NoProviderID /\ api.instanceID # NoServer =>
    api.providerID = NewProviderID(api.instanceID)

\* Nothing will happen to the object unless an event arrives from outside.
Quiet == pc = "idle" /\ ~queued /\ cache = api /\ api.exists

\* The controller comes to rest on a deleted machine only where it waits for
\* somebody: while paused, without an owner, or with invalid credentials.
DeletionNeverForgotten ==
  Quiet /\ api.deleting => outcome \in {"paused", "orphaned", "unauthorized"}

\* "Every other credentials problem is fixable and keeps retrying"
\* (controller/stackitmachine_infrastructure.go:222): a deletion that is neither
\* paused nor orphaned never rests.
DeletionKeepsRetrying ==
  Quiet /\ api.deleting => outcome \in {"paused", "orphaned"}

\* When the controller rests on a machine that is not deleted, the published
\* Ready condition is final: Available with status.ready, or a reason that only
\* an event can clear.  Patches computed from a stale snapshot are corrected
\* before the controller comes to rest.
RestIsPublished ==
  Quiet /\ ~api.deleting /\ outcome \in {"settled", "waiting"} =>
    \/ api.ready /\ api.reason = "Available"
    \/ api.reason \in WatchedReasons \cup {"InstanceNotFound"}

\* A machine that is deleted disappears, or the controller comes to rest on it
\* for one of the reasons of DeletionNeverForgotten.
DeletionCompletes ==
  api.exists /\ api.deleting ~>
    \/ ~api.exists
    \/ Quiet /\ outcome \in {"paused", "orphaned", "unauthorized"}

\* A machine becomes ready, or it is deleted, its server broke, or its reconcile
\* ended where only an event can continue it.  No wakeup is lost between the
\* calls of one reconcile.
ProvisioningCompletes ==
  api.exists /\ ~api.deleting ~>
    \/ api.ready \/ api.deleting \/ ~api.exists
    \/ \E s \in Servers : server[s] = "failed"
    \/ Quiet /\ outcome \in {"waiting", "paused", "orphaned"}

\* The machine keeps the promise of GuardedResource about its servers.
Ownership ==
  INSTANCE GuardedResource WITH
    Resources <- Servers,
    kind <- [s \in Servers |-> "server"],
    guarded <- api.exists /\ api.finalizer,
    live <- LiveServers,
    abandoned <- skipped

\* Creating, adopting, losing and deleting servers, adding and removing the
\* finalizer, through every interleaving, crash and lost patch, implement the
\* abstract ownership protocol of GuardedResource step by step.
OwnershipSpec == Ownership!Spec

-----------------------------------------------------------------------------
(* The inductive invariant behind the safety properties when nobody but    *)
(* the controller creates, deletes or relabels servers.                    *)

NormalSteps == {"gates", "lookup", "createFind", "createPost", "nodeSSH"}

PatchSteps == {"patchConditions", "patchSpec", "patchStatus", "patchDone"}

Created(s) == server[s] # "none"

\* The informer knows of the deletion; it cannot forget it.
DeletionSeen == ~cache.exists \/ cache.deleting

\* Labels are the ones the object was created with and no request is late.
FixedLabels ==
  /\ \A o \in {api, cache, mem} : o.labels = InitialLabels
  /\ \A s \in Servers : serverLabels[s] = InitialLabels
  /\ inflight = {}

\* Every server an object names was created.
OnRecord(o) ==
  /\ o.instanceID # NoServer => Created(o.instanceID)
  /\ o.provisioned => \E s \in Servers : Created(s)
  /\ o.providerID # NoProviderID =>
       \E s \in Servers : Created(s) /\ o.providerID = NewProviderID(s)

AllOnRecord == OnRecord(api) /\ OnRecord(cache) /\ OnRecord(mem) /\ OnRecord(before)

\* No second server is ever created.
OneCreated ==
  /\ \A s, t \in Servers : Created(s) /\ Created(t) => s = t
  /\ pc = "deleteServer" => target # NoServer /\ Created(target)
  /\ pc = "createPost" => \A s \in Servers : ~Created(s)

\* The informer lags behind the API server but never runs ahead of it.
CacheLags ==
  /\ DeletionSeen => ~api.exists \/ api.deleting
  /\ ~DeletionSeen /\ cache.finalizer => api.exists /\ api.finalizer

\* reconcileNormal runs only on objects whose finalizer is persisted.
FinalizerFirst ==
  /\ pc \in NormalSteps =>
       /\ api.exists /\ api.finalizer
       /\ ~mem.deleting /\ mem.finalizer
  /\ resume = "gates" =>
       /\ pc \in PatchSteps
       /\ ~mem.deleting /\ mem.finalizer /\ ~before.finalizer
       /\ pc \in {"patchStatus", "patchDone"} => api.exists /\ api.finalizer
  /\ resume = "deferred" => pc \in PatchSteps /\ mem.finalizer
  /\ api.deleting => api.exists /\ api.finalizer
  /\ api.exists /\ ~api.finalizer => \A s \in Servers : ~Created(s)

\* Servers are torn down, and finalizers removed, only by a reconcile that saw
\* the deletion; from then on no reconcile can create a server.
TeardownLast ==
  /\ pc \in {"resolve", "deleteServer"} =>
       DeletionSeen /\ resume = "idle" /\ mem.finalizer = before.finalizer
  /\ pc \in PatchSteps /\ before.finalizer /\ ~mem.finalizer =>
       DeletionSeen /\ (LiveServers = {} \/ skipped)
  /\ (\E s \in Servers : server[s] \in {"deleting", "gone"}) =>
       DeletionSeen /\ pc \notin NormalSteps /\ resume = "idle"

SafeInv ==
  /\ FixedLabels
  /\ AllOnRecord
  /\ OneCreated
  /\ CacheLags
  /\ FinalizerFirst
  /\ TeardownLast
  /\ FinalizerGuardsServer

\* Between the calls of every reconcile: one server at most was ever created,
\* every ID on record is its ID, the finalizer is persisted before the server
\* can exist, and the finalizer goes only after the server.  Inductive; implies
\* FinalizerGuardsServer, AtMostOneServer, NeverRecreated and IdentityAgrees.
IndInv == TypeOK /\ SafeInv

-----------------------------------------------------------------------------
(* The inductive invariant behind what the controller rests on, with all   *)
(* disturbances.                                                           *)

\* The published Ready condition of an object that is not deleted is final.
Published(o) ==
  \/ o.ready /\ o.reason = "Available"
  \/ o.reason \in WatchedReasons \cup {"InstanceNotFound"}

\* What the outcome of a reconcile that will not be repeated says of the object
\* it read.
Justified(o) ==
  IF o.deleting
    THEN outcome \in {"paused", "orphaned", "unauthorized"}
    ELSE outcome \in {"settled", "waiting"} => Published(o)

\* The fields only the controller writes, by the request that carries them.
ConditionFields == {"paused", "credentials", "reason"}

SpecFields == {"finalizer", "providerID"}

StatusFields == {"instanceID", "provisioned", "ready"}

\* The informer still has to deliver what the controller wrote.
Behind ==
  \/ ~api.exists
  \/ \E f \in ConditionFields \cup SpecFields \cup StatusFields : api[f] # cache[f]

\* The running PatchObject has taken care of the fields.
Carried(fields) ==
  ~queued => \A f \in fields : ~api.exists \/ mem[f] = before[f] \/ api[f] = mem[f]

\* The running reconcile works on the object it read, which is still the
\* informer's copy unless the key was queued again.
Snapshot ==
  pc # "idle" =>
    /\ before.exists
    /\ mem.deleting = before.deleting
    /\ queued \/ before = cache

\* The two halves of a reconcile never mix.
Halves ==
  /\ pc \in NormalSteps => ~mem.deleting
  /\ pc \in {"resolve", "deleteServer"} => mem.deleting
  /\ resume # "idle" => pc \in PatchSteps /\ ~mem.deleting
  /\ resume = "deferred" => queued

\* What the working copy says when the handler has returned.
Ended ==
  /\ outcome # "none"
  /\ outcome = "retry" => queued
  /\ outcome = "waiting" => ~mem.deleting /\ Published(mem)
  /\ outcome = "settled" => IF mem.deleting THEN ~mem.finalizer ELSE Published(mem)

Returned == pc \in PatchSteps /\ resume = "idle" => Ended

\* Only a finalizer keeps a deleted object.
KeptByFinalizer ==
  \A o \in {api, cache} : o.exists /\ o.deleting => o.finalizer

\* The fields before the next request of PatchObject are taken care of.
Sent ==
  /\ pc \in {"patchSpec", "patchStatus", "patchDone"} => Carried(ConditionFields)
  /\ pc \in {"patchStatus", "patchDone"} => Carried(SpecFields)
  /\ pc = "patchDone" => Carried(StatusFields)

\* A controller at rest has its reasons, or there is something to observe.
Rests == pc = "idle" /\ ~queued => ~cache.exists \/ Behind \/ Justified(cache)

\* Between the calls of every reconcile: the outcome describes the working copy,
\* the requests sent so far took effect, or the key is queued again.  Inductive
\* with TypeOK; implies DeletionNeverForgotten and RestIsPublished.
RestInv ==
  /\ KeptByFinalizer
  /\ Snapshot
  /\ Halves
  /\ Returned
  /\ Sent
  /\ Rests
=============================================================================
