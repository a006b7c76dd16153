------------------------ MODULE StackitMachineProofs ------------------------
(***************************************************************************)
(* Proofs about StackitMachine, for any set of servers and labels and any  *)
(* number of faults.                                                       *)
(***************************************************************************)
EXTENDS StackitMachine, TLAPS

-----------------------------------------------------------------------------
(* The object: what the reconciler writes into it keeps it an object.      *)

\* The object as it is created, and the absent one, are objects.
LEMMA ObjectTypes == NewObject \in Objects /\ NoObject \in Objects
  BY LabelAssumption, Zenon
     DEF NewObject, NoObject, Objects, ProviderIDs, ServerIDs, ConditionStatus,
         Reasons, WatchedReasons, PolledReasons

\* The fields of an object.
LEMMA Fields ==
  ASSUME NEW o \in Objects
  PROVE  /\ o.exists \in BOOLEAN /\ o.deleting \in BOOLEAN /\ o.finalizer \in BOOLEAN
         /\ o.labels \in LabelSets /\ o.providerID \in ProviderIDs
         /\ o.instanceID \in ServerIDs
         /\ o.provisioned \in BOOLEAN /\ o.ready \in BOOLEAN
         /\ o.paused \in ConditionStatus /\ o.credentials \in ConditionStatus
         /\ o.reason \in Reasons
  BY DEF Objects

\* AddFinalizer, RemoveFinalizer and a deletion timestamp.
LEMMA SetFlag ==
  ASSUME NEW o \in Objects, NEW b \in BOOLEAN
  PROVE  [o EXCEPT !.finalizer = b] \in Objects /\ [o EXCEPT !.deleting = b] \in Objects
<1>1. [o EXCEPT !.finalizer = b] \in Objects
  BY DEF Objects
<1>2. [o EXCEPT !.deleting = b] \in Objects
  BY DEF Objects
<1> QED
  BY <1>1, <1>2

\* SetReady and SetNotReady.
LEMMA SetReadiness ==
  ASSUME NEW o \in Objects, NEW r \in Reasons
  PROVE  /\ [o EXCEPT !.ready = TRUE, !.reason = r] \in Objects
         /\ [o EXCEPT !.ready = FALSE, !.reason = r] \in Objects
  BY Zenon DEF Objects

\* Recording a problem with the credentials.
LEMMA SetCredentials ==
  ASSUME NEW o \in Objects, NEW r \in Reasons, NEW c \in ConditionStatus
  PROVE  [o EXCEPT !.reason = r, !.credentials = c] \in Objects
  BY Zenon DEF Objects

\* SetInstance and ClearInstance.
LEMMA SetInstance ==
  ASSUME NEW o \in Objects, NEW s \in Servers
  PROVE  [o EXCEPT !.instanceID = s, !.providerID = NewProviderID(s),
                   !.provisioned = TRUE] \in Objects
  BY Zenon DEF Objects, ServerIDs, ProviderIDs

LEMMA ClearInstance ==
  ASSUME NEW o \in Objects
  PROVE  Cleared(o) \in Objects
  BY DEF Objects, ServerIDs, Cleared

\* The three requests of PatchObject.
LEMMA SetConditions ==
  ASSUME NEW o \in Objects, NEW p \in ConditionStatus, NEW c \in ConditionStatus,
         NEW r \in Reasons
  PROVE  [o EXCEPT !.paused = p, !.credentials = c, !.reason = r] \in Objects
  BY Zenon DEF Objects

LEMMA SetSpec ==
  ASSUME NEW o \in Objects, NEW b \in BOOLEAN, NEW i \in ProviderIDs
  PROVE  [o EXCEPT !.finalizer = b, !.providerID = i] \in Objects
  BY Zenon DEF Objects

LEMMA SetStatus ==
  ASSUME NEW o \in Objects, NEW i \in ServerIDs, NEW b \in BOOLEAN, NEW c \in BOOLEAN
  PROVE  [o EXCEPT !.instanceID = i, !.provisioned = b, !.ready = c] \in Objects
<1>1. CASE c = TRUE
  BY <1>1, Zenon DEF Objects
<1>2. CASE c = FALSE
  BY <1>2, Zenon DEF Objects
<1> QED
  BY <1>1, <1>2, Zenon

\* A merge patch takes every field from one object or the other.
LEMMA MergedTyped ==
  ASSUME ObjectsTyped
  PROVE  /\ Merged("paused") \in ConditionStatus
         /\ Merged("credentials") \in ConditionStatus
         /\ Merged("reason") \in Reasons
         /\ Merged("finalizer") \in BOOLEAN
         /\ Merged("providerID") \in ProviderIDs
         /\ Merged("instanceID") \in ServerIDs
         /\ Merged("provisioned") \in BOOLEAN
         /\ Merged("ready") \in BOOLEAN
  BY DEF ObjectsTyped, Objects, Merged

\* The two ways a server call of reconcileNormal goes on.
LEMMA FoundTyped ==
  ASSUME ObjectsTyped, NEW s \in Servers, NEW st, Found(s, st)
  PROVE  mem' \in Objects
<1>1. WithInstance(s) \in Objects
  BY SetInstance, Zenon DEF ObjectsTyped, WithInstance
<1>2. [WithInstance(s) EXCEPT !.ready = FALSE, !.reason = "InstanceNotActive"] \in Objects
  BY <1>1, SetReadiness, Zenon DEF Reasons
<1> QED
  BY <1>1, <1>2 DEF Found, Return

LEMMA FailWithTyped ==
  ASSUME ObjectsTyped, NEW r \in Reasons, FailWith(r)
  PROVE  mem' \in Objects
  BY SetReadiness, Zenon DEF ObjectsTyped, FailWith, Return

\* The fault budget is never overdrawn.
LEMMA FaultsBounded ==
  ASSUME TypeOK, Fault \/ NoFault
  PROVE  (faults \in 0..MaxFaults)'
  BY BoundAssumption DEF TypeOK, Fault, NoFault

-----------------------------------------------------------------------------
\* Every step of the reconciler and of its environment keeps the types.
LEMMA TypeStep == TypeOK /\ [Next]_vars => TypeOK'
<1> SUFFICES ASSUME TypeOK, [Next]_vars PROVE TypeOK'
  OBVIOUS
<1>1. CASE ReconcileNothing
  <2>1. ObjectsTyped'
    BY <1>1 DEF TypeOK, ObjectsTyped, ReconcileNothing, Dequeue
  <2>2. ControlTyped'
    BY <1>1 DEF TypeOK, ControlTyped, ReconcileNothing, Dequeue
  <2>3. FlagsTyped'
    BY <1>1, Zenon DEF TypeOK, FlagsTyped, ReconcileNothing, Dequeue
  <2>4. CloudTyped'
    BY <1>1 DEF TypeOK, CloudTyped, ReconcileNothing, Dequeue, cloudVars
  <2>5. (faults \in 0..MaxFaults)'
    BY <1>1, FaultsBounded DEF ReconcileNothing
  <2> QED
    BY <2>1, <2>2, <2>3, <2>4, <2>5 DEF TypeOK
<1>2. CASE ReconcilePaused
  <2>1. [cache EXCEPT !.paused = "True"] \in Objects
    BY DEF ObjectsTyped, Objects, ConditionStatus, TypeOK
  <2>2. ObjectsTyped'
    BY <1>2, <2>1 DEF TypeOK, ObjectsTyped, ReconcilePaused, Dequeue
  <2>3. ControlTyped'
    BY <1>2 DEF TypeOK, ControlTyped, ReconcilePaused, Dequeue
  <2>4. FlagsTyped'
    BY <1>2, Zenon DEF TypeOK, FlagsTyped, ReconcilePaused, Dequeue
  <2>5. CloudTyped'
    BY <1>2 DEF TypeOK, CloudTyped, ReconcilePaused, Dequeue, cloudVars
  <2>6. (faults \in 0..MaxFaults)'
    BY <1>2, FaultsBounded DEF ReconcilePaused
  <2> QED
    BY <2>2, <2>3, <2>4, <2>5, <2>6 DEF TypeOK
<1>3. CASE ReconcileActive
  <2>1. [cache EXCEPT !.paused = "False"] \in Objects
    BY DEF ObjectsTyped, Objects, ConditionStatus, TypeOK
  <2>2. [[cache EXCEPT !.paused = "False"] EXCEPT !.finalizer = TRUE] \in
     Objects
    BY <2>1, SetFlag, Zenon
  <2>3. ObjectsTyped'
    BY <1>3, <2>1, <2>2 DEF TypeOK, ObjectsTyped, ReconcileActive, Dequeue
  <2>4. ControlTyped'
    BY <1>3 DEF TypeOK, ControlTyped, ReconcileActive, Dequeue
  <2>5. FlagsTyped'
    BY <1>3, Zenon DEF TypeOK, FlagsTyped, ReconcileActive, Dequeue
  <2>6. CloudTyped'
    BY <1>3 DEF TypeOK, CloudTyped, ReconcileActive, Dequeue, cloudVars
  <2>7. (faults \in 0..MaxFaults)'
    BY <1>3, FaultsBounded DEF ReconcileActive
  <2> QED
    BY <2>3, <2>4, <2>5, <2>6, <2>7 DEF TypeOK
<1>4. CASE CheckGates
  <2>1. [mem EXCEPT !.credentials = "True"] \in Objects
    BY DEF ObjectsTyped, Objects, ConditionStatus, TypeOK
  <2>2. \A r \in Reasons : [mem EXCEPT !.ready = FALSE, !.reason = r] \in
     Objects
    BY SetReadiness, Zenon DEF ObjectsTyped, TypeOK
  <2>3. \A r \in Reasons : [mem EXCEPT !.reason = r] \in Objects
    BY DEF ObjectsTyped, Objects, TypeOK
  <2>4. [mem EXCEPT !.reason = "CredentialsInvalid", !.credentials =
     "False"] \in Objects
    <3>1. mem \in Objects
      BY DEF TypeOK, ObjectsTyped
    <3>2. "CredentialsInvalid" \in Reasons /\ "False" \in ConditionStatus
      BY DEF Reasons, PolledReasons, ConditionStatus
    <3> QED
      BY <3>1, <3>2, SetCredentials, Zenon
  <2>5. ObjectsTyped'
    BY <1>4, <2>1, <2>2, <2>3, <2>4 DEF TypeOK, ObjectsTyped, CheckGates,
       Return, Reasons, WatchedReasons, PolledReasons
  <2>6. ControlTyped'
    BY <1>4 DEF TypeOK, ControlTyped, CheckGates, Return
  <2>7. FlagsTyped'
    BY <1>4, Zenon DEF TypeOK, FlagsTyped, CheckGates, Return
  <2>8. CloudTyped'
    BY <1>4 DEF TypeOK, CloudTyped, CheckGates, cloudVars
  <2>9. (faults \in 0..MaxFaults)'
    BY <1>4, FaultsBounded, Zenon DEF CheckGates
  <2> QED
    BY <2>5, <2>6, <2>7, <2>8, <2>9 DEF TypeOK
<1>5. CASE LookupServer
  <2>1. [mem EXCEPT !.ready = FALSE, !.reason = "InstanceNotFound"] \in
     Objects
    BY SetReadiness, Zenon DEF ObjectsTyped, Reasons, TypeOK
  <2>2. mem' \in Objects
    BY <1>5, <2>1, FoundTyped, FailWithTyped DEF ObjectsTyped, LookupServer,
       Return, Present, Reasons, TypeOK
  <2>3. ObjectsTyped'
    BY <1>5, <2>1, <2>2 DEF TypeOK, ObjectsTyped, LookupServer
  <2>4. ControlTyped'
    BY <1>5, Zenon DEF TypeOK, ControlTyped, LookupServer, Found, FailWith, Return
  <2>5. FlagsTyped'
    BY <1>5, Zenon DEF TypeOK, FlagsTyped, LookupServer, Found, FailWith, Return
  <2>6. CloudTyped'
    BY <1>5 DEF TypeOK, CloudTyped, LookupServer, cloudVars
  <2>7. (faults \in 0..MaxFaults)'
    BY <1>5, FaultsBounded, Zenon DEF LookupServer
  <2> QED
    BY <2>3, <2>4, <2>5, <2>6, <2>7 DEF TypeOK
<1>6. CASE CreateServerFind
  <2>1. "InstanceError" \in Reasons
    BY DEF Reasons
  <2>2. mem' \in Objects
    BY <1>6, <2>1, FoundTyped, FailWithTyped DEF ObjectsTyped,
       CreateServerFind, TypeOK
  <2>3. ObjectsTyped'
    BY <1>6, <2>1, <2>2 DEF TypeOK, ObjectsTyped, CreateServerFind
  <2>4. ControlTyped'
    BY <1>6, Zenon DEF TypeOK, ControlTyped, CreateServerFind, Found, FailWith,
       Return
  <2>5. FlagsTyped'
    BY <1>6, Zenon DEF TypeOK, FlagsTyped, CreateServerFind, Found, FailWith,
       Return
  <2>6. CloudTyped'
    BY <1>6 DEF TypeOK, CloudTyped, CreateServerFind, cloudVars
  <2>7. (faults \in 0..MaxFaults)'
    BY <1>6, FaultsBounded DEF CreateServerFind
  <2> QED
    BY <2>3, <2>4, <2>5, <2>6, <2>7 DEF TypeOK
<1>7. CASE CreateServerPost
  <2>1. mem' \in Objects
    BY <1>7, FoundTyped, FailWithTyped DEF CreateServerPost, Reasons, TypeOK
  <2>2. ObjectsTyped'
    BY <1>7, <2>1 DEF TypeOK, ObjectsTyped, CreateServerPost
  <2>3. ControlTyped'
    BY <1>7, Zenon DEF TypeOK, ControlTyped, CreateServerPost, Found, FailWith,
       Return
  <2>4. FlagsTyped'
    BY <1>7, Zenon DEF TypeOK, FlagsTyped, CreateServerPost, Found, FailWith,
       Return
  <2>5. CloudTyped'
    BY <1>7, Fields DEF TypeOK, CloudTyped, CreateServerPost, cloudVars,
       ServerStates, Provision, ObjectsTyped
  <2>6. (faults \in 0..MaxFaults)'
    BY <1>7, FaultsBounded DEF CreateServerPost
  <2> QED
    BY <2>2, <2>3, <2>4, <2>5, <2>6 DEF TypeOK
<1>8. CASE NodeSSHAccess
  <2>1. [mem EXCEPT !.ready = TRUE, !.reason = "Available"] \in Objects
    BY SetReadiness, Zenon DEF ObjectsTyped, Reasons, TypeOK
  <2>2. [mem EXCEPT !.ready = FALSE, !.reason = "BastionSSHAccessError"] \in
     Objects
    BY SetReadiness, Zenon DEF ObjectsTyped, Reasons, TypeOK
  <2>3. ObjectsTyped'
    BY <1>8, <2>1, <2>2 DEF TypeOK, ObjectsTyped, NodeSSHAccess, FailWith,
       Return
  <2>4. ControlTyped'
    BY <1>8 DEF TypeOK, ControlTyped, NodeSSHAccess, FailWith, Return
  <2>5. FlagsTyped'
    BY <1>8, Zenon DEF TypeOK, FlagsTyped, NodeSSHAccess, FailWith, Return
  <2>6. CloudTyped'
    BY <1>8 DEF TypeOK, CloudTyped, NodeSSHAccess, cloudVars
  <2>7. (faults \in 0..MaxFaults)'
    BY <1>8, FaultsBounded, Zenon DEF NodeSSHAccess
  <2> QED
    BY <2>3, <2>4, <2>5, <2>6, <2>7 DEF TypeOK
<1>9. CASE ResolveServer
  <2>1. Released(mem) \in Objects
    BY SetFlag, Zenon DEF ObjectsTyped, Released, TypeOK
  <2>2. [mem EXCEPT !.credentials = "False"] \in Objects
    BY DEF ObjectsTyped, Objects, ConditionStatus, TypeOK
  <2>3. ObjectsTyped'
    BY <1>9, <2>1, <2>2 DEF TypeOK, ObjectsTyped, ResolveServer, Return
  <2>4. ControlTyped'
    BY <1>9 DEF TypeOK, ControlTyped, ResolveServer, Return
  <2>5. FlagsTyped'
    BY <1>9, Zenon DEF TypeOK, FlagsTyped, ResolveServer, Return
  <2>6. CloudTyped'
    BY <1>9, Fields, Zenon DEF TypeOK, CloudTyped, ResolveServer, cloudVars,
       ServerIDs, ObjectsTyped
  <2>7. (faults \in 0..MaxFaults)'
    BY <1>9, FaultsBounded, Zenon DEF ResolveServer
  <2> QED
    BY <2>3, <2>4, <2>5, <2>6, <2>7 DEF TypeOK
<1>10. CASE DeleteServer
  <2>1. Cleared(mem) \in Objects
    BY ClearInstance DEF ObjectsTyped, TypeOK
  <2>2. Released(Cleared(mem)) \in Objects
    BY <2>1, SetFlag, Zenon DEF Released
  <2>3. ObjectsTyped'
    BY <1>10, <2>1, <2>2 DEF TypeOK, ObjectsTyped, DeleteServer, Return
  <2>4. ControlTyped'
    BY <1>10 DEF TypeOK, ControlTyped, DeleteServer, Return
  <2>5. FlagsTyped'
    BY <1>10, Zenon DEF TypeOK, FlagsTyped, DeleteServer, Return
  <2>6. CloudTyped'
    BY <1>10, Zenon DEF TypeOK, CloudTyped, DeleteServer, cloudVars, ServerStates,
       Present, ServerIDs
  <2>7. (faults \in 0..MaxFaults)'
    BY <1>10, FaultsBounded, Zenon DEF DeleteServer
  <2> QED
    BY <2>3, <2>4, <2>5, <2>6, <2>7 DEF TypeOK
<1>11. CASE PatchConditions
  <2>1. [api EXCEPT !.paused = Merged("paused"), !.credentials =
     Merged("credentials"), !.reason = Merged("reason")] \in Objects
    BY MergedTyped, SetConditions, Zenon DEF ObjectsTyped, TypeOK
  <2>2. ObjectsTyped'
    BY <1>11, <2>1 DEF TypeOK, ObjectsTyped, PatchConditions, Send
  <2>3. ControlTyped'
    BY <1>11 DEF TypeOK, ControlTyped, PatchConditions, Send
  <2>4. FlagsTyped'
    BY <1>11, Zenon DEF TypeOK, FlagsTyped, PatchConditions, Send
  <2>5. CloudTyped'
    BY <1>11 DEF TypeOK, CloudTyped, PatchConditions, cloudVars
  <2>6. (faults \in 0..MaxFaults)'
    BY <1>11, FaultsBounded DEF PatchConditions, Send
  <2> QED
    BY <2>2, <2>3, <2>4, <2>5, <2>6 DEF TypeOK
<1>12. CASE PatchSpec
  <2>1. [api EXCEPT !.finalizer = Merged("finalizer"), !.providerID =
     Merged("providerID")] \in Objects
    BY MergedTyped, SetSpec, Zenon DEF ObjectsTyped, TypeOK
  <2>2. ObjectsTyped'
    BY <1>12, <2>1, ObjectTypes DEF TypeOK, ObjectsTyped, PatchSpec, Send,
       Collected
  <2>3. ControlTyped'
    BY <1>12 DEF TypeOK, ControlTyped, PatchSpec, Send
  <2>4. FlagsTyped'
    BY <1>12, Zenon DEF TypeOK, FlagsTyped, PatchSpec, Send
  <2>5. CloudTyped'
    BY <1>12 DEF TypeOK, CloudTyped, PatchSpec, cloudVars
  <2>6. (faults \in 0..MaxFaults)'
    BY <1>12, FaultsBounded DEF PatchSpec, Send
  <2> QED
    BY <2>2, <2>3, <2>4, <2>5, <2>6 DEF TypeOK
<1>13. CASE PatchStatus
  <2>1. [api EXCEPT !.instanceID = Merged("instanceID"), !.provisioned =
     Merged("provisioned"), !.ready = Merged("ready")] \in Objects
    BY MergedTyped, SetStatus, Zenon DEF ObjectsTyped, TypeOK
  <2>2. ObjectsTyped'
    BY <1>13, <2>1 DEF TypeOK, ObjectsTyped, PatchStatus, Send
  <2>3. ControlTyped'
    BY <1>13 DEF TypeOK, ControlTyped, PatchStatus, Send
  <2>4. FlagsTyped'
    BY <1>13, Zenon DEF TypeOK, FlagsTyped, PatchStatus, Send
  <2>5. CloudTyped'
    BY <1>13 DEF TypeOK, CloudTyped, PatchStatus, cloudVars
  <2>6. (faults \in 0..MaxFaults)'
    BY <1>13, FaultsBounded DEF PatchStatus, Send
  <2> QED
    BY <2>2, <2>3, <2>4, <2>5, <2>6 DEF TypeOK
<1>14. CASE PatchDone
  <2>1. ObjectsTyped'
    BY <1>14, ObjectTypes DEF TypeOK, ObjectsTyped, PatchDone, objectVars,
       reconcileVars
  <2>2. ControlTyped'
    BY <1>14 DEF TypeOK, ControlTyped, PatchDone, reconcileVars
  <2>3. FlagsTyped'
    BY <1>14 DEF TypeOK, FlagsTyped, PatchDone, objectVars
  <2>4. CloudTyped'
    BY <1>14 DEF TypeOK, CloudTyped, PatchDone, cloudVars, reconcileVars
  <2>5. (faults \in 0..MaxFaults)'
    BY <1>14 DEF TypeOK, PatchDone
  <2> QED
    BY <2>1, <2>2, <2>3, <2>4, <2>5 DEF TypeOK
<1>15. CASE Observe
  <2>1. ObjectsTyped'
    BY <1>15 DEF TypeOK, ObjectsTyped, Observe, objectVars, reconcileVars
  <2>2. ControlTyped'
    BY <1>15 DEF TypeOK, ControlTyped, Observe, reconcileVars
  <2>3. FlagsTyped'
    BY <1>15 DEF TypeOK, FlagsTyped, Observe, objectVars
  <2>4. CloudTyped'
    BY <1>15 DEF TypeOK, CloudTyped, Observe, cloudVars, reconcileVars
  <2>5. (faults \in 0..MaxFaults)'
    BY <1>15 DEF TypeOK, Observe
  <2> QED
    BY <2>1, <2>2, <2>3, <2>4, <2>5 DEF TypeOK
<1>16. CASE WatchEvent
  <2>1. ObjectsTyped'
    BY <1>16 DEF TypeOK, ObjectsTyped, WatchEvent, objectVars, reconcileVars
  <2>2. ControlTyped'
    BY <1>16 DEF TypeOK, ControlTyped, WatchEvent, reconcileVars
  <2>3. FlagsTyped'
    BY <1>16 DEF TypeOK, FlagsTyped, WatchEvent, objectVars
  <2>4. CloudTyped'
    BY <1>16 DEF TypeOK, CloudTyped, WatchEvent, cloudVars, reconcileVars
  <2>5. (faults \in 0..MaxFaults)'
    BY <1>16 DEF TypeOK, WatchEvent
  <2> QED
    BY <2>1, <2>2, <2>3, <2>4, <2>5 DEF TypeOK
<1>17. CASE DeleteObject
  <2>1. [api EXCEPT !.deleting = TRUE] \in Objects
    BY SetFlag, Zenon DEF ObjectsTyped, TypeOK
  <2>2. ObjectsTyped'
    BY <1>17, <2>1, ObjectTypes DEF TypeOK, ObjectsTyped, DeleteObject,
       Collected, objectVars, reconcileVars
  <2>3. ControlTyped'
    BY <1>17 DEF TypeOK, ControlTyped, DeleteObject, reconcileVars
  <2>4. FlagsTyped'
    BY <1>17 DEF TypeOK, FlagsTyped, DeleteObject, objectVars
  <2>5. CloudTyped'
    BY <1>17 DEF TypeOK, CloudTyped, DeleteObject, cloudVars, reconcileVars
  <2>6. (faults \in 0..MaxFaults)'
    BY <1>17 DEF TypeOK, DeleteObject
  <2> QED
    BY <2>2, <2>3, <2>4, <2>5, <2>6 DEF TypeOK
<1>18. CASE Restart
  <2>1. ObjectsTyped'
    BY <1>18, ObjectTypes DEF TypeOK, ObjectsTyped, Restart, objectVars,
       reconcileVars
  <2>2. ControlTyped'
    BY <1>18 DEF TypeOK, ControlTyped, Restart, reconcileVars
  <2>3. FlagsTyped'
    BY <1>18 DEF TypeOK, FlagsTyped, Restart, objectVars
  <2>4. CloudTyped'
    BY <1>18 DEF TypeOK, CloudTyped, Restart, cloudVars, reconcileVars,
       ServerIDs
  <2>5. (faults \in 0..MaxFaults)'
    BY <1>18, FaultsBounded DEF Restart
  <2> QED
    BY <2>1, <2>2, <2>3, <2>4, <2>5 DEF TypeOK
<1>19. ASSUME NEW l \in LabelSets, EditLabels(l) PROVE TypeOK'
  <2>1. ObjectsTyped'
    BY <1>19 DEF TypeOK, ObjectsTyped, EditLabels, reconcileVars, Objects
  <2> QED
    BY <1>19, <2>1 DEF TypeOK, ControlTyped, FlagsTyped, CloudTyped, EditLabels,
                       reconcileVars, cloudVars
<1>20. ASSUME NEW s \in Servers, ServerChanges(s) \/ DeleteOutOfBand(s) PROVE TypeOK'
  <2>1. CloudTyped'
    BY <1>20 DEF TypeOK, CloudTyped, ServerChanges, DeleteOutOfBand, reconcileVars,
                 ServerStates
  <2>2. UNCHANGED <<objectVars, reconcileVars, faults, outcome, skipped>>
    BY <1>20 DEF ServerChanges, DeleteOutOfBand
  <2>3. ObjectsTyped'
    BY <2>2 DEF TypeOK, ObjectsTyped, objectVars, reconcileVars
  <2>4. ControlTyped'
    BY <2>2 DEF TypeOK, ControlTyped, objectVars, reconcileVars
  <2>5. FlagsTyped'
    BY <2>2 DEF TypeOK, FlagsTyped, objectVars
  <2> QED
    BY <2>1, <2>2, <2>3, <2>4, <2>5 DEF TypeOK
<1>21. ASSUME NEW s \in Servers, CreateLate(s) PROVE TypeOK'
  <2>1. CloudTyped'
    BY <1>21 DEF TypeOK, CloudTyped, CreateLate, Provision, reconcileVars, ServerStates
  <2> QED
    BY <1>21, <2>1 DEF TypeOK, ObjectsTyped, ControlTyped, FlagsTyped, CreateLate,
                       objectVars, reconcileVars
<1>22. CASE UNCHANGED vars
  <2>1. ObjectsTyped'
    BY <1>22 DEF TypeOK, ObjectsTyped, vars, objectVars, reconcileVars
  <2>2. ControlTyped'
    BY <1>22 DEF TypeOK, ControlTyped, vars, objectVars, reconcileVars
  <2>3. FlagsTyped'
    BY <1>22 DEF TypeOK, FlagsTyped, vars, objectVars
  <2>4. CloudTyped'
    BY <1>22 DEF TypeOK, CloudTyped, vars, reconcileVars, cloudVars
  <2> QED
    BY <1>22, <2>1, <2>2, <2>3, <2>4 DEF TypeOK, vars
<1> QED
  BY <1>1, <1>2, <1>3, <1>4, <1>5, <1>6, <1>7, <1>8, <1>9, <1>10, <1>11, <1>12,
     <1>13, <1>14, <1>15, <1>16, <1>17, <1>18, <1>19, <1>20, <1>21, <1>22
     DEF Next, Reconcile

LEMMA TypeInit == Init => TypeOK
<1> SUFFICES ASSUME Init PROVE TypeOK
  OBVIOUS
<1>1. ObjectsTyped
  BY ObjectTypes DEF Init, ObjectsTyped
<1>2. CloudTyped
  BY LabelAssumption DEF Init, CloudTyped, ServerStates, ServerIDs
<1>3. faults \in 0..MaxFaults
  BY BoundAssumption DEF Init
<1> QED
  BY <1>1, <1>2, <1>3, Zenon DEF Init, TypeOK, ControlTyped, FlagsTyped

\* Every variable keeps its type: the IDs and reasons the reconciler records are
\* IDs of servers and published reasons (SetInstance, SetReady, SetNotReady).
THEOREM TypeCorrect == Spec => []TypeOK
  BY TypeInit, TypeStep, PTL DEF Spec

-----------------------------------------------------------------------------
(* What the controller rests on.                                           *)

ControllerFields == ConditionFields \cup SpecFields \cup StatusFields

\* What somebody else may do to the object: delete it, edit its labels, and with
\* its last finalizer it disappears.
Spared ==
  \/ ~api'.exists
  \/ api'.exists = api.exists /\ \A f \in ControllerFields : api'[f] = api[f]

LEMMA BystanderRests ==
  ASSUME RestInv, Spared, KeptByFinalizer',
         UNCHANGED <<cache, queued, pc, mem, before, resume, outcome>>
  PROVE  RestInv'
<1>1. Snapshot' /\ Halves' /\ Returned'
  BY DEF RestInv, Snapshot, Halves, Returned, Ended, Published
<1>2. ASSUME NEW fields \in SUBSET ControllerFields, Carried(fields)
      PROVE  Carried(fields)'
  BY <1>2 DEF Carried, Spared
<1>3. Sent'
  BY <1>2 DEF RestInv, Sent, ControllerFields
<1>4. Rests'
  BY DEF RestInv, Rests, Behind, Justified, Published, Spared, ControllerFields
<1> QED BY <1>1, <1>3, <1>4 DEF RestInv

\* The informer, or a watch, queues the key.
LEMMA QueuedRests ==
  ASSUME RestInv, KeptByFinalizer', queued' = TRUE,
         UNCHANGED <<pc, mem, before, resume, outcome>>
  PROVE  RestInv'
  BY DEF RestInv, Snapshot, Halves, Returned, Ended, Published, Sent, Carried, Rests

\* The three ways a handler goes on.
GoesOn(steps) ==
  /\ pc' \in steps
  /\ mem'.deleting = mem.deleting
  /\ UNCHANGED <<resume, queued, outcome>>

Returns ==
  /\ pc' = "patchConditions"
  /\ resume' = "idle"
  /\ mem'.deleting = mem.deleting
  /\ queued => queued'
  /\ Ended'

LEMMA HandlerRests ==
  ASSUME RestInv, TypeOK, UNCHANGED <<api, cache, before>>,
         \/ pc \in NormalSteps /\ GoesOn(NormalSteps)
         \/ pc = "resolve" /\ GoesOn({"deleteServer"})
         \/ pc \in NormalSteps \cup {"resolve", "deleteServer"} /\ Returns
  PROVE  RestInv'
<1> USE DEF NormalSteps, PatchSteps
<1>1. pc # "idle" /\ pc' # "idle" /\ resume = "idle"
  BY DEF RestInv, Halves, GoesOn, Returns, TypeOK, ControlTyped
<1>2. KeptByFinalizer'
  BY DEF RestInv, KeptByFinalizer
<1>3. Snapshot'
  BY <1>1 DEF RestInv, Snapshot, GoesOn, Returns
<1>4. Halves'
  BY <1>1 DEF RestInv, Halves, GoesOn, Returns
<1>5. Returned'
  BY <1>1 DEF Returned, GoesOn, Returns
<1>6. Sent' /\ Rests'
  BY <1>1 DEF Sent, Rests, GoesOn, Returns
<1> QED BY <1>2, <1>3, <1>4, <1>5, <1>6 DEF RestInv

\* SetNotReady with a requeue, from any call of the handlers.
LEMMA FailReturns ==
  ASSUME ObjectsTyped, NEW r, FailWith(r)
  PROVE  Returns
<1>1. mem'.deleting = mem.deleting
  BY DEF ObjectsTyped, Objects, FailWith, Return
<1> QED BY <1>1, Zenon DEF FailWith, Return, Returns, Ended

LEMMA FoundGoesOn ==
  ASSUME ObjectsTyped, NEW s, NEW st, Found(s, st)
  PROVE  GoesOn(NormalSteps) \/ Returns
<1>1. mem'.deleting = mem.deleting
  BY Zenon DEF ObjectsTyped, Objects, Found, WithInstance, Return
<1> QED BY <1>1, Zenon DEF Found, Return, Returns, Ended, GoesOn, NormalSteps

\* A retry asks for the requeue whatever the working copy says.
LEMMA RetryReturns ==
  ASSUME NEW m, Return(m, TRUE, "retry"), m.deleting = mem.deleting
  PROVE  Returns
  BY Zenon DEF Return, Returns, Ended

LEMMA GatesGoOn ==
  ASSUME TypeOK, ~mem.deleting, CheckGates
  PROVE  GoesOn(NormalSteps) \/ Returns
<1> mem \in Objects
  BY DEF TypeOK, ObjectsTyped
<1>1. CASE NoFault /\ mem' = [mem EXCEPT !.credentials = "True"] /\ pc' = "lookup"
           /\ UNCHANGED <<resume, queued, outcome>>
  BY <1>1 DEF Objects, GoesOn, NormalSteps
<1>2. ASSUME NEW r \in {"InfrastructureNotReady", "InvalidFailureDomain"},
             Return([mem EXCEPT !.ready = FALSE, !.reason = r], FALSE, "waiting")
      PROVE  Returns
  <2>1. mem'.deleting = mem.deleting /\ mem'.reason = r
    BY <1>2 DEF Objects, Return
  <2> QED BY <1>2, <2>1, Zenon DEF Return, Returns, Ended, Published, WatchedReasons
<1>3. ASSUME Return([mem EXCEPT !.reason = "BootstrapInvalid"], FALSE, "waiting")
      PROVE  Returns
  <2>1. mem'.deleting = mem.deleting /\ mem'.reason = "BootstrapInvalid"
    BY <1>3 DEF Objects, Return
  <2> QED BY <1>3, <2>1, Zenon DEF Return, Returns, Ended, Published, WatchedReasons
<1>4. /\ [mem EXCEPT !.reason = "BootstrapPending"].deleting = mem.deleting
      /\ [mem EXCEPT !.reason = "CredentialsInvalid",
                     !.credentials = "False"].deleting = mem.deleting
  BY DEF Objects
<1> QED BY <1>1, <1>2, <1>3, <1>4, RetryReturns, Zenon DEF CheckGates

LEMMA ServerCallsGoOn ==
  ASSUME TypeOK, ~mem.deleting, LookupServer \/ CreateServerFind \/ CreateServerPost
  PROVE  GoesOn(NormalSteps) \/ Returns
<1> ObjectsTyped /\ mem \in Objects
  BY DEF TypeOK, ObjectsTyped
<1>1. ASSUME Return([mem EXCEPT !.ready = FALSE, !.reason = "InstanceNotFound"],
                    FALSE, "waiting")
      PROVE  Returns
  <2>1. mem'.deleting = mem.deleting /\ mem'.reason = "InstanceNotFound"
    BY <1>1 DEF Objects, Return
  <2> QED BY <1>1, <2>1, Zenon DEF Return, Returns, Ended, Published
<1>2. ASSUME pc' \in NormalSteps, UNCHANGED <<mem, resume, queued, outcome>>
      PROVE  GoesOn(NormalSteps)
  BY <1>2 DEF GoesOn
<1>3. CASE LookupServer
  BY <1>1, <1>2, <1>3, FoundGoesOn, FailReturns, Zenon DEF LookupServer, NormalSteps
<1>4. CASE CreateServerFind
  BY <1>2, <1>4, FoundGoesOn, FailReturns DEF CreateServerFind, NormalSteps
<1>5. CASE CreateServerPost
  BY <1>5, FoundGoesOn, FailReturns DEF CreateServerPost
<1> QED BY <1>3, <1>4, <1>5

LEMMA NodeSSHGoesOn ==
  ASSUME TypeOK, ~mem.deleting, NodeSSHAccess
  PROVE  Returns
<1> ObjectsTyped /\ mem \in Objects
  BY DEF TypeOK, ObjectsTyped
<1>1. ASSUME Return([mem EXCEPT !.ready = TRUE, !.reason = "Available"], FALSE, "settled")
      PROVE  Returns
  <2>1. mem'.deleting = mem.deleting /\ mem'.reason = "Available" /\ mem'.ready
    BY <1>1 DEF Objects, Return
  <2> QED BY <1>1, <2>1, Zenon DEF Return, Returns, Ended, Published
<1> QED BY <1>1, FailReturns, Zenon DEF NodeSSHAccess

LEMMA DeletionGoesOn ==
  ASSUME TypeOK, mem.deleting, ResolveServer \/ DeleteServer
  PROVE  (pc = "resolve" /\ GoesOn({"deleteServer"})) \/ Returns
<1> mem \in Objects
  BY DEF TypeOK, ObjectsTyped
<1>1. ASSUME NEW m \in {mem, Cleared(mem)}, Return(Released(m), FALSE, "settled")
      PROVE  Returns
  <2>1. mem'.deleting = mem.deleting /\ mem'.finalizer = FALSE
    BY <1>1, Zenon DEF Objects, Return, Released, Cleared
  <2> QED BY <1>1, <2>1, Zenon DEF Return, Returns, Ended
<1>2. [mem EXCEPT !.credentials = "False"].deleting = mem.deleting
  BY Zenon DEF Objects
<1>3. ASSUME Return([mem EXCEPT !.credentials = "False"], FALSE, "unauthorized")
      PROVE  Returns
  BY <1>2, <1>3, Zenon DEF Return, Returns, Ended
<1>4. ASSUME pc = "resolve", pc' = "deleteServer", UNCHANGED <<mem, resume, queued, outcome>>
      PROVE  pc = "resolve" /\ GoesOn({"deleteServer"})
  BY <1>4, Zenon DEF GoesOn
<1>5. CASE ResolveServer
  BY <1>1, <1>2, <1>3, <1>4, <1>5, RetryReturns, Zenon DEF ResolveServer
<1>6. CASE DeleteServer
  BY <1>1, <1>6, RetryReturns, Zenon DEF DeleteServer
<1> QED BY <1>5, <1>6

\* A reconcile leaves the queue with a fresh snapshot.
LEMMA DequeueRests ==
  ASSUME RestInv, TypeOK, ReconcilePaused \/ ReconcileActive
  PROVE  RestInv'
<1> USE DEF NormalSteps, PatchSteps
<1> cache \in Objects
  BY DEF TypeOK, ObjectsTyped
<1>1. /\ UNCHANGED <<api, cache>> /\ cache.exists /\ before' = cache
      /\ pc' \in {"gates", "resolve", "patchConditions"}
      /\ resume' \in {"idle", "gates"}
  BY DEF ReconcilePaused, ReconcileActive, Dequeue
<1>2. /\ mem'.deleting = cache.deleting
      /\ pc' = "gates" \/ resume' = "gates" => ~cache.deleting
      /\ pc' = "resolve" => cache.deleting
      /\ resume' = "gates" => pc' = "patchConditions"
  <2>1. [cache EXCEPT !.paused = "True"].deleting = cache.deleting
    BY DEF Objects
  <2>2. [cache EXCEPT !.paused = "False"].deleting = cache.deleting
    BY DEF Objects
  <2>3. [[cache EXCEPT !.paused = "False"] EXCEPT !.finalizer = TRUE].deleting
          = cache.deleting
    BY DEF Objects
  <2> QED BY <2>1, <2>2, <2>3, Zenon DEF ReconcilePaused, ReconcileActive
<1>3. pc' = "patchConditions" /\ resume' = "idle" => outcome' = "paused"
  BY DEF ReconcilePaused, ReconcileActive
<1>4. KeptByFinalizer' /\ Snapshot' /\ Halves'
  BY <1>1, <1>2 DEF RestInv, KeptByFinalizer, Snapshot, Halves
<1>5. Returned'
  BY <1>1, <1>3 DEF Returned, Ended
<1>6. Sent' /\ Rests'
  BY <1>1 DEF Sent, Rests
<1> QED BY <1>4, <1>5, <1>6 DEF RestInv

LEMMA NothingRests ==
  ASSUME RestInv, TypeOK, ReconcileNothing
  PROVE  RestInv'
<1>1. /\ UNCHANGED <<api, cache, pc, mem, before, resume>> /\ pc = "idle"
      /\ \/ queued' = TRUE
         \/ queued' = FALSE /\ (~cache.exists \/ outcome' = "orphaned")
  BY DEF ReconcileNothing, Dequeue
<1>2. KeptByFinalizer' /\ Snapshot' /\ Sent'
  BY <1>1 DEF RestInv, KeptByFinalizer, Snapshot, Sent
<1>3. Halves' /\ Returned'
  BY <1>1 DEF RestInv, Halves, Returned, PatchSteps, NormalSteps
<1>4. Rests'
  BY <1>1 DEF Rests, Justified
<1> QED BY <1>2, <1>3, <1>4 DEF RestInv

\* One request of PatchObject: the fields it carries are taken care of, and the
\* others keep their value, or the object is gone.
LEMMA RequestRests ==
  ASSUME NEW fields \in SUBSET ControllerFields, NEW o, NEW admitted, NEW tolerated,
         Send(\E f \in fields : mem[f] # before[f], admitted, tolerated, o),
         o.exists => /\ \A f \in fields : o[f] = Merged(f)
                     /\ \A f \in ControllerFields \ fields : o[f] = api[f],
         UNCHANGED <<mem, before>>
  PROVE  /\ Carried(fields)'
         /\ \A g \in SUBSET (ControllerFields \ fields) : Carried(g) => Carried(g)'
         /\ queued => queued'
<1>1. CASE \A f \in fields : mem[f] = before[f]
  BY <1>1 DEF Send, Carried
<1>2. CASE /\ \E f \in fields : mem[f] # before[f]
           /\ api.exists /\ api' = o /\ UNCHANGED queued
  <2>1. Carried(fields)'
    BY <1>2 DEF Carried, Merged
  <2>2. ASSUME NEW g \in SUBSET (ControllerFields \ fields), Carried(g)
        PROVE  Carried(g)'
    BY <1>2, <2>2 DEF Carried
  <2> QED BY <1>2, <2>1, <2>2
<1>3. CASE ~api.exists /\ UNCHANGED <<api, queued>>
  BY <1>3 DEF Carried
<1>4. CASE queued' = TRUE
  BY <1>4 DEF Carried
<1> QED BY <1>1, <1>2, <1>3, <1>4, Zenon DEF Send

\* What the requests send: their own fields merged, the others as they were.
LEMMA SentObjects ==
  ASSUME TypeOK
  PROVE  LET c == [api EXCEPT !.paused = Merged("paused"),
                              !.credentials = Merged("credentials"),
                              !.reason = Merged("reason")]
             m == Collected([api EXCEPT !.finalizer = Merged("finalizer"),
                                        !.providerID = Merged("providerID")])
             s == [api EXCEPT !.instanceID = Merged("instanceID"),
                              !.provisioned = Merged("provisioned"),
                              !.ready = Merged("ready")]
         IN  /\ \A f \in ConditionFields : c[f] = Merged(f)
             /\ \A f \in ControllerFields \ ConditionFields : c[f] = api[f]
             /\ m.exists => /\ \A f \in SpecFields : m[f] = Merged(f)
                            /\ \A f \in ControllerFields \ SpecFields : m[f] = api[f]
             /\ m.exists /\ m.deleting => m.finalizer
             /\ \A f \in StatusFields : s[f] = Merged(f)
             /\ \A f \in ControllerFields \ StatusFields : s[f] = api[f]
             /\ c.exists = api.exists /\ c.deleting = api.deleting
             /\ s.exists = api.exists /\ s.deleting = api.deleting
<1> USE DEF ControllerFields, ConditionFields, SpecFields, StatusFields
<1> api \in Objects
  BY DEF TypeOK, ObjectsTyped
<1> DEFINE p == [api EXCEPT !.finalizer = Merged("finalizer"),
                            !.providerID = Merged("providerID")]
           c == [api EXCEPT !.paused = Merged("paused"),
                            !.credentials = Merged("credentials"),
                            !.reason = Merged("reason")]
           s == [api EXCEPT !.instanceID = Merged("instanceID"),
                            !.provisioned = Merged("provisioned"),
                            !.ready = Merged("ready")]
<1>1. /\ \A f \in ConditionFields : c[f] = Merged(f)
      /\ \A f \in ControllerFields \ ConditionFields : c[f] = api[f]
      /\ c.exists = api.exists /\ c.deleting = api.deleting
  BY Zenon DEF Objects
<1>2. /\ \A f \in SpecFields : p[f] = Merged(f)
      /\ \A f \in ControllerFields \ SpecFields : p[f] = api[f]
  BY Zenon DEF Objects
<1>3. /\ \A f \in StatusFields : s[f] = Merged(f)
      /\ \A f \in ControllerFields \ StatusFields : s[f] = api[f]
      /\ s.exists = api.exists /\ s.deleting = api.deleting
  BY Zenon DEF Objects
<1>4. ~NoObject.exists
  BY DEF NoObject, NewObject
<1> HIDE DEF c, p, s
<1>5. /\ Collected(p).exists => Collected(p) = p
      /\ Collected(p).exists /\ Collected(p).deleting => Collected(p).finalizer
  BY <1>4 DEF Collected
<1> QED BY <1>1, <1>2, <1>3, <1>5, Zenon DEF c, p, s

\* The three requests keep everything but Sent as it was.
LEMMA PatchingRests ==
  ASSUME RestInv, TypeOK,
         pc \in {"patchConditions", "patchSpec", "patchStatus"},
         pc' \in {"patchSpec", "patchStatus", "patchDone"},
         UNCHANGED <<cache, mem, before, outcome>>,
         api' = api \/ (api'.exists /\ api'.deleting => api'.finalizer),
         \/ UNCHANGED <<queued, resume>>
         \/ queued' = TRUE /\ resume' = IF resume = "gates" THEN "deferred" ELSE resume
  PROVE  KeptByFinalizer' /\ Snapshot' /\ Halves' /\ Returned' /\ Rests'
<1> USE DEF NormalSteps, PatchSteps
<1>1. KeptByFinalizer'
  BY DEF RestInv, KeptByFinalizer
<1>2. Snapshot' /\ Rests'
  BY DEF RestInv, Snapshot, Rests
<1>3. Halves'
  BY DEF RestInv, Halves
<1>4. Returned'
  BY DEF RestInv, Returned, Ended, Published, TypeOK, ControlTyped
<1> QED BY <1>1, <1>2, <1>3, <1>4

LEMMA PatchConditionsRests ==
  ASSUME RestInv, TypeOK, PatchConditions
  PROVE  RestInv'
<1> DEFINE o == [api EXCEPT !.paused = Merged("paused"),
                            !.credentials = Merged("credentials"),
                            !.reason = Merged("reason")]
<1>1. /\ \A f \in ConditionFields : o[f] = Merged(f)
      /\ \A f \in ControllerFields \ ConditionFields : o[f] = api[f]
      /\ o.exists = api.exists /\ o.deleting = api.deleting
  BY SentObjects
<1> HIDE DEF o
<1>2. /\ Send(\E f \in ConditionFields : mem[f] # before[f], TRUE, FALSE, o)
      /\ pc = "patchConditions" /\ pc' = "patchSpec"
      /\ UNCHANGED <<cache, mem, before, outcome>>
  BY Zenon DEF PatchConditions, ConditionFields, o
<1>3. api' = api \/ (api'.exists /\ api'.deleting => api'.finalizer)
  BY <1>1, <1>2
     DEF RestInv, KeptByFinalizer, Send, ControllerFields, ConditionFields, SpecFields
<1>4. KeptByFinalizer' /\ Snapshot' /\ Halves' /\ Returned' /\ Rests'
  BY <1>2, <1>3, PatchingRests, Zenon DEF Send
<1>5. Carried(ConditionFields)'
  BY <1>1, <1>2, RequestRests, Zenon DEF ControllerFields
<1>6. Sent'
  BY <1>2, <1>5 DEF Sent
<1> QED BY <1>4, <1>6 DEF RestInv

LEMMA PatchSpecRests ==
  ASSUME RestInv, TypeOK, PatchSpec
  PROVE  RestInv'
<1> DEFINE o == Collected([api EXCEPT !.finalizer = Merged("finalizer"),
                                      !.providerID = Merged("providerID")])
<1>1. /\ o.exists => /\ \A f \in SpecFields : o[f] = Merged(f)
                     /\ \A f \in ControllerFields \ SpecFields : o[f] = api[f]
      /\ o.exists /\ o.deleting => o.finalizer
  BY SentObjects
<1> HIDE DEF o
<1>2. /\ Send(\E f \in SpecFields : mem[f] # before[f], ProviderIDAdmitted, FALSE, o)
      /\ pc = "patchSpec" /\ pc' = "patchStatus"
      /\ UNCHANGED <<cache, mem, before, outcome>>
  BY Zenon DEF PatchSpec, SpecFields, o
<1>3. api' = api \/ (api'.exists /\ api'.deleting => api'.finalizer)
  BY <1>1, <1>2 DEF Send
<1>4. KeptByFinalizer' /\ Snapshot' /\ Halves' /\ Returned' /\ Rests'
  BY <1>2, <1>3, PatchingRests, Zenon DEF Send
<1>5. Carried(SpecFields)' /\ (Carried(ConditionFields) => Carried(ConditionFields)')
  <2>1. /\ SpecFields \in SUBSET ControllerFields
        /\ ConditionFields \in SUBSET (ControllerFields \ SpecFields)
    BY DEF ControllerFields, ConditionFields, SpecFields
  <2> QED BY <1>1, <1>2, <2>1, RequestRests, Zenon
<1>6. Sent'
  BY <1>2, <1>5 DEF RestInv, Sent
<1> QED BY <1>4, <1>6 DEF RestInv

LEMMA PatchStatusRests ==
  ASSUME RestInv, TypeOK, PatchStatus
  PROVE  RestInv'
<1> DEFINE o == [api EXCEPT !.instanceID = Merged("instanceID"),
                            !.provisioned = Merged("provisioned"),
                            !.ready = Merged("ready")]
           tolerated == mem.deleting /\ ~mem.finalizer
<1>1. /\ \A f \in StatusFields : o[f] = Merged(f)
      /\ \A f \in ControllerFields \ StatusFields : o[f] = api[f]
      /\ o.exists = api.exists /\ o.deleting = api.deleting
  BY SentObjects
<1>2. /\ Send(\E f \in StatusFields : mem[f] # before[f], TRUE, tolerated, o)
      /\ pc = "patchStatus" /\ pc' = "patchDone"
      /\ UNCHANGED <<cache, mem, before, outcome>>
  BY Zenon DEF PatchStatus, StatusFields
<1> HIDE DEF o, tolerated
<1>3. api' = api \/ (api'.exists /\ api'.deleting => api'.finalizer)
  BY <1>1, <1>2
     DEF RestInv, KeptByFinalizer, Send, ControllerFields, StatusFields, SpecFields
<1>4. KeptByFinalizer' /\ Snapshot' /\ Halves' /\ Returned' /\ Rests'
  BY <1>2, <1>3, PatchingRests, Zenon DEF Send
<1>5. /\ Carried(StatusFields)'
      /\ Carried(ConditionFields) => Carried(ConditionFields)'
      /\ Carried(SpecFields) => Carried(SpecFields)'
  <2>1. /\ StatusFields \in SUBSET ControllerFields
        /\ ConditionFields \in SUBSET (ControllerFields \ StatusFields)
        /\ SpecFields \in SUBSET (ControllerFields \ StatusFields)
    BY DEF ControllerFields, ConditionFields, SpecFields, StatusFields
  <2> QED BY <1>1, <1>2, <2>1, RequestRests, Zenon
<1>6. Sent'
  BY <1>2, <1>5 DEF RestInv, Sent
<1> QED BY <1>4, <1>6 DEF RestInv

\* The reconcile ends: with nothing queued and nothing to observe, the object it
\* read says what the working copy says.
LEMMA PatchDoneRests ==
  ASSUME RestInv, TypeOK, PatchDone
  PROVE  RestInv'
<1> USE DEF NormalSteps, PatchSteps
<1>1. pc = "patchDone" /\ UNCHANGED <<api, cache, queued>> /\ resume' = "idle"
  BY DEF PatchDone, objectVars
<1>2. KeptByFinalizer'
  BY <1>1 DEF RestInv, KeptByFinalizer
<1>3. CASE resume = "gates"
  <2>1. pc' = "gates" /\ UNCHANGED <<mem, before, outcome>>
    BY <1>3 DEF PatchDone
  <2> QED BY <1>1, <1>2, <1>3, <2>1
          DEF RestInv, Snapshot, Halves, Returned, Sent, Rests
<1>4. CASE resume = "deferred"
  <2>1. pc' = "patchConditions" /\ outcome' = "retry" /\ UNCHANGED <<mem, before>>
    BY <1>4 DEF PatchDone
  <2>2. queued
    BY <1>4 DEF RestInv, Halves
  <2> QED BY <1>1, <1>2, <1>4, <2>1, <2>2
          DEF RestInv, Snapshot, Halves, Returned, Ended, Sent, Rests
<1>5. CASE resume = "idle"
  <2>1. pc' = "idle" /\ UNCHANGED outcome
    BY <1>5 DEF PatchDone
  <2>2. Snapshot' /\ Halves' /\ Returned' /\ Sent'
    BY <1>1, <2>1 DEF Snapshot, Halves, Returned, Sent
  <2>3. ASSUME ~queued, ~Behind
        PROVE  Justified(cache)
    <3>1. before = cache /\ cache.exists /\ mem.deleting = cache.deleting
      BY <1>1, <2>3 DEF RestInv, Snapshot
    <3>2. \A f \in ControllerFields : mem[f] = cache[f]
      BY <1>1, <2>3, <3>1 DEF RestInv, Sent, Carried, Behind, ControllerFields
    <3>3. /\ mem.finalizer = cache.finalizer
          /\ mem.ready = cache.ready /\ mem.reason = cache.reason
      BY <3>2 DEF ControllerFields, ConditionFields, SpecFields, StatusFields
    <3>4. Ended
      BY <1>1, <1>5 DEF RestInv, Returned
    <3>5. CASE cache.deleting
      <4>1. cache.finalizer
        BY <3>1, <3>5 DEF RestInv, KeptByFinalizer
      <4>2. outcome \notin {"none", "retry", "waiting", "settled"}
        BY <2>3, <3>1, <3>3, <3>4, <3>5, <4>1 DEF Ended
      <4> QED BY <3>5, <4>2 DEF Justified, TypeOK, ControlTyped
    <3>6. CASE ~cache.deleting
      BY <3>1, <3>3, <3>4, <3>6 DEF Ended, Published, Justified
    <3> QED BY <3>5, <3>6
  <2>4. Rests'
    BY <1>1, <2>1, <2>3 DEF Rests, Behind, Justified, Published
  <2> QED BY <1>2, <2>2, <2>4 DEF RestInv
<1> QED BY <1>3, <1>4, <1>5 DEF TypeOK, ControlTyped

LEMMA RestartRests ==
  ASSUME RestInv, TypeOK, Restart
  PROVE  RestInv'
<1>1. pc' = "idle" /\ queued' = TRUE /\ cache' = api /\ api' = api /\ resume' = "idle"
  BY DEF Restart
<1>2. KeptByFinalizer'
  BY <1>1 DEF RestInv, KeptByFinalizer
<1> QED BY <1>1, <1>2
        DEF RestInv, Snapshot, Halves, Returned, Sent, Rests, NormalSteps, PatchSteps

\* What users do to the object leaves the controller's fields alone.
LEMMA EditsRest ==
  ASSUME RestInv, TypeOK, DeleteObject \/ \E l \in LabelSets : EditLabels(l)
  PROVE  RestInv'
<1> api \in Objects
  BY DEF TypeOK, ObjectsTyped
<1> DEFINE d == [api EXCEPT !.deleting = TRUE]
<1>1. d.exists = api.exists /\ \A f \in ControllerFields : d[f] = api[f]
  BY DEF Objects, ControllerFields, ConditionFields, SpecFields, StatusFields
<1>2. ~NoObject.exists
  BY DEF NoObject, NewObject
<1>3. Collected(d).exists => Collected(d) = d /\ (d.deleting => d.finalizer)
  BY <1>2 DEF Collected
<1>4. ASSUME NEW l \in LabelSets
      PROVE  LET e == [api EXCEPT !.labels = l]
             IN  /\ e.exists = api.exists /\ e.deleting = api.deleting
                 /\ \A f \in ControllerFields : e[f] = api[f]
  BY DEF Objects, ControllerFields, ConditionFields, SpecFields, StatusFields
<1> HIDE DEF d
<1>5. CASE DeleteObject
  <2>1. api' = Collected(d) /\ api.exists
    BY <1>5 DEF DeleteObject, d
  <2>2. Spared
    BY <1>1, <1>3, <2>1, Zenon DEF Spared
  <2>3. KeptByFinalizer'
    BY <1>3, <1>5, <2>1 DEF RestInv, KeptByFinalizer, DeleteObject
  <2> QED BY <1>5, <2>2, <2>3, BystanderRests DEF DeleteObject, reconcileVars
<1>6. CASE \E l \in LabelSets : EditLabels(l)
  <2>1. PICK l \in LabelSets : EditLabels(l)
    BY <1>6
  <2>2. /\ api'.exists = api.exists /\ api'.deleting = api.deleting
        /\ \A f \in ControllerFields : api'[f] = api[f]
    BY <1>4, <2>1, Zenon DEF EditLabels
  <2>3. Spared
    BY <2>2 DEF Spared
  <2>4. KeptByFinalizer'
    BY <2>1, <2>2, Zenon DEF RestInv, KeptByFinalizer, EditLabels, ControllerFields, SpecFields
  <2> QED BY <2>1, <2>3, <2>4, BystanderRests DEF EditLabels, reconcileVars
<1> QED BY <1>5, <1>6

\* Every step keeps the invariant, whatever is lost, late, edited or restarted.
LEMMA RestStep == RestInv /\ TypeOK /\ [Next]_vars => RestInv'
<1> SUFFICES ASSUME RestInv, TypeOK, [Next]_vars PROVE RestInv'
  OBVIOUS
<1>1. ASSUME api' = api PROVE Spared
  BY <1>1 DEF Spared
<1>2. ASSUME UNCHANGED <<api, cache>> PROVE KeptByFinalizer'
  BY <1>2 DEF RestInv, KeptByFinalizer
<1>3. CASE Observe \/ WatchEvent
  <2>1. KeptByFinalizer'
    BY <1>2, <1>3 DEF RestInv, KeptByFinalizer, Observe, WatchEvent
  <2> QED BY <1>3, <2>1, QueuedRests, Zenon DEF Observe, WatchEvent, reconcileVars
<1>4. CASE \/ UNCHANGED vars
           \/ \E s \in Servers : ServerChanges(s) \/ DeleteOutOfBand(s) \/ CreateLate(s)
  <2>1. UNCHANGED <<api, cache, queued, pc, mem, before, resume, outcome>>
    BY <1>4 DEF ServerChanges, DeleteOutOfBand, CreateLate, vars, objectVars, reconcileVars
  <2> QED BY <1>1, <1>2, <2>1, BystanderRests
<1>5. CASE CheckGates \/ LookupServer \/ CreateServerFind \/ CreateServerPost \/ NodeSSHAccess
  <2>1. pc \in NormalSteps /\ UNCHANGED <<api, cache, before>>
    BY <1>5, Zenon DEF CheckGates, LookupServer, CreateServerFind, CreateServerPost,
                NodeSSHAccess, NormalSteps
  <2>2. ~mem.deleting
    BY <2>1 DEF RestInv, Halves
  <2>3. GoesOn(NormalSteps) \/ Returns
    BY <1>5, <2>2, GatesGoOn, ServerCallsGoOn, NodeSSHGoesOn
  <2> QED BY <2>1, <2>3, HandlerRests
<1>6. CASE ResolveServer \/ DeleteServer
  <2>1. pc \in {"resolve", "deleteServer"} /\ UNCHANGED <<api, cache, before>>
    BY <1>6, Zenon DEF ResolveServer, DeleteServer
  <2>2. mem.deleting
    BY <2>1 DEF RestInv, Halves
  <2>3. (pc = "resolve" /\ GoesOn({"deleteServer"})) \/ Returns
    BY <1>6, <2>2, DeletionGoesOn
  <2> QED BY <2>1, <2>3, HandlerRests
<1> QED
  BY <1>3, <1>4, <1>5, <1>6, NothingRests, DequeueRests, PatchConditionsRests,
     PatchSpecRests, PatchStatusRests, PatchDoneRests, RestartRests, EditsRest
     DEF Next, Reconcile

LEMMA RestInit == Init => RestInv
<1> SUFFICES ASSUME Init PROVE RestInv
  OBVIOUS
<1>1. api = NewObject /\ cache = NewObject /\ pc = "idle" /\ queued /\ resume = "idle"
  BY DEF Init
<1>2. ~NewObject.deleting
  BY DEF NewObject
<1> QED BY <1>1, <1>2
        DEF RestInv, KeptByFinalizer, Snapshot, Halves, Returned, Sent, Rests,
            NormalSteps, PatchSteps

\* The invariant behind the two theorems about rest holds with every disturbance
\* the model knows: stale reads, lost patches, crashes, late creates, servers
\* deleted in the portal and label edits.
THEOREM RestInvariant == Spec => []RestInv
  BY RestInit, RestStep, TypeCorrect, PTL DEF Spec

\* The controller rests on a deleted machine only while it is paused, orphaned
\* or holds invalid credentials: no lost patch, failed call or missed event makes
\* reconcileDelete end early.
THEOREM DeletionRemembered == Spec => []DeletionNeverForgotten
<1>1. RestInv => DeletionNeverForgotten
  BY DEF RestInv, Rests, Quiet, Behind, Justified, DeletionNeverForgotten
<1> QED BY <1>1, RestInvariant, PTL

\* The Ready condition the controller rests on is final, although conditions and
\* status are persisted by different requests computed from a snapshot that may
\* be stale.
THEOREM RestPublished == Spec => []RestIsPublished
<1>1. RestInv => RestIsPublished
  BY DEF RestInv, Rests, Quiet, Behind, Justified, Published, RestIsPublished
<1> QED BY <1>1, RestInvariant, PTL

-----------------------------------------------------------------------------
(* A provisioned machine is not provisioned again.                         *)

\* The running reconcile knows that the machine was provisioned.
Remembered == pc # "idle" => (api.provisioned => mem.provisioned)

\* CreateServer is reached only by a machine that was never provisioned.
CreatesOnce == pc \in {"createFind", "createPost"} => ~mem.provisioned

FreshInv == Remembered /\ CreatesOnce

LEMMA FoundProvisioned ==
  ASSUME ObjectsTyped, NEW s, NEW st, Found(s, st)
  PROVE  mem'.provisioned /\ pc' \notin {"idle", "createFind", "createPost"}
  BY Zenon DEF ObjectsTyped, Objects, Found, WithInstance, Return

LEMMA ReturnFresh ==
  ASSUME NEW m, NEW requeue, NEW how, Return(m, requeue, how),
         m.provisioned = mem.provisioned
  PROVE  mem'.provisioned = mem.provisioned /\ pc' \notin {"createFind", "createPost"}
  BY DEF Return

\* The assignments of the handlers leave the flag alone.
LEMMA SameProvisioned ==
  ASSUME NEW o \in Objects, NEW x, NEW y
  PROVE  /\ [o EXCEPT !.ready = x, !.reason = y].provisioned = o.provisioned
         /\ [o EXCEPT !.reason = x].provisioned = o.provisioned
         /\ [o EXCEPT !.credentials = x].provisioned = o.provisioned
         /\ [o EXCEPT !.reason = x, !.credentials = y].provisioned = o.provisioned
         /\ [o EXCEPT !.paused = x].provisioned = o.provisioned
         /\ [[o EXCEPT !.paused = x] EXCEPT !.finalizer = y].provisioned = o.provisioned
         /\ Released(o).provisioned = o.provisioned
         /\ Released(Cleared(o)).provisioned = o.provisioned
  BY Zenon DEF Objects, Released, Cleared

\* A step of a handler never forgets that the machine was provisioned, and goes
\* on to CreateServer only when it was not.
LEMMA HandlersFresh ==
  ASSUME TypeOK, FreshInv,
         \/ CheckGates \/ LookupServer \/ CreateServerFind \/ CreateServerPost
         \/ NodeSSHAccess \/ ResolveServer \/ DeleteServer
  PROVE  /\ mem.provisioned => mem'.provisioned
         /\ CreatesOnce'
         /\ api' = api /\ pc # "idle"
<1> ObjectsTyped /\ mem \in Objects
  BY DEF TypeOK, ObjectsTyped
<1>1. api' = api /\ pc # "idle"
  BY Zenon DEF CheckGates, LookupServer, CreateServerFind, CreateServerPost, NodeSSHAccess,
         ResolveServer, DeleteServer
<1>2. ASSUME NEW s, NEW st, Found(s, st)
      PROVE  mem'.provisioned /\ CreatesOnce'
  BY <1>2, FoundProvisioned DEF CreatesOnce
<1>3. ASSUME NEW m, NEW requeue, NEW how, Return(m, requeue, how),
             m.provisioned = mem.provisioned
      PROVE  mem'.provisioned = mem.provisioned /\ CreatesOnce'
  BY <1>3, ReturnFresh DEF CreatesOnce
<1>4. ASSUME NEW r, FailWith(r)
      PROVE  mem'.provisioned = mem.provisioned /\ CreatesOnce'
  <2>1. [mem EXCEPT !.ready = FALSE, !.reason = r].provisioned = mem.provisioned
    BY SameProvisioned
  <2> QED BY <1>3, <1>4, <2>1, Zenon DEF FailWith
<1>5. CASE CheckGates
  <2>1. CASE mem' = [mem EXCEPT !.credentials = "True"] /\ pc' = "lookup"
    BY <1>1, <2>1, SameProvisioned DEF CreatesOnce
  <2>2. /\ \A r : [mem EXCEPT !.ready = FALSE, !.reason = r].provisioned = mem.provisioned
        /\ [mem EXCEPT !.reason = "BootstrapInvalid"].provisioned = mem.provisioned
        /\ [mem EXCEPT !.reason = "BootstrapPending"].provisioned = mem.provisioned
        /\ [mem EXCEPT !.reason = "CredentialsInvalid",
                       !.credentials = "False"].provisioned = mem.provisioned
    BY SameProvisioned
  <2> QED BY <1>1, <1>3, <1>5, <2>1, <2>2, Zenon DEF CheckGates
<1>6. CASE LookupServer
  <2>1. CASE ~mem.provisioned /\ UNCHANGED mem
    BY <1>1, <2>1 DEF CreatesOnce
  <2>2. [mem EXCEPT !.ready = FALSE, !.reason = "InstanceNotFound"].provisioned
          = mem.provisioned
    BY SameProvisioned
  <2> QED BY <1>1, <1>2, <1>3, <1>4, <1>6, <2>1, <2>2, Zenon
          DEF LookupServer, MayCreate
<1>7. CASE CreateServerFind
  <2>1. ~mem.provisioned
    BY <1>7 DEF CreateServerFind, FreshInv, CreatesOnce
  <2>2. CASE UNCHANGED mem
    BY <1>1, <2>1, <2>2 DEF CreatesOnce
  <2> QED BY <1>1, <1>2, <1>4, <1>7, <2>2, Zenon DEF CreateServerFind
<1>8. CASE CreateServerPost
  BY <1>1, <1>2, <1>4, <1>8, Zenon DEF CreateServerPost
<1>9. CASE NodeSSHAccess
  <2>1. [mem EXCEPT !.ready = TRUE, !.reason = "Available"].provisioned = mem.provisioned
    BY SameProvisioned
  <2> QED BY <1>1, <1>3, <1>4, <1>9, <2>1, Zenon DEF NodeSSHAccess
<1>10. CASE ResolveServer
  <2>1. CASE pc' = "deleteServer" /\ UNCHANGED mem
    BY <1>1, <2>1 DEF CreatesOnce
  <2> QED BY <1>1, <1>3, <1>10, <2>1, SameProvisioned, Zenon DEF ResolveServer
<1>11. CASE DeleteServer
  BY <1>1, <1>3, <1>11, SameProvisioned, Zenon DEF DeleteServer
<1> QED BY <1>5, <1>6, <1>7, <1>8, <1>9, <1>10, <1>11

\* A patch writes what the reconcile knows, or leaves the flag alone.
LEMMA PatchesFresh ==
  ASSUME TypeOK, FreshInv, PatchConditions \/ PatchSpec \/ PatchStatus
  PROVE  FreshInv'
<1> ObjectsTyped /\ api \in Objects /\ mem \in Objects
  BY DEF TypeOK, ObjectsTyped
<1> DEFINE c == [api EXCEPT !.paused = Merged("paused"),
                            !.credentials = Merged("credentials"),
                            !.reason = Merged("reason")]
           p == [api EXCEPT !.finalizer = Merged("finalizer"),
                            !.providerID = Merged("providerID")]
           s == [api EXCEPT !.instanceID = Merged("instanceID"),
                            !.provisioned = Merged("provisioned"),
                            !.ready = Merged("ready")]
<1>1. /\ c.provisioned = api.provisioned /\ p.provisioned = api.provisioned
      /\ s.provisioned = Merged("provisioned")
  BY Zenon DEF Objects
<1>2. ~NoObject.provisioned
  BY DEF NoObject, NewObject
<1>3. api' \in {api, c, s, Collected(p)}
  BY Zenon DEF PatchConditions, PatchSpec, PatchStatus, Send
<1> HIDE DEF c, p, s
<1>4. Collected(p).provisioned => api.provisioned
  BY <1>1, <1>2 DEF Collected
<1>5. pc # "idle" /\ pc' \in {"patchSpec", "patchStatus", "patchDone"} /\ UNCHANGED mem
  BY Zenon DEF PatchConditions, PatchSpec, PatchStatus
<1>6. api.provisioned => mem.provisioned
  BY <1>5 DEF FreshInv, Remembered
<1>7. Merged("provisioned") => mem.provisioned
  BY <1>6 DEF Merged
<1>8. api'.provisioned => mem.provisioned
  BY <1>1, <1>3, <1>4, <1>6, <1>7
<1> QED BY <1>5, <1>8 DEF FreshInv, Remembered, CreatesOnce

LEMMA FreshStep ==
  ASSUME ~StaleReads, TypeOK, FreshInv, [Next]_vars
  PROVE  FreshInv'
<1> ObjectsTyped /\ api \in Objects /\ cache \in Objects
  BY DEF TypeOK, ObjectsTyped
<1>1. CASE ReconcilePaused \/ ReconcileActive
  <2>1. cache = api /\ api' = api
    BY <1>1 DEF ReconcilePaused, ReconcileActive, Dequeue
  <2>2. mem'.provisioned = cache.provisioned
    <3>1. /\ [cache EXCEPT !.paused = "True"].provisioned = cache.provisioned
          /\ [cache EXCEPT !.paused = "False"].provisioned = cache.provisioned
          /\ [[cache EXCEPT !.paused = "False"] EXCEPT !.finalizer = TRUE].provisioned
               = cache.provisioned
      BY SameProvisioned
    <3> QED BY <1>1, <3>1, Zenon DEF ReconcilePaused, ReconcileActive
  <2>3. pc' \notin {"createFind", "createPost"}
    BY <1>1 DEF ReconcilePaused, ReconcileActive
  <2> QED BY <2>1, <2>2, <2>3 DEF FreshInv, Remembered, CreatesOnce
<1>2. CASE \/ CheckGates \/ LookupServer \/ CreateServerFind \/ CreateServerPost
           \/ NodeSSHAccess \/ ResolveServer \/ DeleteServer
  BY <1>2, HandlersFresh DEF FreshInv, Remembered
<1>3. CASE PatchDone
  <2>1. CASE UNCHANGED mem
    BY <1>3, <2>1 DEF PatchDone, objectVars, FreshInv, Remembered, CreatesOnce
  <2>2. CASE pc' = "idle"
    BY <2>2 DEF FreshInv, Remembered, CreatesOnce
  <2> QED BY <1>3, <2>1, <2>2 DEF PatchDone
<1>4. CASE Restart
  BY <1>4 DEF Restart, FreshInv, Remembered, CreatesOnce
<1>5. ASSUME UNCHANGED <<pc, mem>>, api'.provisioned => api.provisioned
      PROVE  FreshInv'
  BY <1>5 DEF FreshInv, Remembered, CreatesOnce
<1>6. CASE DeleteObject \/ \E l \in LabelSets : EditLabels(l)
  <2>1. /\ [api EXCEPT !.deleting = TRUE].provisioned = api.provisioned
        /\ \A l : [api EXCEPT !.labels = l].provisioned = api.provisioned
        /\ ~NoObject.provisioned
    BY Zenon DEF Objects, NoObject, NewObject
  <2>2. api'.provisioned => api.provisioned
    BY <1>6, <2>1, Zenon DEF DeleteObject, EditLabels, Collected
  <2> QED BY <1>5, <1>6, <2>2 DEF DeleteObject, EditLabels, reconcileVars
<1>7. CASE \/ ReconcileNothing \/ Observe \/ WatchEvent \/ UNCHANGED vars
           \/ \E s \in Servers : ServerChanges(s) \/ DeleteOutOfBand(s) \/ CreateLate(s)
  <2>1. UNCHANGED <<pc, mem, api>>
    BY <1>7 DEF ReconcileNothing, Dequeue, Observe, WatchEvent, ServerChanges,
                DeleteOutOfBand, CreateLate, vars, objectVars, reconcileVars
  <2> QED BY <1>5, <2>1
<1> QED BY <1>1, <1>2, <1>3, <1>4, <1>6, <1>7, PatchesFresh DEF Next, Reconcile

\* CreateServer is not sent once the status says that the machine was provisioned.
ProvisionedOnce == pc = "createPost" => ~api.provisioned

\* With reads that are not stale, a machine whose status says that it was
\* provisioned never gets a second server, although servers are deleted in the
\* portal, labels edited and creates executed late: ensureServer creates only what
\* the status, which is then current, does not know
\* (controller/stackitmachine_infrastructure.go:331).
THEOREM NoRecreationFreshReads == ~StaleReads => (Spec => []ProvisionedOnce)
<1> SUFFICES ASSUME ~StaleReads PROVE Spec => []ProvisionedOnce
  OBVIOUS
<1>1. Init => FreshInv
  BY DEF Init, FreshInv, Remembered, CreatesOnce
<1>2. TypeOK /\ FreshInv /\ [Next]_vars => FreshInv'
  BY FreshStep
<1>3. FreshInv => ProvisionedOnce
  BY DEF FreshInv, Remembered, CreatesOnce, ProvisionedOnce
<1> QED BY <1>1, <1>2, <1>3, TypeCorrect, PTL DEF Spec

-----------------------------------------------------------------------------
(* Safety while nobody but the controller creates, deletes or relabels     *)
(* servers.                                                                *)

\* The environment the safety theorems are about: no out-of-band deletions, no
\* label edits, no create request that executes after its caller gave up.
ExclusiveOwner == ~OutOfBandDeletes /\ ~LabelEdits /\ ~LateCreates

-----------------------------------------------------------------------------
(* What the steps of reconcileNormal leave alone.                          *)

SameMetadata ==
  /\ mem'.labels = mem.labels
  /\ mem'.deleting = mem.deleting
  /\ mem'.finalizer = mem.finalizer

SameIdentity ==
  /\ mem'.instanceID = mem.instanceID
  /\ mem'.providerID = mem.providerID
  /\ mem'.provisioned = mem.provisioned

NamesServer(s) ==
  /\ mem'.instanceID = s
  /\ mem'.providerID = NewProviderID(s)
  /\ mem'.provisioned = TRUE

\* The step goes on inside reconcileNormal, or returns from it.
StaysNormal ==
  \/ pc' \in NormalSteps /\ resume' = resume
  \/ pc' = "patchConditions" /\ resume' = "idle"

LEMMA FoundEffect ==
  ASSUME ObjectsTyped, NEW s \in Servers, NEW st, Found(s, st)
  PROVE  SameMetadata /\ NamesServer(s) /\ StaysNormal /\ pc' # "createPost"
<1>1. SameMetadata /\ NamesServer(s)
  BY Zenon DEF ObjectsTyped, Objects, Found, WithInstance, Return, SameMetadata, NamesServer
<1>2. StaysNormal /\ pc' # "createPost"
  BY DEF Found, Return, StaysNormal, NormalSteps
<1> QED
  BY <1>1, <1>2

LEMMA FailEffect ==
  ASSUME ObjectsTyped, NEW r, FailWith(r)
  PROVE  SameMetadata /\ SameIdentity /\ StaysNormal /\ pc' # "createPost"
<1>1. SameMetadata /\ SameIdentity
  BY DEF ObjectsTyped, Objects, FailWith, Return, SameMetadata, SameIdentity
<1>2. StaysNormal /\ pc' # "createPost"
  BY DEF FailWith, Return, StaysNormal, NormalSteps
<1> QED
  BY <1>1, <1>2

LEMMA GatesEffect ==
  ASSUME ObjectsTyped, CheckGates
  PROVE  SameMetadata /\ SameIdentity /\ StaysNormal /\ pc' # "createPost"
<1>1. SameMetadata /\ SameIdentity
  BY Zenon DEF ObjectsTyped, Objects, CheckGates, Return, SameMetadata, SameIdentity
<1>2. StaysNormal /\ pc' # "createPost"
  BY DEF CheckGates, Return, StaysNormal, NormalSteps
<1> QED
  BY <1>1, <1>2

LEMMA NodeSSHEffect ==
  ASSUME ObjectsTyped, NodeSSHAccess
  PROVE  SameMetadata /\ SameIdentity /\ StaysNormal /\ pc' # "createPost"
<1>1. SameMetadata /\ SameIdentity
  BY Zenon DEF ObjectsTyped, Objects, NodeSSHAccess, FailWith, Return, SameMetadata, SameIdentity
<1>2. StaysNormal /\ pc' # "createPost"
  BY DEF NodeSSHAccess, FailWith, Return, StaysNormal, NormalSteps
<1> QED
  BY <1>1, <1>2

LEMMA LookupEffect ==
  ASSUME ObjectsTyped, LookupServer
  PROVE  /\ SameMetadata /\ StaysNormal /\ pc' # "createPost"
         /\ SameIdentity \/ \E s \in Servers : Present(s) /\ NamesServer(s)
<1>1. ASSUME NEW s \in Servers, NEW st, Found(s, st), Present(s)
      PROVE  /\ SameMetadata /\ StaysNormal /\ pc' # "createPost"
             /\ \E t \in Servers : Present(t) /\ NamesServer(t)
  BY <1>1, FoundEffect
<1>2. ASSUME Return([mem EXCEPT !.ready = FALSE, !.reason = "InstanceNotFound"],
                    FALSE, "waiting")
      PROVE  SameMetadata /\ SameIdentity /\ StaysNormal /\ pc' # "createPost"
  BY <1>2 DEF ObjectsTyped, Objects, Return, SameMetadata, SameIdentity, StaysNormal
<1>3. ASSUME pc' = "createFind", UNCHANGED <<mem, resume>>
      PROVE  SameMetadata /\ SameIdentity /\ StaysNormal /\ pc' # "createPost"
  BY <1>3 DEF SameMetadata, SameIdentity, StaysNormal, NormalSteps
<1>4. ASSUME NEW s \in Servers, Matching(mem.labels) = {s}
      PROVE  Present(s)
  BY <1>4 DEF Matching
<1>5. Present(mem.instanceID) => mem.instanceID \in Servers
  BY DEF Present
<1> QED
  BY <1>1, <1>2, <1>3, <1>4, <1>5, FailEffect, Zenon DEF LookupServer

LEMMA FindEffect ==
  ASSUME ObjectsTyped, CreateServerFind
  PROVE  /\ SameMetadata /\ StaysNormal
         /\ SameIdentity \/ \E s \in Servers : Present(s) /\ NamesServer(s)
         /\ pc' = "createPost" => Matching(mem.labels) = {}
<1>1. ASSUME NEW s \in Servers, Matching(mem.labels) = {s}, Found(s, server[s])
      PROVE  /\ SameMetadata /\ StaysNormal /\ pc' # "createPost"
             /\ \E t \in Servers : Present(t) /\ NamesServer(t)
  <2>1. Present(s)
    BY <1>1 DEF Matching
  <2> QED
    BY <1>1, <2>1, FoundEffect
<1>2. ASSUME pc' = "createPost", UNCHANGED <<mem, resume>>
      PROVE  SameMetadata /\ SameIdentity /\ StaysNormal
  BY <1>2 DEF SameMetadata, SameIdentity, StaysNormal, NormalSteps
<1> QED
  BY <1>1, <1>2, FailEffect DEF CreateServerFind

\* A step of reconcileNormal keeps the part of the invariant that is about the
\* finalizer and the deletion: the finalizer it relies on is persisted.
LEMMA NormalKeeps ==
  ASSUME IndInv, pc \in NormalSteps, SameMetadata, StaysNormal,
         UNCHANGED <<api, cache, before, skipped>>,
         \A s \in Servers : server'[s] \in {"deleting", "gone"} => server'[s] = server[s]
  PROVE  CacheLags' /\ FinalizerFirst' /\ TeardownLast' /\ FinalizerGuardsServer'
<1>1. resume = "idle"
  BY DEF IndInv, SafeInv, TypeOK, ControlTyped, FinalizerFirst, NormalSteps, PatchSteps
<1>2. api.exists /\ api.finalizer /\ ~mem.deleting /\ mem.finalizer
  BY DEF IndInv, SafeInv, FinalizerFirst
<1>3. CacheLags'
  BY DEF IndInv, SafeInv, CacheLags, DeletionSeen
<1>4. FinalizerFirst'
  BY <1>1, <1>2 DEF FinalizerFirst, SameMetadata, StaysNormal, NormalSteps
<1>5. \A s \in Servers : server[s] \notin {"deleting", "gone"}
  BY DEF IndInv, SafeInv, TeardownLast
<1>6. TeardownLast'
  BY <1>1, <1>2, <1>5, Zenon
     DEF TeardownLast, SameMetadata, StaysNormal, NormalSteps, DeletionSeen
<1>7. FinalizerGuardsServer'
  BY <1>2 DEF FinalizerGuardsServer
<1> QED
  BY <1>3, <1>4, <1>6, <1>7

\* A copy of the object that does not change stays on record.
LEMMA RecordsKept ==
  ASSUME IndInv, UNCHANGED server
  PROVE  /\ UNCHANGED api => OnRecord(api)'
         /\ UNCHANGED cache => OnRecord(cache)'
         /\ UNCHANGED mem => OnRecord(mem)'
         /\ UNCHANGED before => OnRecord(before)'
<1>1. OnRecord(api) /\ OnRecord(cache) /\ OnRecord(mem) /\ OnRecord(before)
  BY DEF IndInv, SafeInv, AllOnRecord
<1>2. UNCHANGED api => OnRecord(api)'
  BY <1>1 DEF OnRecord, Created
<1>3. UNCHANGED cache => OnRecord(cache)'
  BY <1>1 DEF OnRecord, Created
<1>4. UNCHANGED mem => OnRecord(mem)'
  BY <1>1 DEF OnRecord, Created
<1>5. UNCHANGED before => OnRecord(before)'
  BY <1>1 DEF OnRecord, Created
<1> QED
  BY <1>2, <1>3, <1>4, <1>5

\* A step that changes no server and names only servers that are there keeps
\* the part of the invariant that is about identities.
LEMMA IdentityKeeps ==
  ASSUME IndInv, SameMetadata,
         UNCHANGED <<api, cache, before, server, serverLabels, inflight>>,
         SameIdentity \/ \E s \in Servers : Present(s) /\ NamesServer(s)
  PROVE  FixedLabels' /\ AllOnRecord'
<1>1. FixedLabels'
  BY DEF IndInv, SafeInv, FixedLabels, SameMetadata
<1>2. OnRecord(api)' /\ OnRecord(cache)' /\ OnRecord(before)'
  BY RecordsKept
<1>3. CASE SameIdentity
  <2>1. OnRecord(mem)'
    BY <1>3 DEF IndInv, SafeInv, AllOnRecord, OnRecord, Created, SameIdentity
  <2> QED
    BY <1>1, <1>2, <2>1 DEF AllOnRecord
<1>4. ASSUME NEW s \in Servers, Present(s), NamesServer(s)
      PROVE  OnRecord(mem)'
  BY <1>4 DEF OnRecord, Created, Present, NamesServer
<1> QED
  BY <1>1, <1>2, <1>3, <1>4 DEF AllOnRecord

\* While reconcileNormal looks for the server, a server that was created is
\* still there, and its labels are the machine's.
LEMMA CreatedIsFound ==
  ASSUME IndInv, pc \in NormalSteps, Matching(mem.labels) = {}
  PROVE  \A s \in Servers : ~Created(s)
<1>1. \A s \in Servers : mem.labels \subseteq serverLabels[s]
  BY DEF IndInv, SafeInv, FixedLabels
<1>2. \A s \in Servers : server[s] \in {"none", "starting", "active", "failed"}
  BY DEF IndInv, SafeInv, TypeOK, CloudTyped, ServerStates, TeardownLast
<1> QED
  BY <1>1, <1>2 DEF Matching, Present, Created

LEMMA CheckGatesSafe ==
  ASSUME IndInv, CheckGates
  PROVE  SafeInv'
<1>1. SameMetadata /\ SameIdentity /\ StaysNormal /\ pc' # "createPost"
  BY GatesEffect DEF IndInv, TypeOK
<1>2. pc \in NormalSteps
      /\ UNCHANGED <<api, cache, before, server, serverLabels, inflight, skipped>>
  BY DEF CheckGates, NormalSteps, cloudVars
<1>3. OneCreated'
  BY <1>1, <1>2 DEF IndInv, SafeInv, OneCreated, Created, StaysNormal, NormalSteps
<1> QED
  BY <1>1, <1>2, <1>3, NormalKeeps, IdentityKeeps DEF SafeInv

LEMMA LookupServerSafe ==
  ASSUME IndInv, LookupServer
  PROVE  SafeInv'
<1>1. /\ SameMetadata /\ StaysNormal /\ pc' # "createPost"
      /\ SameIdentity \/ \E s \in Servers : Present(s) /\ NamesServer(s)
  BY LookupEffect DEF IndInv, TypeOK
<1>2. pc \in NormalSteps
      /\ UNCHANGED <<api, cache, before, server, serverLabels, inflight, skipped>>
  BY DEF LookupServer, NormalSteps, cloudVars
<1>3. OneCreated'
  BY <1>1, <1>2 DEF IndInv, SafeInv, OneCreated, Created, StaysNormal, NormalSteps
<1> QED
  BY <1>1, <1>2, <1>3, NormalKeeps, IdentityKeeps DEF SafeInv

LEMMA CreateServerFindSafe ==
  ASSUME IndInv, CreateServerFind
  PROVE  SafeInv'
<1>1. /\ SameMetadata /\ StaysNormal
      /\ SameIdentity \/ \E s \in Servers : Present(s) /\ NamesServer(s)
      /\ pc' = "createPost" => Matching(mem.labels) = {}
  BY FindEffect DEF IndInv, TypeOK
<1>2. pc \in NormalSteps
      /\ UNCHANGED <<api, cache, before, server, serverLabels, inflight, skipped>>
  BY DEF CreateServerFind, NormalSteps, cloudVars
<1>3. OneCreated'
  <2>1. pc' = "createPost" => \A s \in Servers : ~Created(s)
    BY <1>1, <1>2, CreatedIsFound
  <2> QED
    BY <1>1, <1>2, <2>1
       DEF IndInv, SafeInv, OneCreated, Created, StaysNormal, NormalSteps
<1> QED
  BY <1>1, <1>2, <1>3, NormalKeeps, IdentityKeeps DEF SafeInv

LEMMA NodeSSHAccessSafe ==
  ASSUME IndInv, NodeSSHAccess
  PROVE  SafeInv'
<1>1. SameMetadata /\ SameIdentity /\ StaysNormal /\ pc' # "createPost"
  BY NodeSSHEffect DEF IndInv, TypeOK
<1>2. pc \in NormalSteps
      /\ UNCHANGED <<api, cache, before, server, serverLabels, inflight, skipped>>
  BY DEF NodeSSHAccess, NormalSteps, cloudVars
<1>3. OneCreated'
  BY <1>1, <1>2 DEF IndInv, SafeInv, OneCreated, Created, StaysNormal, NormalSteps
<1> QED
  BY <1>1, <1>2, <1>3, NormalKeeps, IdentityKeeps DEF SafeInv

\* CreateServer runs only when no server was created before, so the server it
\* creates is the first, whether or not its response arrives.
LEMMA CreateServerPostSafe ==
  ASSUME IndInv, CreateServerPost, ~LateCreates
  PROVE  SafeInv'
<1>1. pc \in NormalSteps /\ UNCHANGED <<api, cache, before, skipped>>
  BY DEF CreateServerPost, NormalSteps
<1>2. \A s \in Servers : ~Created(s)
  BY DEF IndInv, SafeInv, OneCreated, CreateServerPost
<1>3. ASSUME NEW s \in Servers, Provision(s, mem.labels), UNCHANGED inflight,
             SameIdentity \/ NamesServer(s), SameMetadata, StaysNormal,
             pc' # "createPost"
      PROVE  SafeInv'
  <2>1. /\ server' = [server EXCEPT ![s] = "starting"]
        /\ serverLabels' = [serverLabels EXCEPT ![s] = mem.labels]
    BY <1>3 DEF Provision
  <2>2. /\ \A t \in Servers : Created(t)' <=> t = s
        /\ \A t \in Servers : server'[t] \in {"deleting", "gone"} => server'[t] = server[t]
    BY <1>2, <2>1 DEF Created, IndInv, TypeOK, CloudTyped
  <2>3. FixedLabels'
    BY <1>1, <1>3, <2>1 DEF IndInv, SafeInv, FixedLabels, TypeOK, CloudTyped, SameMetadata
  <2>4. OnRecord(api)' /\ OnRecord(cache)' /\ OnRecord(before)'
    BY <1>1, <1>2, <2>2, Fields
       DEF IndInv, SafeInv, AllOnRecord, OnRecord, TypeOK, ObjectsTyped, ServerIDs
  <2>5. OnRecord(mem)'
    BY <1>2, <1>3, <2>2, Fields
       DEF IndInv, SafeInv, AllOnRecord, OnRecord, SameIdentity, NamesServer, TypeOK,
           ObjectsTyped, ServerIDs
  <2>6. OneCreated'
    BY <1>3, <2>2 DEF OneCreated, StaysNormal, NormalSteps
  <2> QED
    BY <1>1, <1>3, <2>2, <2>3, <2>4, <2>5, <2>6, NormalKeeps DEF SafeInv, AllOnRecord
<1>4. ASSUME FailWith("InstanceError"), UNCHANGED <<server, serverLabels, inflight>>
      PROVE  SafeInv'
  <2>1. SameMetadata /\ SameIdentity /\ StaysNormal /\ pc' # "createPost"
    BY <1>4, FailEffect DEF IndInv, TypeOK
  <2>2. OneCreated'
    BY <1>4, <2>1 DEF IndInv, SafeInv, OneCreated, Created, StaysNormal, NormalSteps
  <2> QED
    BY <1>1, <1>4, <2>1, <2>2, NormalKeeps, IdentityKeeps DEF SafeInv
<1>5. ASSUME NEW s \in Servers, NEW st, Provision(s, mem.labels), UNCHANGED inflight,
             Found(s, st) \/ FailWith("InstanceError")
      PROVE  SafeInv'
  BY <1>3, <1>5, FoundEffect, FailEffect DEF IndInv, TypeOK
<1> QED
  BY <1>4, <1>5 DEF CreateServerPost

-----------------------------------------------------------------------------
(* The start of a reconcile and reconcileDelete.                           *)

LEMMA ReconcilePausedSafe ==
  ASSUME IndInv, ReconcilePaused
  PROVE  SafeInv'
<1>1. /\ mem' = [cache EXCEPT !.paused = "True"] /\ before' = cache
      /\ pc = "idle" /\ pc' = "patchConditions" /\ resume' = "idle"
      /\ UNCHANGED <<api, cache, server, serverLabels, inflight, skipped>>
  BY DEF ReconcilePaused, Dequeue, cloudVars
<1>2. \A f \in {"labels", "finalizer", "instanceID", "providerID", "provisioned"} :
        mem'[f] = cache[f]
  BY <1>1 DEF IndInv, TypeOK, ObjectsTyped, Objects
<1>3. FixedLabels'
  BY <1>1, <1>2 DEF IndInv, SafeInv, FixedLabels
<1>4. AllOnRecord'
  <2>1. OnRecord(api)' /\ OnRecord(cache)'
    BY <1>1, RecordsKept
  <2>2. OnRecord(mem)'
    BY <1>1, <1>2 DEF IndInv, SafeInv, AllOnRecord, OnRecord, Created
  <2>3. OnRecord(before)'
    BY <1>1 DEF IndInv, SafeInv, AllOnRecord, OnRecord, Created
  <2> QED
    BY <2>1, <2>2, <2>3 DEF AllOnRecord
<1>5. OneCreated' /\ CacheLags' /\ FinalizerGuardsServer'
  BY <1>1 DEF IndInv, SafeInv, OneCreated, Created, CacheLags, DeletionSeen,
              FinalizerGuardsServer, LiveServers
<1>6. FinalizerFirst'
  BY <1>1 DEF IndInv, SafeInv, FinalizerFirst, Created, NormalSteps
<1>7. TeardownLast'
  BY <1>1, <1>2 DEF IndInv, SafeInv, TeardownLast, DeletionSeen, NormalSteps
<1> QED
  BY <1>3, <1>4, <1>5, <1>6, <1>7 DEF SafeInv

\* The dispatch is where the informer's copy decides: a reconcile enters
\* reconcileNormal only if that copy is not deleted, and then, for a copy that
\* carries the finalizer, the object in the API server carries it too.
LEMMA ReconcileActiveSafe ==
  ASSUME IndInv, ReconcileActive
  PROVE  SafeInv'
<1>1. /\ before' = cache /\ cache.exists /\ pc = "idle"
      /\ UNCHANGED <<api, cache, server, serverLabels, inflight, skipped>>
  BY DEF ReconcileActive, Dequeue, cloudVars
<1>2. \A f \in {"labels", "deleting", "instanceID", "providerID", "provisioned"} :
        mem'[f] = cache[f]
  BY Zenon DEF ReconcileActive, IndInv, TypeOK, ObjectsTyped, Objects
<1>3. \/ /\ cache.deleting /\ pc' = "resolve" /\ resume' = "idle"
         /\ mem'.finalizer = cache.finalizer
      \/ /\ ~cache.deleting /\ ~cache.finalizer
         /\ pc' = "patchConditions" /\ resume' = "gates" /\ mem'.finalizer
      \/ /\ ~cache.deleting /\ cache.finalizer /\ mem'.finalizer
         /\ pc' = "gates" /\ resume' = "idle"
  BY Zenon DEF ReconcileActive, IndInv, TypeOK, ObjectsTyped, Objects
<1>4. FixedLabels'
  BY <1>1, <1>2 DEF IndInv, SafeInv, FixedLabels
<1>5. AllOnRecord'
  <2>1. OnRecord(api)' /\ OnRecord(cache)'
    BY <1>1, RecordsKept
  <2>2. OnRecord(mem)'
    BY <1>1, <1>2 DEF IndInv, SafeInv, AllOnRecord, OnRecord, Created
  <2>3. OnRecord(before)'
    BY <1>1 DEF IndInv, SafeInv, AllOnRecord, OnRecord, Created
  <2> QED
    BY <2>1, <2>2, <2>3 DEF AllOnRecord
<1>6. OneCreated' /\ CacheLags' /\ FinalizerGuardsServer'
  BY <1>1, <1>3 DEF IndInv, SafeInv, OneCreated, Created, CacheLags, DeletionSeen,
              FinalizerGuardsServer, LiveServers
<1>7. FinalizerFirst'
  BY <1>1, <1>2, <1>3 DEF IndInv, SafeInv, FinalizerFirst, CacheLags, DeletionSeen,
                          Created, NormalSteps, PatchSteps
<1>8. TeardownLast'
  BY <1>1, <1>3 DEF IndInv, SafeInv, TeardownLast, DeletionSeen, NormalSteps, PatchSteps
<1> QED
  BY <1>4, <1>5, <1>6, <1>7, <1>8 DEF SafeInv

\* What the steps of reconcileDelete share.
LEMMA DeleteKeeps ==
  ASSUME IndInv, pc \in {"resolve", "deleteServer"},
         mem'.labels = mem.labels, mem'.providerID = mem.providerID,
         mem'.provisioned = mem.provisioned,
         mem'.instanceID \in {mem.instanceID, NoServer},
         UNCHANGED <<api, cache, before, serverLabels, inflight>>,
         \A s \in Servers : Created(s)' <=> Created(s),
         pc' \in {"deleteServer", "patchConditions"}, resume' = "idle"
  PROVE  FixedLabels' /\ AllOnRecord' /\ CacheLags' /\ FinalizerFirst'
<1>1. FixedLabels'
  BY DEF IndInv, SafeInv, FixedLabels
<1>2. OnRecord(api)' /\ OnRecord(cache)' /\ OnRecord(before)'
  BY Fields DEF IndInv, SafeInv, AllOnRecord, OnRecord, TypeOK, ObjectsTyped, ServerIDs
<1>3. OnRecord(mem)'
  BY Fields DEF IndInv, SafeInv, AllOnRecord, OnRecord, TypeOK, ObjectsTyped, ServerIDs
<1>4. CacheLags'
  BY DEF IndInv, SafeInv, CacheLags, DeletionSeen
<1>5. FinalizerFirst'
  BY DEF IndInv, SafeInv, FinalizerFirst, NormalSteps
<1> QED
  BY <1>1, <1>2, <1>3, <1>4, <1>5 DEF AllOnRecord

\* The finalizer leaves the working copy only when the credentials Secret is
\* gone, or when no server carries the machine's tags.
LEMMA ResolveServerSafe ==
  ASSUME IndInv, ResolveServer
  PROVE  SafeInv'
<1>1. /\ pc = "resolve"
      /\ UNCHANGED <<api, cache, before, server, serverLabels, inflight>>
  BY DEF ResolveServer, cloudVars
<1>2. \A f \in {"labels", "providerID", "provisioned", "instanceID"} : mem'[f] = mem[f]
  BY DEF ResolveServer, Return, Released, IndInv, TypeOK, ObjectsTyped, Objects
<1>3. resume = "idle" /\ DeletionSeen /\ mem.finalizer = before.finalizer
  BY <1>1 DEF IndInv, SafeInv, TeardownLast
<1>4. pc' \in {"deleteServer", "patchConditions"} /\ resume' = "idle"
  BY <1>3 DEF ResolveServer, Return
<1>5. skipped => skipped'
  BY Zenon DEF ResolveServer
<1>6. Matching(mem.labels) = {} => LiveServers = {}
  BY DEF IndInv, SafeInv, FixedLabels, Matching, Present, LiveServers
<1>7. \/ pc' = "patchConditions" /\ (LiveServers = {} \/ skipped')
      \/ mem'.finalizer = before.finalizer
  BY <1>3, <1>6 DEF ResolveServer, Return, IndInv, TypeOK, ObjectsTyped, Objects
<1>8. OneCreated'
  <2>1. pc' = "deleteServer" => target' # NoServer /\ Created(target')
    <3>1. \A s \in Servers : Matching(mem.labels) = {s} => Created(s)
      BY DEF Matching, Present, Created
    <3>2. mem.instanceID # NoServer => Created(mem.instanceID)
      BY DEF IndInv, SafeInv, AllOnRecord, OnRecord
    <3> QED
      BY <3>1, <3>2, ServerAssumption DEF ResolveServer, Return
  <2> QED
    BY <1>1, <1>4, <2>1 DEF IndInv, SafeInv, OneCreated, Created
<1>9. TeardownLast'
  BY <1>1, <1>3, <1>4, <1>7
     DEF IndInv, SafeInv, TeardownLast, DeletionSeen, NormalSteps, LiveServers
<1>10. FinalizerGuardsServer'
  BY <1>1, <1>5 DEF IndInv, SafeInv, FinalizerGuardsServer, LiveServers
<1>11. FixedLabels' /\ AllOnRecord' /\ CacheLags' /\ FinalizerFirst'
  BY <1>1, <1>2, <1>4, DeleteKeeps DEF Created
<1> QED
  BY <1>8, <1>9, <1>10, <1>11 DEF SafeInv

\* Once DeleteServer succeeded, or found nothing, no server is left: the machine
\* never had another one.
LEMMA DeleteServerSafe ==
  ASSUME IndInv, DeleteServer
  PROVE  SafeInv'
<1>1. /\ pc = "deleteServer" /\ pc' = "patchConditions" /\ resume' = "idle"
      /\ UNCHANGED <<api, cache, before, serverLabels, inflight, skipped>>
  BY DEF DeleteServer, Return
<1>2. \A f \in {"labels", "providerID", "provisioned"} : mem'[f] = mem[f]
  BY Zenon DEF DeleteServer, Return, Released, Cleared, IndInv, TypeOK, ObjectsTyped, Objects
<1>3. mem'.instanceID \in {mem.instanceID, NoServer}
  BY Zenon DEF DeleteServer, Return, Released, Cleared, IndInv, TypeOK, ObjectsTyped, Objects
<1>4. resume = "idle" /\ DeletionSeen /\ mem.finalizer = before.finalizer
  BY <1>1 DEF IndInv, SafeInv, TeardownLast
<1>5. /\ target \in Servers /\ Created(target)
      /\ \A s \in Servers : Created(s) => s = target
  BY <1>1 DEF IndInv, SafeInv, OneCreated, TypeOK, CloudTyped, ServerIDs
<1>6. \/ server' = server
      \/ Present(target) /\ server' = [server EXCEPT ![target] = "deleting"]
  BY Zenon DEF DeleteServer
<1>7. \A s \in Servers : Created(s)' <=> Created(s)
  BY <1>5, <1>6 DEF Created, IndInv, TypeOK, CloudTyped
<1>8. LiveServers' \subseteq LiveServers
  BY <1>5, <1>6 DEF LiveServers, IndInv, TypeOK, CloudTyped
<1>9. mem'.finalizer = before.finalizer \/ LiveServers' = {}
  <2>1. CASE mem' = mem
    BY <1>4, <2>1
  <2>2. CASE server' = IF Present(target)
                         THEN [server EXCEPT ![target] = "deleting"] ELSE server
    BY <1>5, <2>2 DEF LiveServers, Present, Created, IndInv, TypeOK, CloudTyped
  <2> QED
    BY <2>1, <2>2 DEF DeleteServer, Return
<1>10. OneCreated'
  BY <1>1, <1>5, <1>7 DEF OneCreated
<1>11. TeardownLast'
  BY <1>1, <1>4, <1>9 DEF TeardownLast, DeletionSeen, NormalSteps
<1>12. FinalizerGuardsServer'
  BY <1>1, <1>8 DEF IndInv, SafeInv, FinalizerGuardsServer
<1>13. FixedLabels' /\ AllOnRecord' /\ CacheLags' /\ FinalizerFirst'
  BY <1>1, <1>2, <1>3, <1>7, DeleteKeeps
<1> QED
  BY <1>10, <1>11, <1>12, <1>13 DEF SafeInv

-----------------------------------------------------------------------------
(* PatchObject.                                                            *)

\* What a request that does not touch spec and metadata leaves alone.
LEMMA PatchConditionsSafe ==
  ASSUME IndInv, PatchConditions
  PROVE  SafeInv'
<1>1. /\ pc = "patchConditions" /\ pc' = "patchSpec"
      /\ UNCHANGED <<cache, mem, before, server, serverLabels, inflight, skipped>>
  BY DEF PatchConditions, cloudVars
<1>2. \A f \in {"labels", "exists", "deleting", "finalizer", "instanceID", "providerID",
               "provisioned"} : api'[f] = api[f]
  BY Zenon DEF PatchConditions, Send, IndInv, TypeOK, ObjectsTyped, Objects
<1>3. resume' = resume \/ (resume = "gates" /\ resume' = "deferred")
  BY DEF PatchConditions, Send
<1>4. FixedLabels'
  BY <1>1, <1>2 DEF IndInv, SafeInv, FixedLabels
<1>5. AllOnRecord'
  <2>1. OnRecord(cache)' /\ OnRecord(mem)' /\ OnRecord(before)'
    BY <1>1, RecordsKept
  <2>2. OnRecord(api)'
    BY <1>1, <1>2 DEF IndInv, SafeInv, AllOnRecord, OnRecord, Created
  <2> QED
    BY <2>1, <2>2 DEF AllOnRecord
<1>6. OneCreated' /\ CacheLags'
  BY <1>1, <1>2 DEF IndInv, SafeInv, OneCreated, Created, CacheLags, DeletionSeen
<1>7. FinalizerFirst'
  BY <1>1, <1>2, <1>3 DEF IndInv, SafeInv, FinalizerFirst, Created, NormalSteps, PatchSteps
<1>8. TeardownLast'
  BY <1>1, <1>3 DEF IndInv, SafeInv, TeardownLast, DeletionSeen, NormalSteps, PatchSteps,
                    LiveServers
<1>9. FinalizerGuardsServer'
  BY <1>1, <1>2 DEF IndInv, SafeInv, FinalizerGuardsServer, LiveServers
<1> QED
  BY <1>4, <1>5, <1>6, <1>7, <1>8, <1>9 DEF SafeInv

LEMMA PatchStatusSafe ==
  ASSUME IndInv, PatchStatus
  PROVE  SafeInv'
<1>1. /\ pc = "patchStatus" /\ pc' = "patchDone"
      /\ UNCHANGED <<cache, mem, before, server, serverLabels, inflight, skipped>>
  BY DEF PatchStatus, cloudVars
<1>2. \A f \in {"labels", "exists", "deleting", "finalizer", "providerID"} : api'[f] = api[f]
  BY Zenon DEF PatchStatus, Send, IndInv, TypeOK, ObjectsTyped, Objects
<1>3. /\ api'.instanceID \in {api.instanceID, mem.instanceID}
      /\ api'.provisioned = api.provisioned \/ api'.provisioned = mem.provisioned
  BY Zenon DEF PatchStatus, Send, Merged, IndInv, TypeOK, ObjectsTyped, Objects
<1>4. resume' = resume \/ (resume = "gates" /\ resume' = "deferred")
  BY DEF PatchStatus, Send
<1>5. FixedLabels'
  BY <1>1, <1>2 DEF IndInv, SafeInv, FixedLabels
<1>6. AllOnRecord'
  <2>1. OnRecord(cache)' /\ OnRecord(mem)' /\ OnRecord(before)'
    BY <1>1, RecordsKept
  <2>2. OnRecord(api)'
    BY <1>1, <1>2, <1>3 DEF IndInv, SafeInv, AllOnRecord, OnRecord, Created
  <2> QED
    BY <2>1, <2>2 DEF AllOnRecord
<1>7. OneCreated' /\ CacheLags'
  BY <1>1, <1>2 DEF IndInv, SafeInv, OneCreated, Created, CacheLags, DeletionSeen
<1>8. FinalizerFirst'
  BY <1>1, <1>2, <1>4 DEF IndInv, SafeInv, FinalizerFirst, Created, NormalSteps, PatchSteps
<1>9. TeardownLast'
  BY <1>1, <1>4 DEF IndInv, SafeInv, TeardownLast, DeletionSeen, NormalSteps, PatchSteps,
                    LiveServers
<1>10. FinalizerGuardsServer'
  BY <1>1, <1>2 DEF IndInv, SafeInv, FinalizerGuardsServer, LiveServers
<1> QED
  BY <1>5, <1>6, <1>7, <1>8, <1>9, <1>10 DEF SafeInv

\* The request that adds or removes the finalizer.  It removes it only after the
\* teardown, and the object is gone with it.
LEMMA PatchSpecSafe ==
  ASSUME IndInv, PatchSpec
  PROVE  SafeInv'
<1> DEFINE patched == [api EXCEPT !.finalizer = Merged("finalizer"),
                                  !.providerID = Merged("providerID")]
<1>1. /\ pc = "patchSpec" /\ pc' = "patchStatus"
      /\ UNCHANGED <<cache, mem, before, server, serverLabels, inflight, skipped>>
  BY DEF PatchSpec, cloudVars
<1>2. \/ /\ UNCHANGED api
         /\ resume' # "gates"
         /\ resume' = resume \/ (resume = "gates" /\ resume' = "deferred")
      \/ api' = Collected(patched) /\ api.exists /\ UNCHANGED resume
  <2>1. resume = "gates" => mem.finalizer # before.finalizer
    BY Fields DEF IndInv, SafeInv, FinalizerFirst, TypeOK, ObjectsTyped
  <2> QED
    BY <2>1 DEF PatchSpec, Send
<1>3. CASE /\ UNCHANGED api
           /\ resume' # "gates"
           /\ resume' = resume \/ (resume = "gates" /\ resume' = "deferred")
  <2>1. FixedLabels' /\ AllOnRecord'
    <3>1. FixedLabels'
      BY <1>1, <1>3 DEF IndInv, SafeInv, FixedLabels
    <3>2. AllOnRecord'
      BY <1>1, <1>3, RecordsKept DEF AllOnRecord
    <3> QED
      BY <3>1, <3>2
  <2>2. OneCreated' /\ CacheLags' /\ FinalizerGuardsServer'
    BY <1>1, <1>3 DEF IndInv, SafeInv, OneCreated, Created, CacheLags, DeletionSeen,
                      FinalizerGuardsServer, LiveServers
  <2>3. FinalizerFirst'
    BY <1>1, <1>3
       DEF IndInv, SafeInv, FinalizerFirst, Created, NormalSteps, PatchSteps
  <2>4. TeardownLast'
    BY <1>1, <1>3 DEF IndInv, SafeInv, TeardownLast, DeletionSeen, NormalSteps,
                            PatchSteps, LiveServers
  <2> QED
    BY <2>1, <2>2, <2>3, <2>4 DEF SafeInv
<1>4. CASE api' = Collected(patched) /\ api.exists /\ UNCHANGED resume
  <2>1. /\ patched.exists = api.exists /\ patched.deleting = api.deleting
        /\ patched.labels = api.labels /\ patched.instanceID = api.instanceID
        /\ patched.provisioned = api.provisioned
        /\ patched.finalizer = Merged("finalizer")
        /\ patched.providerID \in {api.providerID, mem.providerID}
    BY DEF IndInv, TypeOK, ObjectsTyped, Objects, Merged
  <2>2. CASE patched.deleting /\ ~patched.finalizer
    <3>1. api' = NoObject
      BY <1>4, <2>2 DEF Collected
    <3>2. /\ ~api'.exists /\ ~api'.deleting /\ ~api'.finalizer /\ ~api'.provisioned
          /\ api'.labels = InitialLabels
          /\ api'.instanceID = NoServer /\ api'.providerID = NoProviderID
      BY <3>1 DEF NoObject, NewObject
    <3>3. before.finalizer /\ ~mem.finalizer /\ DeletionSeen /\ (LiveServers = {} \/ skipped)
      BY <1>1, <2>1, <2>2, Fields DEF IndInv, SafeInv, FinalizerFirst, TeardownLast, Merged,
                              TypeOK, ObjectsTyped, PatchSteps
    <3>4. resume # "gates" /\ resume # "deferred"
      BY <3>3 DEF IndInv, SafeInv, FinalizerFirst
    <3>5. FixedLabels' /\ AllOnRecord'
      <4>1. FixedLabels'
        BY <1>1, <3>2 DEF IndInv, SafeInv, FixedLabels
      <4>2. OnRecord(api)'
        BY <1>1, <3>2 DEF OnRecord
      <4>3. OnRecord(cache)' /\ OnRecord(mem)' /\ OnRecord(before)'
        BY <1>1, RecordsKept
      <4> QED
        BY <4>1, <4>2, <4>3 DEF AllOnRecord
    <3>6. OneCreated' /\ CacheLags' /\ FinalizerGuardsServer'
      BY <1>1, <3>2, <3>3 DEF IndInv, SafeInv, OneCreated, Created, CacheLags, DeletionSeen,
                              FinalizerGuardsServer, LiveServers
    <3>7. FinalizerFirst'
      BY <1>1, <1>4, <3>2, <3>4 DEF FinalizerFirst, NormalSteps
    <3>8. TeardownLast'
      BY <1>1, <1>4 DEF IndInv, SafeInv, TeardownLast, DeletionSeen, NormalSteps,
                        PatchSteps, LiveServers
    <3> QED
      BY <3>5, <3>6, <3>7, <3>8 DEF SafeInv
  <2>3. CASE ~(patched.deleting /\ ~patched.finalizer)
    <3>1. /\ api'.exists /\ api'.deleting = api.deleting
          /\ api'.labels = api.labels /\ api'.instanceID = api.instanceID
          /\ api'.provisioned = api.provisioned
          /\ api'.finalizer = Merged("finalizer")
          /\ api'.providerID \in {api.providerID, mem.providerID}
      BY <1>4, <2>1, <2>3 DEF Collected
    <3>2. api.finalizer => api'.finalizer
      <4>1. CASE Merged("finalizer") = api.finalizer
        BY <3>1, <4>1, Zenon
      <4>2. CASE before.finalizer /\ ~mem.finalizer
        <5>1. DeletionSeen
          BY <1>1, <4>2 DEF IndInv, SafeInv, TeardownLast, PatchSteps
        <5>2. api.deleting
          BY <1>4, <5>1 DEF IndInv, SafeInv, CacheLags
        <5> QED
          BY <2>1, <2>3, <3>1, <5>2
      <4>3. CASE mem.finalizer /\ Merged("finalizer") = mem.finalizer
        BY <3>1, <4>3, Zenon
      <4> QED
        BY <4>1, <4>2, <4>3, Fields, Zenon DEF Merged, IndInv, TypeOK, ObjectsTyped
    <3>3. resume = "gates" => api'.finalizer
      BY <3>1 DEF IndInv, SafeInv, FinalizerFirst, Merged
    <3>4. FixedLabels'
      BY <1>1, <3>1 DEF IndInv, SafeInv, FixedLabels
    <3>5. AllOnRecord'
      <4>1. OnRecord(cache)' /\ OnRecord(mem)' /\ OnRecord(before)'
        BY <1>1, RecordsKept
      <4>2. OnRecord(api)'
        BY <1>1, <3>1 DEF IndInv, SafeInv, AllOnRecord, OnRecord, Created
      <4> QED
        BY <4>1, <4>2 DEF AllOnRecord
    <3>6. OneCreated' /\ CacheLags'
      BY <1>1, <1>4, <3>1, <3>2
         DEF IndInv, SafeInv, OneCreated, Created, CacheLags, DeletionSeen
    <3>7. FinalizerFirst'
      BY <1>1, <1>4, <3>1, <3>2, <3>3
         DEF IndInv, SafeInv, FinalizerFirst, Created, NormalSteps, PatchSteps
    <3>8. TeardownLast'
      BY <1>1, <1>4 DEF IndInv, SafeInv, TeardownLast, DeletionSeen, NormalSteps,
                        PatchSteps, LiveServers
    <3>9. FinalizerGuardsServer'
      BY <1>1, <3>1, <3>2 DEF IndInv, SafeInv, FinalizerGuardsServer, LiveServers
    <3> QED
      BY <3>4, <3>5, <3>6, <3>7, <3>8, <3>9 DEF SafeInv
  <2> QED
    BY <2>2, <2>3
<1> QED
  BY <1>2, <1>3, <1>4

LEMMA PatchDoneSafe ==
  ASSUME IndInv, PatchDone
  PROVE  SafeInv'
<1>1. /\ pc = "patchDone" /\ resume' = "idle"
      /\ UNCHANGED <<api, cache, server, serverLabels, inflight, skipped>>
  BY DEF PatchDone, objectVars, cloudVars
<1>2. NoObject.labels = InitialLabels /\ OnRecord(NoObject)
  BY DEF NoObject, NewObject, OnRecord
<1>3. FixedLabels'
  BY <1>1, <1>2 DEF IndInv, SafeInv, FixedLabels, PatchDone
<1>4. AllOnRecord'
  <2>1. OnRecord(api)' /\ OnRecord(cache)'
    BY <1>1, RecordsKept
  <2>2. OnRecord(mem)' /\ OnRecord(before)'
    BY <1>1, <1>2 DEF IndInv, SafeInv, AllOnRecord, OnRecord, Created, PatchDone
  <2> QED
    BY <2>1, <2>2 DEF AllOnRecord
<1>5. OneCreated' /\ CacheLags' /\ FinalizerGuardsServer'
  <2>1. OneCreated'
    <3>1. pc' \notin {"deleteServer", "createPost"}
      BY DEF PatchDone
    <3> QED
      BY <1>1, <3>1 DEF IndInv, SafeInv, OneCreated, Created
  <2>2. CacheLags'
    BY <1>1 DEF IndInv, SafeInv, CacheLags, DeletionSeen
  <2>3. FinalizerGuardsServer'
    BY <1>1 DEF IndInv, SafeInv, FinalizerGuardsServer, LiveServers
  <2> QED
    BY <2>1, <2>2, <2>3
<1>6. FinalizerFirst'
  BY <1>1 DEF IndInv, SafeInv, FinalizerFirst, Created, NormalSteps, PatchSteps, PatchDone
<1>7. TeardownLast'
  BY <1>1 DEF IndInv, SafeInv, FinalizerFirst, TeardownLast, DeletionSeen, NormalSteps,
              PatchSteps, LiveServers, PatchDone
<1> QED
  BY <1>3, <1>4, <1>5, <1>6, <1>7 DEF SafeInv

-----------------------------------------------------------------------------
(* Everybody else.                                                         *)

\* A step that leaves what the invariant speaks of alone.
LEMMA IdleSafe ==
  ASSUME IndInv,
         UNCHANGED <<api, cache, pc, mem, before, resume, target, server, serverLabels,
                     inflight, skipped>>
  PROVE  SafeInv'
<1>1. FixedLabels'
  BY DEF IndInv, SafeInv, FixedLabels
<1>2. AllOnRecord'
  BY RecordsKept DEF AllOnRecord
<1>3. OneCreated'
  BY DEF IndInv, SafeInv, OneCreated, Created
<1>4. CacheLags'
  BY DEF IndInv, SafeInv, CacheLags, DeletionSeen
<1>5. FinalizerFirst'
  BY DEF IndInv, SafeInv, FinalizerFirst, Created, NormalSteps, PatchSteps
<1>6. TeardownLast'
  BY DEF IndInv, SafeInv, TeardownLast, DeletionSeen, NormalSteps, PatchSteps, LiveServers
<1>7. FinalizerGuardsServer'
  BY DEF IndInv, SafeInv, FinalizerGuardsServer, LiveServers
<1> QED
  BY <1>1, <1>2, <1>3, <1>4, <1>5, <1>6, <1>7 DEF SafeInv

LEMMA ReconcileNothingSafe ==
  ASSUME IndInv, ReconcileNothing \/ WatchEvent
  PROVE  SafeInv'
<1>1. UNCHANGED <<api, cache, pc, mem, before, resume, target, server, serverLabels,
                  inflight, skipped>>
  BY DEF ReconcileNothing, WatchEvent, Dequeue, reconcileVars, cloudVars
<1> QED
  BY <1>1, IdleSafe

\* The informer never forgets a deletion, so it can only move forward.
LEMMA ObserveSafe ==
  ASSUME IndInv, Observe
  PROVE  SafeInv'
<1>1. /\ cache' = api
      /\ UNCHANGED <<api, pc, mem, before, resume, target, server, serverLabels,
                     inflight, skipped>>
  BY DEF Observe, reconcileVars, cloudVars
<1>2. FixedLabels' /\ AllOnRecord'
  <2>1. FixedLabels'
    BY <1>1 DEF IndInv, SafeInv, FixedLabels
  <2>2. OnRecord(api)' /\ OnRecord(mem)' /\ OnRecord(before)'
    BY <1>1, RecordsKept
  <2>3. OnRecord(cache)'
    BY <1>1 DEF IndInv, SafeInv, AllOnRecord, OnRecord, Created
  <2> QED
    BY <2>1, <2>2, <2>3 DEF AllOnRecord
<1>3. OneCreated' /\ FinalizerFirst' /\ FinalizerGuardsServer'
  BY <1>1 DEF IndInv, SafeInv, OneCreated, Created, FinalizerFirst,
              FinalizerGuardsServer, LiveServers
<1>4. CacheLags'
  BY <1>1 DEF CacheLags, DeletionSeen
<1>5. DeletionSeen => DeletionSeen'
  BY <1>1 DEF IndInv, SafeInv, CacheLags, DeletionSeen
<1>6. TeardownLast'
  BY <1>1, <1>5 DEF IndInv, SafeInv, TeardownLast, LiveServers
<1> QED
  BY <1>2, <1>3, <1>4, <1>6 DEF SafeInv

LEMMA DeleteObjectSafe ==
  ASSUME IndInv, DeleteObject
  PROVE  SafeInv'
<1>1. /\ api.exists /\ ~api.deleting
      /\ api' = Collected([api EXCEPT !.deleting = TRUE])
      /\ UNCHANGED <<cache, pc, mem, before, resume, target, server, serverLabels,
                     inflight, skipped>>
  BY DEF DeleteObject, reconcileVars, cloudVars
<1>2. CASE api.finalizer
  <2>1. /\ api'.exists /\ api'.deleting /\ api'.finalizer
        /\ api'.labels = api.labels /\ api'.instanceID = api.instanceID
        /\ api'.providerID = api.providerID /\ api'.provisioned = api.provisioned
    BY <1>1, <1>2 DEF Collected, IndInv, TypeOK, ObjectsTyped, Objects
  <2>2. FixedLabels' /\ AllOnRecord'
    <3>1. FixedLabels'
      BY <1>1, <2>1 DEF IndInv, SafeInv, FixedLabels
    <3>2. OnRecord(api)'
      BY <1>1, <2>1, Zenon DEF IndInv, SafeInv, AllOnRecord, OnRecord, Created
    <3>3. OnRecord(cache)' /\ OnRecord(mem)' /\ OnRecord(before)'
      BY <1>1, RecordsKept
    <3> QED
      BY <3>1, <3>2, <3>3 DEF AllOnRecord
  <2>3. OneCreated' /\ CacheLags' /\ TeardownLast'
    <3>1. OneCreated'
      BY <1>1 DEF IndInv, SafeInv, OneCreated, Created
    <3>2. CacheLags'
      BY <1>1, <2>1 DEF IndInv, SafeInv, CacheLags, DeletionSeen
    <3>3. TeardownLast'
      BY <1>1 DEF IndInv, SafeInv, TeardownLast, DeletionSeen, LiveServers
    <3> QED
      BY <3>1, <3>2, <3>3
  <2>4. FinalizerFirst' /\ FinalizerGuardsServer'
    BY <1>1, <2>1 DEF IndInv, SafeInv, FinalizerFirst, FinalizerGuardsServer, Created
  <2> QED
    BY <2>2, <2>3, <2>4 DEF SafeInv
<1>3. CASE ~api.finalizer
  <2>1. /\ ~api'.exists /\ ~api'.deleting /\ ~api'.finalizer /\ ~api'.provisioned
        /\ api'.labels = InitialLabels
        /\ api'.instanceID = NoServer /\ api'.providerID = NoProviderID
    BY <1>1, <1>3 DEF Collected, NoObject, NewObject, IndInv, TypeOK, ObjectsTyped, Objects
  <2>2. /\ pc \notin NormalSteps
        /\ resume = "gates" => pc \in {"patchConditions", "patchSpec"}
        /\ \A s \in Servers : ~Created(s)
    BY <1>1, <1>3 DEF IndInv, SafeInv, FinalizerFirst, PatchSteps
  <2>3. FixedLabels' /\ AllOnRecord'
    <3>1. FixedLabels'
      BY <1>1, <2>1 DEF IndInv, SafeInv, FixedLabels
    <3>2. OnRecord(api)'
      BY <1>1, <2>1 DEF OnRecord
    <3>3. OnRecord(cache)' /\ OnRecord(mem)' /\ OnRecord(before)'
      BY <1>1, RecordsKept
    <3> QED
      BY <3>1, <3>2, <3>3 DEF AllOnRecord
  <2>4. OneCreated' /\ TeardownLast'
    BY <1>1, <2>1 DEF IndInv, SafeInv, OneCreated, Created, TeardownLast,
                      DeletionSeen, LiveServers
  <2>5. CacheLags'
    BY <1>1, <1>3, <2>1 DEF IndInv, SafeInv, CacheLags, DeletionSeen
  <2>6. FinalizerFirst'
    BY <1>1, <2>1, <2>2 DEF IndInv, SafeInv, FinalizerFirst
  <2>7. FinalizerGuardsServer'
    BY <1>1, <2>2 DEF FinalizerGuardsServer, LiveServers, Created
  <2> QED
    BY <2>3, <2>4, <2>5, <2>6, <2>7 DEF SafeInv
<1> QED
  BY <1>2, <1>3

LEMMA RestartSafe ==
  ASSUME IndInv, Restart
  PROVE  SafeInv'
<1>1. /\ pc' = "idle" /\ mem' = NoObject /\ before' = NoObject /\ resume' = "idle"
      /\ cache' = api
      /\ UNCHANGED <<api, server, serverLabels, inflight, skipped>>
  BY DEF Restart, cloudVars
<1>2. NoObject.labels = InitialLabels /\ OnRecord(NoObject)
  BY DEF NoObject, NewObject, OnRecord
<1>3. FixedLabels'
  BY <1>1, <1>2 DEF IndInv, SafeInv, FixedLabels
<1>4. AllOnRecord'
  <2>1. OnRecord(api)'
    BY <1>1, RecordsKept
  <2>2. OnRecord(cache)'
    BY <1>1 DEF IndInv, SafeInv, AllOnRecord, OnRecord, Created
  <2>3. OnRecord(mem)' /\ OnRecord(before)'
    BY <1>1, <1>2 DEF OnRecord, Created
  <2> QED
    BY <2>1, <2>2, <2>3 DEF AllOnRecord
<1>5. OneCreated' /\ CacheLags' /\ FinalizerGuardsServer'
  BY <1>1 DEF IndInv, SafeInv, OneCreated, Created, CacheLags, DeletionSeen,
              FinalizerGuardsServer, LiveServers
<1>6. FinalizerFirst'
  BY <1>1 DEF IndInv, SafeInv, FinalizerFirst, Created, NormalSteps
<1>7. DeletionSeen => DeletionSeen'
  BY <1>1 DEF IndInv, SafeInv, CacheLags, DeletionSeen
<1>8. TeardownLast'
  BY <1>1, <1>7 DEF IndInv, SafeInv, TeardownLast, NormalSteps, PatchSteps
<1> QED
  BY <1>3, <1>4, <1>5, <1>6, <1>8 DEF SafeInv

LEMMA ServerChangesSafe ==
  ASSUME IndInv, NEW s \in Servers, ServerChanges(s)
  PROVE  SafeInv'
<1>1. UNCHANGED <<api, cache, pc, mem, before, resume, target, serverLabels, inflight, skipped>>
  BY DEF ServerChanges, objectVars, reconcileVars
<1>2. /\ \A t \in Servers : Created(t)' <=> Created(t)
      /\ \A t \in Servers : server'[t] \in {"deleting", "gone"} => server[t] \in {"deleting", "gone"}
      /\ LiveServers' = LiveServers
  BY DEF ServerChanges, Created, LiveServers, IndInv, TypeOK, CloudTyped
<1>3. FixedLabels'
  BY <1>1 DEF IndInv, SafeInv, FixedLabels
<1>4. AllOnRecord'
  BY <1>1, <1>2, Fields
     DEF IndInv, SafeInv, AllOnRecord, OnRecord, TypeOK, ObjectsTyped, ServerIDs
<1>5. OneCreated'
  BY <1>1, <1>2 DEF IndInv, SafeInv, OneCreated, TypeOK, CloudTyped, ServerIDs
<1>6. CacheLags' /\ FinalizerGuardsServer'
  BY <1>1, <1>2 DEF IndInv, SafeInv, CacheLags, DeletionSeen, FinalizerGuardsServer
<1>7. FinalizerFirst'
  BY <1>1, <1>2 DEF IndInv, SafeInv, FinalizerFirst
<1>8. TeardownLast'
  BY <1>1, <1>2 DEF IndInv, SafeInv, TeardownLast, DeletionSeen
<1> QED
  BY <1>3, <1>4, <1>5, <1>6, <1>7, <1>8 DEF SafeInv

-----------------------------------------------------------------------------
\* Every step keeps the invariant.
LEMMA SafeStep ==
  ASSUME ExclusiveOwner, IndInv, [Next]_vars
  PROVE  IndInv'
<1>1. TypeOK'
  BY TypeStep DEF IndInv
<1>2. SafeInv'
  <2>1. CASE Reconcile
    BY <2>1, ReconcileNothingSafe, ReconcilePausedSafe, ReconcileActiveSafe, CheckGatesSafe,
       LookupServerSafe, CreateServerFindSafe, CreateServerPostSafe, NodeSSHAccessSafe,
       ResolveServerSafe, DeleteServerSafe, PatchConditionsSafe, PatchSpecSafe,
       PatchStatusSafe, PatchDoneSafe DEF Reconcile, ExclusiveOwner
  <2>2. CASE Observe \/ WatchEvent \/ DeleteObject \/ Restart
    BY <2>2, ReconcileNothingSafe, ObserveSafe, DeleteObjectSafe, RestartSafe
  <2>3. ~\E l \in LabelSets : EditLabels(l)
    BY DEF EditLabels, ExclusiveOwner
  <2>4. ASSUME NEW s \in Servers
        PROVE  ~DeleteOutOfBand(s) /\ ~CreateLate(s)
    BY DEF DeleteOutOfBand, CreateLate, ExclusiveOwner, IndInv, SafeInv, FixedLabels
  <2>5. CASE UNCHANGED vars
    BY <2>5, IdleSafe DEF vars, objectVars, reconcileVars, cloudVars
  <2> QED
    BY <2>1, <2>2, <2>3, <2>4, <2>5, ServerChangesSafe DEF Next
<1> QED
  BY <1>1, <1>2 DEF IndInv

LEMMA SafeInit == Init => SafeInv
<1> SUFFICES ASSUME Init PROVE SafeInv
  OBVIOUS
<1>1. \A s \in Servers : ~Created(s)
  BY DEF Init, Created
<1>2. FixedLabels /\ AllOnRecord
  BY DEF Init, FixedLabels, AllOnRecord, OnRecord, NewObject, NoObject
<1>3. OneCreated /\ CacheLags
  BY <1>1 DEF Init, OneCreated, CacheLags, DeletionSeen, NewObject
<1>4. FinalizerFirst
  BY <1>1 DEF Init, FinalizerFirst, NormalSteps, NewObject
<1>5. TeardownLast /\ FinalizerGuardsServer
  BY DEF Init, TeardownLast, FinalizerGuardsServer, LiveServers, PatchSteps
<1> QED
  BY <1>2, <1>3, <1>4, <1>5 DEF SafeInv

\* Under ExclusiveOwner the invariant holds at every moment, through lost
\* responses, failed patches, stale reads and restarts.
THEOREM InvariantHolds == ExclusiveOwner => (Spec => []IndInv)
<1> SUFFICES ASSUME ExclusiveOwner PROVE Spec => []IndInv
  OBVIOUS
<1>1. Init => IndInv
  BY TypeInit, SafeInit DEF IndInv
<1>2. IndInv /\ [Next]_vars => IndInv'
  BY SafeStep
<1> QED
  BY <1>1, <1>2, PTL DEF Spec

\* No server ever runs behind a StackitMachine without the finalizer, unless the
\* controller announced that it skips the cleanup (reconcileNormal persists the
\* finalizer first, reconcileDelete drops it last).
THEOREM FinalizerGuards == ExclusiveOwner => (Spec => []FinalizerGuardsServer)
<1>1. IndInv => FinalizerGuardsServer
  BY DEF IndInv, SafeInv
<1> QED
  BY <1>1, InvariantHolds, PTL

\* A machine never has two servers: FindServerByTags finds the one whose create
\* response or status patch was lost (ensureServer, CreateServer).
THEOREM NoDuplicates == ExclusiveOwner => (Spec => []AtMostOneServer)
<1>1. IndInv => AtMostOneServer
  BY DEF IndInv, SafeInv, OneCreated, Created, AtMostOneServer, LiveServers
<1> QED
  BY <1>1, InvariantHolds, PTL

\* CreateServer is never sent for a machine that has anything of a server on
\* record, although ensureServer may decide on a stale copy and PatchObject may have
\* lost the request that records the server.
THEOREM NoRecreation == ExclusiveOwner => (Spec => []NeverRecreated)
<1>1. IndInv => NeverRecreated
  BY Fields DEF IndInv, SafeInv, TypeOK, ObjectsTyped, ServerIDs, AllOnRecord, OnRecord,
                OneCreated, NeverRecreated
<1> QED
  BY <1>1, InvariantHolds, PTL

\* spec.providerID and status.instanceID never name different servers, although
\* PatchObject writes them with two requests.
THEOREM IdentitiesAgree == ExclusiveOwner => (Spec => []IdentityAgrees)
<1>1. IndInv => IdentityAgrees
  BY Fields DEF IndInv, SafeInv, TypeOK, ObjectsTyped, ServerIDs, AllOnRecord, OnRecord,
                OneCreated, IdentityAgrees
<1> QED
  BY <1>1, InvariantHolds, PTL

-----------------------------------------------------------------------------
(* The machine implements GuardedResource.                                 *)

Guarded == api.exists /\ api.finalizer

\* A step of the machine that neither guards, creates, removes, abandons nor
\* releases is a stutter of GuardedResource.
LEMMA Stutters ==
  ASSUME Guarded' <=> Guarded, LiveServers' = LiveServers, skipped' = skipped
  PROVE  UNCHANGED Ownership!vars
  BY DEF Ownership!vars, Guarded

LEMMA PatchSpecOwnership ==
  ASSUME IndInv, PatchSpec
  PROVE  [Ownership!Next]_(Ownership!vars)
<1> DEFINE patched == [api EXCEPT !.finalizer = Merged("finalizer"),
                                  !.providerID = Merged("providerID")]
<1>1. LiveServers' = LiveServers /\ skipped' = skipped
  BY DEF PatchSpec, cloudVars, LiveServers
<1>2. UNCHANGED api \/ (api' = Collected(patched) /\ api.exists)
  BY DEF PatchSpec, Send
<1>3. patched.exists = api.exists /\ patched.finalizer = Merged("finalizer")
  BY DEF IndInv, TypeOK, ObjectsTyped, Objects
<1>4. Guarded' => Guarded \/ LiveServers = {}
  <2>1. ASSUME api.exists, ~api.finalizer
        PROVE  LiveServers = {}
    BY <2>1 DEF IndInv, SafeInv, FinalizerFirst, LiveServers, Created
  <2> QED
    BY <1>2, <2>1 DEF Guarded
<1>5. Guarded /\ ~Guarded' => LiveServers = {} \/ skipped
  <2>1. ASSUME Guarded, ~Guarded'
        PROVE  before.finalizer /\ ~mem.finalizer
    <3>1. api' = Collected(patched)
      BY <1>2, <2>1 DEF Guarded
    <3>2. ~patched.finalizer
      BY <1>3, <2>1, <3>1 DEF Guarded, Collected
    <3> QED
      BY <1>3, <2>1, <3>2, Fields DEF Merged, Guarded, IndInv, TypeOK, ObjectsTyped
  <2> QED
    BY <2>1 DEF IndInv, SafeInv, TeardownLast, PatchSpec, PatchSteps
<1>6. CASE Guarded' <=> Guarded
  BY <1>1, <1>6, Stutters
<1>7. CASE Guarded' /\ ~Guarded
  BY <1>1, <1>4, <1>7 DEF Ownership!Next, Ownership!Guard, Guarded
<1>8. CASE Guarded /\ ~Guarded'
  BY <1>1, <1>5, <1>8 DEF Ownership!Next, Ownership!Release, Guarded
<1> QED
  BY <1>6, <1>7, <1>8

LEMMA CreateServerPostOwnership ==
  ASSUME IndInv, CreateServerPost
  PROVE  [Ownership!Next]_(Ownership!vars)
<1>1. Guarded /\ Guarded' /\ skipped' = skipped
  BY DEF CreateServerPost, Guarded, IndInv, SafeInv, FinalizerFirst, NormalSteps
<1>2. LiveServers = {}
  BY DEF IndInv, SafeInv, OneCreated, CreateServerPost, LiveServers, Created
<1>3. LiveServers' = LiveServers \/ \E s \in Servers : LiveServers' = {s}
  <2>1. ASSUME NEW s \in Servers, server' = [server EXCEPT ![s] = "starting"]
        PROVE  LiveServers' = {s}
    BY <1>2, <2>1 DEF LiveServers, IndInv, TypeOK, CloudTyped
  <2>2. CASE UNCHANGED server
    BY <2>2 DEF LiveServers
  <2> QED
    BY <2>1, <2>2 DEF CreateServerPost, Provision
<1>4. CASE LiveServers' = LiveServers
  BY <1>1, <1>4, Stutters
<1>5. ASSUME NEW s \in Servers, LiveServers' = {s}
      PROVE  Ownership!Next
  BY <1>1, <1>2, <1>5 DEF Ownership!Next, Ownership!Create, Guarded
<1> QED
  BY <1>3, <1>4, <1>5

LEMMA DeleteServerOwnership ==
  ASSUME IndInv, DeleteServer
  PROVE  [Ownership!Next]_(Ownership!vars)
<1>1. (Guarded' <=> Guarded) /\ skipped' = skipped
  BY DEF DeleteServer, Guarded
<1>2. \/ LiveServers' = LiveServers
      \/ \E s \in LiveServers : LiveServers' = LiveServers \ {s}
  <2>1. CASE UNCHANGED server
    BY <2>1 DEF LiveServers
  <2>2. CASE Present(target) /\ server' = [server EXCEPT ![target] = "deleting"]
    BY <2>2 DEF LiveServers, Present, IndInv, TypeOK, CloudTyped
  <2> QED
    BY <2>1, <2>2, Zenon DEF DeleteServer
<1>3. CASE LiveServers' = LiveServers
  BY <1>1, <1>3, Stutters
<1>4. ASSUME NEW s \in LiveServers, LiveServers' = LiveServers \ {s}
      PROVE  Ownership!Next
  <2>1. s \in Servers
    BY DEF LiveServers
  <2> QED
    BY <1>1, <1>4, <2>1 DEF Ownership!Next, Ownership!Remove, Guarded
<1> QED
  BY <1>2, <1>3, <1>4

LEMMA ResolveServerOwnership ==
  ASSUME IndInv, ResolveServer
  PROVE  [Ownership!Next]_(Ownership!vars)
<1>1. (Guarded' <=> Guarded) /\ LiveServers' = LiveServers
  BY DEF ResolveServer, cloudVars, Guarded, LiveServers
<1>2. skipped' = skipped \/ skipped' = TRUE
  BY Zenon DEF ResolveServer
<1>3. CASE skipped' = skipped
  BY <1>1, <1>3, Stutters
<1>4. CASE ~skipped /\ skipped' = TRUE
  BY <1>1, <1>4 DEF Ownership!Next, Ownership!Abandon, Guarded
<1>5. skipped \in BOOLEAN
  BY DEF IndInv, TypeOK, FlagsTyped
<1> QED
  BY <1>2, <1>3, <1>4, <1>5, Zenon

\* Every step of the machine is a step of GuardedResource or a stutter.
LEMMA OwnershipStep ==
  ASSUME ExclusiveOwner, IndInv, [Next]_vars
  PROVE  [Ownership!Next]_(Ownership!vars)
<1>1. CASE UNCHANGED <<api, server, skipped>>
  BY <1>1, Stutters DEF Guarded, LiveServers
<1>2. CASE PatchConditions \/ PatchStatus
  <2>1. api'.exists = api.exists /\ api'.finalizer = api.finalizer
    BY <1>2, Zenon DEF PatchConditions, PatchStatus, Send, IndInv, TypeOK, ObjectsTyped, Objects
  <2> QED
    BY <1>2, <2>1, Stutters, Zenon DEF PatchConditions, PatchStatus, cloudVars, Guarded, LiveServers
<1>3. CASE DeleteObject
  <2>1. Guarded' <=> Guarded
    BY <1>3 DEF DeleteObject, Collected, NoObject, NewObject, Guarded, IndInv, TypeOK,
                ObjectsTyped, Objects
  <2> QED
    BY <1>3, <2>1, Stutters DEF DeleteObject, cloudVars, LiveServers
<1>4. ASSUME NEW s \in Servers, ServerChanges(s)
      PROVE  [Ownership!Next]_(Ownership!vars)
  <2>1. LiveServers' = LiveServers
    BY <1>4 DEF ServerChanges, LiveServers, IndInv, TypeOK, CloudTyped
  <2> QED
    BY <1>4, <2>1, Stutters DEF ServerChanges, objectVars, Guarded
<1>5. CASE Reconcile
  BY <1>1, <1>2, <1>5, PatchSpecOwnership, CreateServerPostOwnership,
     DeleteServerOwnership, ResolveServerOwnership, Zenon
     DEF Reconcile, ReconcileNothing, ReconcilePaused, ReconcileActive, Dequeue, CheckGates,
         LookupServer, CreateServerFind, NodeSSHAccess, PatchDone, objectVars, cloudVars
<1>6. CASE Observe \/ WatchEvent \/ Restart \/ UNCHANGED vars
  BY <1>1, <1>6 DEF Observe, WatchEvent, Restart, vars, objectVars, cloudVars
<1>7. ~\E l \in LabelSets : EditLabels(l)
  BY DEF EditLabels, ExclusiveOwner
<1>8. ASSUME NEW s \in Servers
      PROVE  ~DeleteOutOfBand(s) /\ ~CreateLate(s)
  BY DEF DeleteOutOfBand, CreateLate, ExclusiveOwner, IndInv, SafeInv, FixedLabels
<1> QED
  BY <1>3, <1>4, <1>5, <1>6, <1>7, <1>8 DEF Next

\* The reconciler implements GuardedResource: servers come into being one at a
\* time and behind the finalizer, and the finalizer goes after them.
THEOREM OwnershipHolds == ExclusiveOwner => (Spec => OwnershipSpec)
<1> SUFFICES ASSUME ExclusiveOwner PROVE Spec => OwnershipSpec
  OBVIOUS
<1>1. Init => Ownership!Init
  <2> SUFFICES ASSUME Init PROVE Ownership!Init
    OBVIOUS
  <2>1. ~(api.exists /\ api.finalizer) /\ skipped = FALSE
    BY DEF Init, NewObject
  <2>2. LiveServers = {}
    BY DEF Init, LiveServers
  <2> QED
    BY <2>1, <2>2 DEF Ownership!Init
<1>2. IndInv /\ [Next]_vars => [Ownership!Next]_(Ownership!vars)
  BY OwnershipStep
<1>3. Spec => []IndInv
  BY InvariantHolds
<1> QED
  BY <1>1, <1>2, <1>3, PTL DEF Spec, OwnershipSpec, Ownership!Spec
=============================================================================
