--------------------------- MODULE GuardedResource ---------------------------
(***************************************************************************)
(* What a reconciler promises about the cloud resources it owns on behalf  *)
(* of one Kubernetes object: a resource comes into being only while the    *)
(* object carries the provider's finalizer, at most one of a kind is live  *)
(* at a time, and the finalizer is dropped only when none is live, unless  *)
(* the controller gave up cleaning because the credentials Secret is gone. *)
(***************************************************************************)
CONSTANTS
  Resources,  \* everything the cloud may hand out
  kind        \* what each resource is: a function on Resources

VARIABLES
  guarded,    \* the object exists and carries the finalizer
  live,       \* the resources that exist and are not being torn down
  abandoned   \* the controller announced that cleanup is skipped

vars == <<guarded, live, abandoned>>

Init ==
  /\ guarded = FALSE
  /\ live = {}
  /\ abandoned = FALSE

Guard ==
  /\ ~guarded
  /\ live = {}
  /\ guarded' = TRUE
  /\ UNCHANGED <<live, abandoned>>

Create(r) ==
  /\ guarded
  /\ \A s \in live : kind[s] # kind[r]
  /\ live' = live \cup {r}
  /\ UNCHANGED <<guarded, abandoned>>

Remove(r) ==
  /\ r \in live
  /\ live' = live \ {r}
  /\ UNCHANGED <<guarded, abandoned>>

Abandon ==
  /\ ~abandoned
  /\ abandoned' = TRUE
  /\ UNCHANGED <<guarded, live>>

Release ==
  /\ guarded
  /\ live = {} \/ abandoned
  /\ guarded' = FALSE
  /\ UNCHANGED <<live, abandoned>>

Next ==
  \/ Guard \/ Abandon \/ Release
  \/ \E r \in Resources : Create(r) \/ Remove(r)

Spec == Init /\ [][Next]_vars
=============================================================================
