-------------------------- MODULE MCStackitCluster --------------------------
(* Small instances of StackitCluster for TLC.                              *)
EXTENDS StackitCluster

MCLabelSets == {{}, {"team"}}

MCInitialLabels == {}

Shape(m, b, f, e, k) ==
  [managed |-> m, balanced |-> b, faults |-> f, edits |-> e, kinds |-> k]

\* Everything managed, or the network and the endpoint of the user, and faults.
MCFaults == {Shape(TRUE, TRUE, 2, 0, {}), Shape(FALSE, FALSE, 2, 0, {})}

MCLiveness == {Shape(TRUE, TRUE, 1, 0, {})}

\* Label edits with a fault or a delete in the portal; the bastion switched and
\* its document edited without a fault.
MCInterference ==
  {Shape(TRUE, TRUE, 1, 3, {"labels", "portal"}),
   Shape(TRUE, TRUE, 0, 2, {"switch", "content"}),
   Shape(FALSE, FALSE, 0, 2, {"switch", "content"})}

MCLabelEdit == {Shape(FALSE, FALSE, 0, 1, {"labels"})}

MCOneContent == {"c1"}

MCTwoContents == {"c1", "c2"}
=============================================================================
