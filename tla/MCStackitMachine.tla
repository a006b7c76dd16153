-------------------------- MODULE MCStackitMachine --------------------------
(* StackitMachine on small instances. *)
EXTENDS StackitMachine, TLC

CONSTANTS s1, s2

TwoServers == {s1, s2}

\* spec.additionalLabels empty, or with one pair.
MCLabelSets == {{}, {"team"}}

MCInitialLabels == {}

Symmetry2 == Permutations(TwoServers)
=============================================================================
