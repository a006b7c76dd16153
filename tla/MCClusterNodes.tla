--------------------------- MODULE MCClusterNodes ---------------------------
(* Instances of ClusterNodes for TLC.                                      *)
EXTENDS ClusterNodes

MCIPs == {210, 211}

\* One Machine in a region with two zones and a metro zone.  Of the prefixes of
\* the network the first does not parse and the second is too small.
Shape ==
  [balanced |-> FALSE, bastion |-> FALSE, machines |-> {1},
   failureDomain |-> [m \in Machines |-> NoZone],
   availabilityZone |-> [m \in Machines |-> NoZone],
   zones |-> {1, 2, 9},
   prefixes |-> <<[base |-> 0, size |-> 0, v4 |-> FALSE],
                  [base |-> 100, size |-> 8, v4 |-> TRUE],
                  [base |-> 200, size |-> 16, v4 |-> TRUE]>>,
   ips |-> {210}, faults |-> 0, edits |-> 0, kinds |-> {}]

\* A control plane of two Machines, spread over the zones, one of whose servers
\* is deleted so that its address is free again.
Replicas ==
  [Shape EXCEPT !.balanced = TRUE, !.machines = {1, 2}, !.ips = MCIPs,
     !.failureDomain = [m \in Machines |-> IF m = 2 THEN 2 ELSE NoZone],
     !.availabilityZone = [m \in Machines |-> 1],
     !.edits = 1, !.kinds = {"server"}]

\* A control plane of one Machine that is scaled down, or whose load balancer is
\* deleted, with a fault; only the metro zone is reported and no prefix is usable.
Single ==
  [Shape EXCEPT !.balanced = TRUE, !.zones = {9}, !.prefixes = <<>>,
     !.faults = 1, !.edits = 1, !.kinds = {"scale", "balancer"}]

\* The same control plane left alone, with two faults in a row.
Unread == [Single EXCEPT !.faults = 2, !.edits = 0]

\* A bastion and a node: the bastion is switched off and on again, or its
\* document changes.
Toggled ==
  [Shape EXCEPT !.bastion = TRUE, !.edits = 2, !.kinds = {"toggle"}]

Recreated == [Toggled EXCEPT !.edits = 1, !.kinds = {"document"}]

\* It is switched off in the presence of a fault, or, before there is a node, of
\* two.
Switched == [Toggled EXCEPT !.faults = 1, !.edits = 1]

Early == [Switched EXCEPT !.machines = {}, !.faults = 2]

\* A Machine that asks for a zone that the region does not report, and a fault.
Misplaced ==
  [Shape EXCEPT !.availabilityZone = [m \in Machines |-> 3], !.faults = 1]

MCAll == {Replicas, Single, Unread, Toggled, Recreated, Switched, Early,
          Misplaced}

MCSwitched == {[Switched EXCEPT !.faults = 0]}
=============================================================================
