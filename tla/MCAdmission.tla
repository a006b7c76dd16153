---------------------------- MODULE MCAdmission ----------------------------
(* Admission on small instances. *)
EXTENDS Admission

\* No root volume, one with a size, one with a performance class whose disk is
\* kept, one with deleteOnTermination alone, and one of negative size.
MCVolumes ==
  {NoVolume,
   [NoVolume EXCEPT !.size = 1],
   [NoVolume EXCEPT !.class = TRUE, !.dot = "false"],
   [NoVolume EXCEPT !.dot = "true"],
   [NoVolume EXCEPT !.size = -1]}

MCFamilies == {"cluster", "clusterTemplate", "machine"}
=============================================================================
