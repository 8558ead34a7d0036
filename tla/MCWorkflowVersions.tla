--------------------------- MODULE MCWorkflowVersions ---------------------------
(* Three publications that may meet, two deletions and a queued execution: two    *)
(* that met can be followed by one that did not, a deleted version can be older   *)
(* than the newest by two, a number can be freed and taken again, and two         *)
(* deletions can want the same row.                                               *)
EXTENDS WorkflowVersions, TLC

CONSTANTS p1, p2, p3, d1, d2, x1

Symmetry ==
  Permutations({p1, p2, p3}) \cup Permutations({d1, d2})
=================================================================================
