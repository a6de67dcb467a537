--------------------------- MODULE MCFileMoveJobs ---------------------------
(***************************************************************************)
(* Instances of FileMoveJobs for TLC.                                      *)
(***************************************************************************)
EXTENDS FileMoveJobs, TLC

HandlerSymmetry == Permutations(Handlers)

\* Requests, lost connections, crashes and restarts of a behaviour: two for a
\* move by copy, one for a rename.
TwoIncidents ==
  Cardinality({h \in Handlers : op[h] # Idle}) + breaks + restarts <= IF sameSource THEN 1 ELSE 2
=============================================================================
