----------------------------- MODULE MCFileEnds -----------------------------
(***************************************************************************)
(* How downloads (FileDownload) and moves (FileMoveJobs) come to their     *)
(* end, for TLC: a GET and a preview that share the agent's connection, or *)
(* a move with one request to cancel, retry or roll it back, lost          *)
(* connections, crashes and restarts.                                      *)
(***************************************************************************)
EXTENDS FileDownload, FileMoveJobs

VARIABLE about  \* what the behaviour is of

\* The end of the file, and a range that reaches beyond it.
MCRanges == {<<1, Size>>, <<0, Size + 1>>}

EndsInit ==
    /\ Init /\ MoveInit
    /\ about = "move" \/ (about = "download" /\ ~sameSource)

EndsNext ==
    \/ about = "download" /\ Next /\ UNCHANGED <<moveVars, about>>
    \/ about = "move" /\ MoveNext /\ UNCHANGED <<vars, about>>

EndsSpec == EndsInit /\ [][EndsNext]_<<vars, moveVars, about>> /\ Fairness /\ MoveFairness
=============================================================================
