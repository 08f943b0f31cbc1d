---------------------------- MODULE MCAsyncJobs ----------------------------
(***************************************************************************)
(* AsyncJobs on concrete processes: two workers in two processes, or the   *)
(* two goroutines of one process, and a cancel request served by p1.       *)
(***************************************************************************)
EXTENDS AsyncJobs, TLC

CONSTANTS w1, w2, c1, p1, p2

MCApart    == w1 :> p1 @@ w2 :> p2
MCTogether == w1 :> p1 @@ w2 :> p1
MCCancel   == c1 :> p1
MCNoCancel == <<>>
=============================================================================
