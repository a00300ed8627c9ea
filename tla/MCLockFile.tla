------------------------------ MODULE MCLockFile ------------------------------
(***************************************************************************)
(* Three processes on two hosts, for the run of LockFile.                  *)
(***************************************************************************)
EXTENDS LockFile, TLC

CONSTANTS p, q, r

MCHostOf == (p :> 1 @@ q :> 1 @@ r :> 2)
=============================================================================
