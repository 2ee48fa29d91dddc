------------------------------ MODULE MCSelect ------------------------------
(***************************************************************************)
(* Bounds of Select for TLC: a pipe watched for data, one watched for      *)
(* space, a regular file and a socket, all modes, any set of them asked    *)
(* for in each call, and everything that may fail does.                    *)
(***************************************************************************)
EXTENDS Select

MCFaults == FaultKinds
MCNoFaults == {}
MCModes == {"wait", "timed", "poll"}
=============================================================================
