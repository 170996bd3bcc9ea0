---------------------------- MODULE MCHostConfig ----------------------------
(* HostConfig with the four values of the two-bit strategy select, so that a *)
(* request can go to one value and on to another, or back, in the middle of  *)
(* a transfer; the synchronizer depths are those of the top.                 *)
EXTENDS HostConfig

Selects == 0 .. 3
=============================================================================
