---------------------------- MODULE MCAsyncFifo ----------------------------
(* AsyncFifo at the depth of the AXI-Lite channels (CSR_DEPTH = 4): the      *)
(* smallest at which the two top bits of a pointer are not all of its bits.  *)
EXTENDS AsyncFifo
=============================================================================
