--------------------------- MODULE MCFutureCache ---------------------------
(* Instances of FutureCache for TLC. The futures outnumber the getters and *)
(* keys that can refer to one, so that allocation never fails.             *)
EXTENDS FutureCache

============================================================================
