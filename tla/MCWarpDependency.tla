-------------------------- MODULE MCWarpDependency --------------------------
(* Small instances of WarpDependency.  The Nodes are told apart only by    *)
(* their uses of WARP; the temporal property leaves no room for symmetry.  *)
EXTENDS WarpDependency, TLC

(* One Node suffices: more only decide which mode a heartbeat asks for.    *)
MCNodes == {"vless"}
=============================================================================
