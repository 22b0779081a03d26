--------------------------- MODULE MCHandlerQueue ---------------------------
(* Instances of HandlerQueue: the constants are bounds, given in the cfgs.   *)
EXTENDS HandlerQueue
=============================================================================
