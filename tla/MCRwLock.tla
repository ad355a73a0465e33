------------------------------ MODULE MCRwLock ------------------------------
(* RwLock for TLC: an application, a device thread and the routing thread.  *)
EXTENDS RwLock

CONSTANTS app, device, routing
=============================================================================
