---------------------------- MODULE MCComponents ----------------------------
(***************************************************************************)
(* The storage components that several processors share, each on its own:  *)
(* the line cache with its user, and the pending queue with the buses on   *)
(* its two sides.  A behaviour is one of the one or of the other.          *)
(***************************************************************************)
EXTENDS LineCache, PendingQueue

VARIABLE component

componentVars == <<component, vars, pendingVars>>

InitComponents ==
  /\ component \in {"cache", "queue"}
  /\ Init /\ InitQueue

NextComponents ==
  \/ component = "cache" /\ Next /\ UNCHANGED <<component, pendingVars>>
  \/ component = "queue" /\ NextQueue /\ UNCHANGED <<component, vars>>

SpecComponents ==
  InitComponents /\ [][NextComponents]_componentVars /\ FairQueue
=============================================================================
