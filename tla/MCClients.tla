------------------------------ MODULE MCClients ------------------------------
(***************************************************************************)
(* Packages whose callers wait for the event loop, for TLC: the cache that *)
(* is filled by answers, user events and their watchers, and the client    *)
(* that restores its names.  They have no state in common: a behaviour     *)
(* uses one of them.                                                       *)
(***************************************************************************)
EXTENDS AsyncCache, UEvent, NameServAuto

\* One pattern of watchers matches all tags, one all events.
AllPatterns == {Tag, TagEvent}

VARIABLE used  \* the package

ClientsInit ==
  /\ used \in {"cache", "uevent", "auto"}
  /\ Init /\ (used # "cache" => full)
  /\ UEventInit
  /\ AutoInit /\ (used # "auto" => up)

ClientsNext ==
  /\ UNCHANGED used
  /\ \/ used = "cache"  /\ Next       /\ UNCHANGED <<uVars, aVars>>
     \/ used = "uevent" /\ UEventNext /\ UNCHANGED <<vars, aVars>>
     \/ used = "auto"   /\ AutoNext   /\ UNCHANGED <<vars, uVars>>

ClientsSpec ==
  /\ ClientsInit /\ [][ClientsNext]_<<used, vars, uVars, aVars>>
  /\ Fairness /\ AutoFairness
=============================================================================
