----------------------------- MODULE RouteTable -----------------------------
(***************************************************************************)
(* What the routing service promises, with no caches or notifications: the *)
(* answer for a tenant in a region is the tenant's route there, else the   *)
(* tenant's default, else the region's route, else the default of all, as  *)
(* the table has them at that moment.                                      *)
(***************************************************************************)
CONSTANTS
  None,           \* no tenant, no region, no destination
  Tenants, Regions, Destinations

VARIABLES
  routes,   \* <<tenant or None, region or None>> -> its destination, or None
  answer    \* what the last call said, if it was a resolve, or None

tableVars == <<routes, answer>>

AllScopes == (Tenants \cup {None}) \X (Regions \cup {None})

Init == routes = [scope \in AllScopes |-> None] /\ answer = None

Right(t, r) ==
  CASE routes[<<t, r>>] # None -> routes[<<t, r>>]
    [] routes[<<t, r>>] = None /\ routes[<<t, None>>] # None -> routes[<<t, None>>]
    [] routes[<<t, r>>] = None /\ routes[<<t, None>>] = None /\ routes[<<None, r>>] # None ->
         routes[<<None, r>>]
    [] OTHER -> routes[<<None, None>>]

Set(scope, d) ==
  routes' = [routes EXCEPT ![scope] = d] /\ answer' = None

Remove(scope) ==
  routes' = [routes EXCEPT ![scope] = None] /\ answer' = None

Resolve(t, r) ==
  /\ answer' = [tenant |-> t, region |-> r, destination |-> Right(t, r)]
  /\ UNCHANGED routes

(* A call that is about neither changes nothing.                           *)
Other ==
  answer' = None /\ UNCHANGED routes

Next ==
  \/ Other
  \/ \E scope \in AllScopes : Remove(scope) \/ \E d \in Destinations : Set(scope, d)
  \/ \E t \in Tenants, r \in Regions : Resolve(t, r)

Spec == Init /\ [][Next]_tableVars
=============================================================================
