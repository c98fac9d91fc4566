---------------------------- MODULE RouteService ----------------------------
(***************************************************************************)
(* The routing service of examples/routing-cache-regression with the       *)
(* registry and the cache of its reference solution: one registry, and any *)
(* number of resolvers, each with a cache of its own that subscribes to    *)
(* the registry's changes.  All calls are sequential, as the task's        *)
(* specification says.                                                     *)
(***************************************************************************)
EXTENDS Integers, FiniteSets

CONSTANTS
  None,           \* Python's None; also the answer RouteNotFoundError
  Tenants, Regions, Destinations,
  Resolvers,      \* those that come to be constructed
  MaxGeneration   \* bound: changes a cache is told of

ASSUME RouteAssumption ==
  /\ None \notin Tenants \cup Regions \cup Destinations
  /\ MaxGeneration \in Nat

VARIABLES
  routes,       \* RouteRegistry._routes: scope -> destination, or None
  listeners,    \* RouteRegistry._listeners, as the resolvers whose caches they are
  entries,      \* RouteCache._entries: resolver -> key -> _CachedRoute, or None
  generation,   \* RouteCache._generation of each resolver
  answer        \* history: what the last call returned, if it was a resolve, or None

caches == <<entries, generation>>
vars == <<routes, listeners, caches, answer>>

(* A RouteKey; a key that can be resolved has both parts.                  *)
Scopes == (Tenants \cup {None}) \X (Regions \cup {None})
Keys == Tenants \X Regions
CachedRoute == [generation : Nat, destination : Destinations]

Init ==
  /\ routes = [scope \in Scopes |-> None] /\ listeners = {}
  /\ entries = [r \in Resolvers |-> [key \in Keys |-> None]]
  /\ generation = [r \in Resolvers |-> 0]
  /\ answer = None

(* RouteResolver(registry): a cache of its own, subscribed.                *)
Construct(r) ==
  /\ r \notin listeners
  /\ listeners' = listeners \cup {r} /\ answer' = None
  /\ UNCHANGED <<routes, caches>>
-----------------------------------------------------------------------------
(* RouteCache.invalidate: every entry there is now of an earlier generation. *)
Invalidated(current) == current + 1

(* Mutant (the task's starting version): only the entry of exactly the     *)
(* changed scope is dropped.                                               *)
PublishExact(scope) ==
  /\ entries' = [r \in Resolvers |-> [key \in Keys |->
                   IF r \in listeners /\ key = scope THEN None ELSE entries[r][key]]]
  /\ UNCHANGED generation

(* Every listener's cache is invalidated as a whole.                       *)
Publish(scope) ==
  /\ \A r \in listeners : generation[r] < MaxGeneration
  /\ generation' = [r \in Resolvers |->
                      IF r \in listeners THEN Invalidated(generation[r]) ELSE generation[r]]
  /\ UNCHANGED entries

Set(scope, destination) ==
  /\ routes' = [routes EXCEPT ![scope] = destination]
  /\ Publish(scope)
  /\ answer' = None
  /\ UNCHANGED listeners

(* Mutant (the task's starting version): a removal is not published.       *)
RemoveQuietly(scope) ==
  /\ routes[scope] # None
  /\ routes' = [routes EXCEPT ![scope] = None]
  /\ answer' = None
  /\ UNCHANGED <<listeners, caches>>

(* Removing a route that is there; any other removal changes nothing.      *)
Remove(scope) ==
  /\ routes[scope] # None
  /\ routes' = [routes EXCEPT ![scope] = None]
  /\ Publish(scope)
  /\ answer' = None
  /\ UNCHANGED listeners
-----------------------------------------------------------------------------
(* The scopes that determine a key's destination, in order.                *)
Hierarchy(key) ==
  <<key, <<key[1], None>>, <<None, key[2]>>, <<None, None>>>>

Configured(key) == {i \in 1..4 : routes[Hierarchy(key)[i]] # None}

(* RouteResolver._lookup; None stands for RouteNotFoundError.              *)
Lookup(key) ==
  IF Configured(key) = {} THEN None
  ELSE LET first == CHOOSE i \in Configured(key) : \A j \in Configured(key) : i <= j
       IN  routes[Hierarchy(key)[first]]

Answer(key, destination) ==
  [tenant |-> key[1], region |-> key[2], destination |-> destination]

Cached(r, key) ==
  entries[r][key] # None /\ entries[r][key].generation = generation[r]

ResolveCached(r, key) ==
  /\ r \in listeners /\ Cached(r, key)
  /\ answer' = Answer(key, entries[r][key].destination)
  /\ UNCHANGED <<routes, listeners, caches>>

ResolveFresh(r, key) ==
  /\ r \in listeners /\ ~Cached(r, key) /\ Lookup(key) # None
  /\ answer' = Answer(key, Lookup(key))
  /\ entries' = [entries EXCEPT ![r][key] =
                   [generation |-> generation[r], destination |-> Lookup(key)]]
  /\ UNCHANGED <<routes, listeners, generation>>

(* An entry of an earlier generation has been dropped by then.             *)
ResolveNotFound(r, key) ==
  /\ r \in listeners /\ ~Cached(r, key) /\ Lookup(key) = None
  /\ answer' = Answer(key, None)
  /\ entries' = [entries EXCEPT ![r][key] = None]
  /\ UNCHANGED <<routes, listeners, generation>>

Clear(r) ==
  /\ r \in listeners
  /\ entries' = [entries EXCEPT ![r] = [key \in Keys |-> None]]
  /\ answer' = None
  /\ UNCHANGED <<routes, listeners, generation>>
-----------------------------------------------------------------------------
Next ==
  \/ \E scope \in Scopes : Remove(scope) \/ \E d \in Destinations : Set(scope, d)
  \/ \E r \in Resolvers :
       \/ Construct(r) \/ Clear(r)
       \/ \E key \in Keys :
            ResolveCached(r, key) \/ ResolveFresh(r, key) \/ ResolveNotFound(r, key)

Spec == Init /\ [][Next]_vars
-----------------------------------------------------------------------------
(* Every variable holds a value of its kind.                               *)
TypeOK ==
  /\ routes \in [Scopes -> Destinations \cup {None}]
  /\ listeners \subseteq Resolvers
  /\ entries \in [Resolvers -> [Keys -> CachedRoute \cup {None}]]
  /\ generation \in [Resolvers -> Nat]
  /\ answer \in {None} \cup [tenant : Tenants, region : Regions,
                             destination : Destinations \cup {None}]

(* Whatever was set, replaced and removed at any level since, an entry     *)
(* that a resolver would still use has the destination a lookup would find *)
(* now.                                                                    *)
CacheIsCurrent ==
  \A r \in listeners, key \in Keys :
    Cached(r, key) => entries[r][key].destination = Lookup(key)

(* Every answer is the one a table without caches gives, so every completed *)
(* change is visible to the next resolve, through whichever resolver.      *)
Table == INSTANCE RouteTable
ImplementsTable == Table!Spec
=============================================================================
