------------------------- MODULE RouteService_proofs -------------------------
(***************************************************************************)
(* No resolver ever answers from a stale entry, and the routing service    *)
(* with its caches implements the plain table, for any number of tenants,  *)
(* regions, resolvers and changes.                                         *)
(***************************************************************************)
EXTENDS RouteService, TLAPS

(* No entry is ahead of its cache, and a cache that is not subscribed yet  *)
(* is empty: what was valid before a change is not valid after it.         *)
AgeInv ==
  \A r \in Resolvers, key \in Keys :
    entries[r][key] # None =>
      r \in listeners /\ entries[r][key].generation <= generation[r]

RouteInv == TypeOK /\ AgeInv /\ CacheIsCurrent
-----------------------------------------------------------------------------
LEMMA ScopesOfKeys ==
  ASSUME NEW key \in Keys
  PROVE  \A i \in 1..4 : Hierarchy(key)[i] \in Scopes
BY DEF Keys, Hierarchy, Scopes

(* A lookup finds the right destination of the table.                      *)
LEMMA LookupIsRight ==
  ASSUME NEW key \in Keys
  PROVE  Lookup(key) = Table!Right(key[1], key[2])
<1>1. key = <<key[1], key[2]>>
  BY DEF Keys
<1> DEFINE h == Hierarchy(key)
<1>2. /\ h[1] = <<key[1], key[2]>> /\ h[2] = <<key[1], None>>
      /\ h[3] = <<None, key[2]>> /\ h[4] = <<None, None>>
  BY <1>1 DEF Hierarchy
<1>3. ASSUME NEW n \in 1..4, routes[h[n]] # None,
             \A i \in 1..4 : i < n => routes[h[i]] = None
      PROVE  Lookup(key) = routes[h[n]]
  <2>1. n \in Configured(key) /\ \A j \in Configured(key) : n <= j
    BY <1>3 DEF Configured
  <2>2. \A i \in Configured(key) : (\A j \in Configured(key) : i <= j) => i = n
    BY <2>1 DEF Configured
  <2> QED
    BY <2>1, <2>2 DEF Lookup
<1>4. CASE \A i \in 1..4 : routes[h[i]] = None
  <2>1. Configured(key) = {} /\ Lookup(key) = None
    BY <1>4 DEF Configured, Lookup
  <2> QED
    BY <1>2, <1>4, <2>1 DEF Table!Right
<1>5. CASE routes[h[1]] # None
  <2>1. Lookup(key) = routes[h[1]]
    BY <1>3, <1>5
  <2> QED
    BY <1>2, <1>5, <2>1 DEF Table!Right
<1>6. CASE routes[h[1]] = None /\ routes[h[2]] # None
  <2>1. Lookup(key) = routes[h[2]]
    BY <1>3, <1>6
  <2> QED
    BY <1>2, <1>6, <2>1 DEF Table!Right
<1>7. CASE routes[h[1]] = None /\ routes[h[2]] = None /\ routes[h[3]] # None
  <2>1. Lookup(key) = routes[h[3]]
    BY <1>3, <1>7
  <2> QED
    BY <1>2, <1>7, <2>1 DEF Table!Right
<1>8. CASE /\ routes[h[1]] = None /\ routes[h[2]] = None /\ routes[h[3]] = None
           /\ routes[h[4]] # None
  <2>1. Lookup(key) = routes[h[4]]
    BY <1>3, <1>8
  <2> QED
    BY <1>2, <1>8, <2>1 DEF Table!Right
<1> QED
  BY <1>4, <1>5, <1>6, <1>7, <1>8

LEMMA LookupType ==
  ASSUME TypeOK, NEW key \in Keys
  PROVE  Lookup(key) \in Destinations \cup {None}
<1>1. CASE Configured(key) = {}
  BY <1>1 DEF Lookup
<1>2. CASE Configured(key) # {}
  <2>1. PICK n \in Configured(key) : \A j \in Configured(key) : n <= j
    <3>1. Configured(key) \subseteq 1..4
      BY DEF Configured
    <3>2. \/ 1 \in Configured(key)
          \/ 1 \notin Configured(key) /\ 2 \in Configured(key)
          \/ 1 \notin Configured(key) /\ 2 \notin Configured(key) /\ 3 \in Configured(key)
          \/ Configured(key) = {4}
      BY <1>2, <3>1
    <3> QED
      BY <3>1, <3>2
  <2>2. \A i \in Configured(key) : (\A j \in Configured(key) : i <= j) => i = n
    BY <2>1 DEF Configured
  <2>3. Lookup(key) = routes[Hierarchy(key)[n]]
    BY <1>2, <2>1, <2>2 DEF Lookup
  <2> QED
    BY <2>1, <2>3, ScopesOfKeys DEF Configured, TypeOK
<1> QED
  BY <1>1, <1>2
-----------------------------------------------------------------------------
LEMMA InitInv == Init => RouteInv
BY RouteAssumption DEF Init, RouteInv, TypeOK, AgeInv, CacheIsCurrent, Scopes, Keys

(* A change outdates every entry.                                          *)
LEMMA PublishStep ==
  ASSUME RouteInv, NEW scope \in Scopes, Publish(scope), UNCHANGED listeners
  PROVE  /\ generation' \in [Resolvers -> Nat]
         /\ AgeInv' /\ CacheIsCurrent'
<1> USE DEF RouteInv, TypeOK, Publish, Invalidated
<1>1. /\ generation' \in [Resolvers -> Nat] /\ entries' = entries
      /\ \A r \in listeners : generation'[r] = generation[r] + 1
  OBVIOUS
<1>2. ASSUME NEW r \in Resolvers, NEW key \in Keys, entries[r][key] # None
      PROVE  r \in listeners /\ entries[r][key].generation < generation'[r]
  <2>1. r \in listeners /\ entries[r][key].generation <= generation[r]
    BY <1>2 DEF AgeInv
  <2>2. entries[r][key].generation \in Nat /\ generation[r] \in Nat
    BY <1>2 DEF CachedRoute
  <2> QED
    BY <1>1, <2>1, <2>2
<1>3. AgeInv'
  <2> SUFFICES ASSUME NEW r \in Resolvers, NEW key \in Keys, entries[r][key] # None
               PROVE  r \in listeners /\ entries[r][key].generation <= generation'[r]
    BY <1>1 DEF AgeInv
  <2>1. entries[r][key].generation \in Nat /\ generation'[r] \in Nat
    BY <1>1 DEF CachedRoute
  <2> QED
    BY <1>2, <2>1
<1>4. CacheIsCurrent'
  <2> SUFFICES ASSUME NEW r \in listeners, NEW key \in Keys, entries[r][key] # None
               PROVE  entries[r][key].generation # generation'[r]
    BY <1>1 DEF CacheIsCurrent, Cached
  <2>1. entries[r][key].generation \in Nat /\ generation'[r] \in Nat
    BY <1>1 DEF CachedRoute
  <2> QED
    BY <1>2, <2>1
<1> QED
  BY <1>1, <1>3, <1>4

(* A new entry, none, or an empty cache: the other entries stay.           *)
LEMMA EntryStep ==
  ASSUME RouteInv, NEW r \in listeners, NEW key \in Keys, NEW entry,
         \/ entry = None
         \/ /\ Lookup(key) # None
            /\ entry = [generation |-> generation[r], destination |-> Lookup(key)],
         entries' = [entries EXCEPT ![r][key] = entry],
         UNCHANGED <<routes, listeners, generation>>
  PROVE  /\ entries' \in [Resolvers -> [Keys -> CachedRoute \cup {None}]]
         /\ AgeInv' /\ CacheIsCurrent'
<1>1. entry \in CachedRoute \cup {None}
  BY LookupType DEF RouteInv, TypeOK, CachedRoute
<1>2. entries' \in [Resolvers -> [Keys -> CachedRoute \cup {None}]]
  BY <1>1 DEF RouteInv, TypeOK
<1>3. /\ entries'[r][key] = entry
      /\ \A q \in Resolvers, k \in Keys :
           q # r \/ k # key => entries'[q][k] = entries[q][k]
  BY DEF RouteInv, TypeOK
<1>4. entry # None => /\ entry.generation = generation[r] /\ generation[r] \in Nat
                      /\ entry.destination = Lookup(key)
  BY DEF RouteInv, TypeOK
<1>5. AgeInv'
  BY <1>3, <1>4 DEF AgeInv, RouteInv
<1>6. \A k \in Keys : Lookup(k)' = Lookup(k)
  BY DEF Lookup, Configured
<1>7. CacheIsCurrent'
  BY <1>3, <1>4, <1>6 DEF CacheIsCurrent, Cached, RouteInv, TypeOK
<1> QED
  BY <1>2, <1>5, <1>7

LEMMA InvStep == RouteInv /\ [Next]_vars => RouteInv'
<1> SUFFICES ASSUME RouteInv, [Next]_vars PROVE RouteInv'
  OBVIOUS
<1> USE DEF caches
<1>1. ASSUME NEW scope \in Scopes, Remove(scope) PROVE RouteInv'
  BY <1>1, PublishStep DEF Remove, Publish, Invalidated, RouteInv, TypeOK
<1>2. ASSUME NEW scope \in Scopes, NEW d \in Destinations, Set(scope, d) PROVE RouteInv'
  BY <1>2, PublishStep DEF Set, Publish, Invalidated, RouteInv, TypeOK
<1>3. ASSUME NEW r \in Resolvers, Construct(r) PROVE RouteInv'
  <2>1. \A k \in Keys : Lookup(k)' = Lookup(k)
    BY <1>3 DEF Construct, Lookup, Configured
  <2>2. \A k \in Keys : entries[r][k] = None
    BY <1>3 DEF Construct, RouteInv, AgeInv
  <2>3. TypeOK' /\ AgeInv'
    BY <1>3 DEF Construct, RouteInv, TypeOK, AgeInv
  <2>4. CacheIsCurrent'
    BY <1>3, <2>1, <2>2 DEF Construct, RouteInv, CacheIsCurrent, Cached
  <2> QED
    BY <2>3, <2>4 DEF RouteInv
<1>4. ASSUME NEW r \in Resolvers, Clear(r) PROVE RouteInv'
  <2>1. \A k \in Keys : Lookup(k)' = Lookup(k)
    BY <1>4 DEF Clear, Lookup, Configured
  <2>2. TypeOK'
    BY <1>4 DEF Clear, RouteInv, TypeOK
  <2>3. \A q \in Resolvers, k \in Keys : entries'[q][k] \in {entries[q][k], None}
    BY <1>4 DEF Clear, RouteInv, TypeOK
  <2>4. AgeInv'
    BY <1>4, <2>3 DEF Clear, RouteInv, AgeInv
  <2>5. CacheIsCurrent'
    BY <1>4, <2>1, <2>3 DEF Clear, RouteInv, TypeOK, CacheIsCurrent, Cached
  <2> QED
    BY <2>2, <2>4, <2>5 DEF RouteInv
<1>5. ASSUME NEW r \in Resolvers, NEW key \in Keys, ResolveCached(r, key) PROVE RouteInv'
  <2>1. \A k \in Keys : Lookup(k)' = Lookup(k)
    BY <1>5 DEF ResolveCached, Lookup, Configured
  <2>2. entries[r][key].destination \in Destinations
    BY <1>5 DEF ResolveCached, Cached, RouteInv, TypeOK, CachedRoute
  <2>3. TypeOK'
    BY <1>5, <2>2 DEF ResolveCached, Answer, RouteInv, TypeOK, Keys
  <2>4. AgeInv' /\ CacheIsCurrent'
    BY <1>5, <2>1 DEF ResolveCached, RouteInv, AgeInv, CacheIsCurrent, Cached
  <2> QED
    BY <2>3, <2>4 DEF RouteInv
<1>6. ASSUME NEW r \in Resolvers, NEW key \in Keys, ResolveFresh(r, key) PROVE RouteInv'
  <2>1. /\ entries' \in [Resolvers -> [Keys -> CachedRoute \cup {None}]]
        /\ AgeInv' /\ CacheIsCurrent'
    BY <1>6, EntryStep DEF ResolveFresh
  <2>2. answer' \in [tenant : Tenants, region : Regions, destination : Destinations \cup {None}]
    BY <1>6, LookupType DEF ResolveFresh, Answer, RouteInv, Keys
  <2> QED
    BY <1>6, <2>1, <2>2 DEF ResolveFresh, RouteInv, TypeOK
<1>7. ASSUME NEW r \in Resolvers, NEW key \in Keys, ResolveNotFound(r, key) PROVE RouteInv'
  <2>1. /\ entries' \in [Resolvers -> [Keys -> CachedRoute \cup {None}]]
        /\ AgeInv' /\ CacheIsCurrent'
    BY <1>7, EntryStep DEF ResolveNotFound
  <2>2. answer' \in [tenant : Tenants, region : Regions, destination : Destinations \cup {None}]
    BY <1>7 DEF ResolveNotFound, Answer, Keys
  <2> QED
    BY <1>7, <2>1, <2>2 DEF ResolveNotFound, RouteInv, TypeOK
<1>8. CASE UNCHANGED vars
  <2>1. \A k \in Keys : Lookup(k)' = Lookup(k)
    BY <1>8 DEF vars, Lookup, Configured
  <2> QED
    BY <1>8, <2>1 DEF vars, RouteInv, TypeOK, AgeInv, CacheIsCurrent, Cached
<1> QED
  BY <1>1, <1>2, <1>3, <1>4, <1>5, <1>6, <1>7, <1>8 DEF Next

LEMMA RouteInvAlways == Spec => []RouteInv
BY InitInv, InvStep, PTL DEF Spec
-----------------------------------------------------------------------------
(* Every variable of the service keeps its type.                           *)
THEOREM TypeCorrect == Spec => []TypeOK
BY RouteInvAlways, PTL DEF RouteInv

(* An entry a resolver would use is what a lookup would find now.          *)
THEOREM NoEntryIsStale == Spec => []CacheIsCurrent
BY RouteInvAlways, PTL DEF RouteInv

(* A step of the service is a step of the table, or none.                  *)
LEMMA TableStep == RouteInv /\ [Next]_vars => [Table!Next]_Table!tableVars
<1> SUFFICES ASSUME RouteInv, [Next]_vars PROVE [Table!Next]_Table!tableVars
  OBVIOUS
<1> USE DEF caches, Table!Next, Table!tableVars
<1>1. ASSUME NEW scope \in Scopes, Remove(scope) PROVE Table!Next
  BY <1>1 DEF Remove, Table!Remove, Scopes, Table!AllScopes
<1>2. ASSUME NEW scope \in Scopes, NEW d \in Destinations, Set(scope, d) PROVE Table!Next
  BY <1>2 DEF Set, Table!Set, Scopes, Table!AllScopes
<1>3. ASSUME NEW r \in Resolvers, Construct(r) \/ Clear(r) PROVE Table!Next
  BY <1>3 DEF Construct, Clear, Table!Other
<1>4. ASSUME NEW key \in Keys, answer' = Answer(key, Lookup(key)), UNCHANGED routes
      PROVE  Table!Next
  <2>1. Table!Resolve(key[1], key[2])
    BY <1>4, LookupIsRight DEF Answer, Table!Resolve
  <2> QED
    BY <2>1 DEF Keys
<1>5. ASSUME NEW r \in Resolvers, NEW key \in Keys,
             ResolveCached(r, key) \/ ResolveFresh(r, key) \/ ResolveNotFound(r, key)
      PROVE  Table!Next
  <2>1. CASE ResolveCached(r, key)
    BY <1>4, <2>1 DEF ResolveCached, RouteInv, CacheIsCurrent
  <2>2. CASE ResolveFresh(r, key) \/ ResolveNotFound(r, key)
    BY <1>4, <2>2 DEF ResolveFresh, ResolveNotFound
  <2> QED
    BY <1>5, <2>1, <2>2
<1>6. CASE UNCHANGED vars
  BY <1>6 DEF vars
<1> QED
  BY <1>1, <1>2, <1>3, <1>5, <1>6 DEF Next

(* The service with its caches implements the table without: every change  *)
(* is visible to the next resolve.                                         *)
THEOREM ServiceImplementsTable == Spec => ImplementsTable
<1>1. Init => Table!Init
  BY DEF Init, Table!Init, Scopes, Table!AllScopes
<1> QED
  BY <1>1, TableStep, RouteInvAlways, PTL DEF Spec, ImplementsTable, Table!Spec
=============================================================================
