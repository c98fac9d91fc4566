------------------------ MODULE WorkspaceCopy_proofs ------------------------
(***************************************************************************)
(* What the copy guarantees for every source tree, all limits and any      *)
(* order of the listings: it stays within the limits and inside what is    *)
(* to be copied, and its outcome is one that the tree explains.            *)
(***************************************************************************)
EXTENDS WorkspaceCopy, FiniteSetTheorems, SequenceTheorems, TLAPS

USE CopyAssumption

-----------------------------------------------------------------------------
(* Induction, with sets in the place of predicates: the minimum that every *)
(* nonempty set of finite sets has under inclusion (FiniteSetTheorems).    *)
LEMMA FiniteInduction ==
  ASSUME NEW S, IsFiniteSet(S), NEW F,
         \A T \in SUBSET S : (\A U \in SUBSET T : U # T => U \in F) => T \in F
  PROVE  S \in F
<1> DEFINE B == (SUBSET S) \ F
           R == StrictSubsetOrdering(S)
<1> SUFFICES ASSUME S \notin F PROVE FALSE
  OBVIOUS
<1>1. FiniteSubsetsOf(S) = SUBSET S
  BY FS_FiniteSubsetsOfFinite
<1>2. IsWellFoundedOn(R, FiniteSubsetsOf(S))
  BY FS_StrictSubsetOrderingWellFounded
<1>3. B \subseteq FiniteSubsetsOf(S) /\ B # {}
  BY <1>1
<1>4. PICK T \in B : \A U \in B : ~ (<<U, T>> \in R)
  <2> HIDE DEF B, R
  <2> QED
    BY <1>2, <1>3, WFMin
<1>5. ASSUME NEW U \in SUBSET T, U # T, U \notin F PROVE FALSE
  BY <1>4, <1>5 DEF StrictSubsetOrdering
<1> QED
  BY <1>4, <1>5

LEMMA NodesAreFinite == IsFiniteSet(Nodes) /\ \A N \in SUBSET Nodes : IsFiniteSet(N)
<1>1. IsFiniteSet(Nodes)
  BY FS_Interval DEF Nodes
<1> QED
  BY <1>1, FS_Subset

LEMMA FirstNode ==
  ASSUME NEW N \in SUBSET Nodes, N # {}
  PROVE  \E n \in N : \A m \in N : n <= m
<1> DEFINE F == {T \in SUBSET N : T # {} => \E n \in T : \A m \in T : n <= m}
<1>1. ASSUME NEW T \in SUBSET N, \A U \in SUBSET T : U # T => U \in F
      PROVE  T \in F
  <2> SUFFICES ASSUME T # {} PROVE \E n \in T : \A m \in T : n <= m
    OBVIOUS
  <2>1. PICK x \in T : TRUE
    OBVIOUS
  <2>2. CASE T \ {x} = {}
    BY <2>2 DEF Nodes
  <2>3. CASE T \ {x} # {}
    <3>1. PICK n \in T \ {x} : \A m \in T \ {x} : n <= m
      BY <1>1, <2>1, <2>3
    <3>2. \A m \in T : m \in Nat
      BY DEF Nodes
    <3>3. CASE n <= x
      BY <3>1, <3>3
    <3>4. CASE ~(n <= x)
      <4>1. \A m \in T : x <= m
        BY <2>1, <3>1, <3>2, <3>4
      <4> QED
        BY <2>1, <4>1
    <3> QED
      BY <3>3, <3>4
  <2> QED
    BY <2>2, <2>3
<1>2. IsFiniteSet(N)
  BY NodesAreFinite
<1> HIDE DEF F
<1>3. N \in F
  BY <1>1, <1>2, FiniteInduction
<1> QED
  BY <1>3 DEF F

-----------------------------------------------------------------------------
(* Sums.  SumFunctionOnSet takes the elements in an order that nobody      *)
(* knows; it does not matter.                                              *)
Any(s) == CHOOSE x \in s : TRUE

Sums(it, f, S) ==
  it = [s \in SUBSET S |-> IF s = {} THEN 0 ELSE f[Any(s)] + it[s \ {Any(s)}]]

LEMMA SumIsChosen ==
  ASSUME NEW f, NEW S
  PROVE  SumFunctionOnSet(f, S) = (CHOOSE it : Sums(it, f, S))[S]
  BY Zenon DEF SumFunctionOnSet, FoldFunctionOnSet, MapThenFoldSet, Sums, Any

LEMMA AnyIn == \A s : s # {} => Any(s) \in s
  BY DEF Any

(* What is summed up depends on nothing but the values summed up.          *)
LEMMA SumsAgree ==
  ASSUME NEW i, NEW f, NEW S, Sums(i, f, S),
         NEW j, NEW g, NEW T, Sums(j, g, T),
         NEW R, IsFiniteSet(R), R \subseteq S, R \subseteq T, \A x \in R : f[x] = g[x]
  PROVE  i[R] = j[R]
<1> DEFINE F == {U \in SUBSET R : i[U] = j[U]}
<1>1. ASSUME NEW U \in SUBSET R, \A V \in SUBSET U : V # U => V \in F
      PROVE  U \in F
  <2>1. /\ i[U] = IF U = {} THEN 0 ELSE f[Any(U)] + i[U \ {Any(U)}]
        /\ j[U] = IF U = {} THEN 0 ELSE g[Any(U)] + j[U \ {Any(U)}]
    <3>1. U \in SUBSET S /\ U \in SUBSET T
      OBVIOUS
    <3> QED
      BY <3>1, Zenon DEF Sums
  <2>2. CASE U = {}
    BY <2>1, <2>2
  <2>3. CASE U # {}
    <3>1. Any(U) \in U
      BY <2>3, AnyIn
    <3>2. i[U \ {Any(U)}] = j[U \ {Any(U)}]
      BY <1>1, <3>1
    <3> QED
      BY <2>1, <2>3, <3>1, <3>2
  <2> QED
    BY <2>2, <2>3
<1> HIDE DEF F
<1>2. R \in F
  BY <1>1, FiniteInduction
<1> QED
  BY <1>2 DEF F

LEMMA SumIsAny ==
  ASSUME NEW S, IsFiniteSet(S), NEW f, NEW it, Sums(it, f, S), NEW T \in SUBSET S
  PROVE  SumFunctionOnSet(f, T) = it[T]
<1> DEFINE j == [s \in SUBSET T |-> it[s]]
           k == CHOOSE i : Sums(i, f, T)
<1>1. Sums(j, f, T)
  <2>1. ASSUME NEW s \in SUBSET T
        PROVE  it[s] = IF s = {} THEN 0 ELSE f[Any(s)] + it[s \ {Any(s)}]
    <3>1. s \in SUBSET S
      OBVIOUS
    <3> QED
      BY <3>1, Zenon DEF Sums
  <2>2. \A s \in SUBSET T : s \ {Any(s)} \in SUBSET T
    OBVIOUS
  <2>3. j = [s \in SUBSET T |-> IF s = {} THEN 0 ELSE f[Any(s)] + j[s \ {Any(s)}]]
    BY <2>1, <2>2
  <2> QED
    BY <2>3 DEF Sums
<1>2. Sums(k, f, T)
  <2> HIDE DEF j
  <2> QED
    BY <1>1, Zenon
<1>3. IsFiniteSet(T)
  BY FS_Subset
<1>4. k[T] = it[T]
  <2> HIDE DEF k
  <2> QED
    BY <1>2, <1>3, SumsAgree
<1> QED
  BY <1>4, SumIsChosen

LEMMA SumExists ==
  ASSUME NEW S, IsFiniteSet(S), NEW f
  PROVE  \E it : Sums(it, f, S)
<1> DEFINE F == {T \in SUBSET S : \E it : Sums(it, f, T)}
<1>1. ASSUME NEW T \in SUBSET S, \A U \in SUBSET T : U # T => U \in F
      PROVE  T \in F
  <2> DEFINE it == [s \in SUBSET T |->
                      IF s = {} THEN 0
                      ELSE f[Any(s)] + SumFunctionOnSet(f, s \ {Any(s)})]
  <2>1. ASSUME NEW U \in SUBSET T, U # T PROVE it[U] = SumFunctionOnSet(f, U)
    <3>1. PICK j : Sums(j, f, U)
      BY <1>1, <2>1
    <3>2. j[U] = IF U = {} THEN 0 ELSE f[Any(U)] + j[U \ {Any(U)}]
      BY <3>1, Zenon DEF Sums
    <3>3. IsFiniteSet(U)
      BY FS_Subset
    <3>4. U \in SUBSET U /\ U \ {Any(U)} \in SUBSET U
      OBVIOUS
    <3>5. SumFunctionOnSet(f, U) = j[U]
      BY <3>1, <3>3, <3>4, SumIsAny
    <3>6. SumFunctionOnSet(f, U \ {Any(U)}) = j[U \ {Any(U)}]
      BY <3>1, <3>3, <3>4, SumIsAny
    <3> QED
      BY <3>2, <3>5, <3>6
  <2>2. ASSUME NEW s \in SUBSET T, s # {}
        PROVE  it[s] = f[Any(s)] + it[s \ {Any(s)}]
    <3>1. s \ {Any(s)} \in SUBSET T /\ s \ {Any(s)} # T
      BY <2>2, AnyIn
    <3>2. it[s \ {Any(s)}] = SumFunctionOnSet(f, s \ {Any(s)})
      BY <2>1, <3>1
    <3> QED
      BY <2>2, <3>2
  <2>3. it[{}] = 0
    OBVIOUS
  <2>4. it = [s \in SUBSET T |-> it[s]]
    OBVIOUS
  <2> HIDE DEF it
  <2>5. \A s \in SUBSET T : it[s] = IF s = {} THEN 0 ELSE f[Any(s)] + it[s \ {Any(s)}]
    BY <2>2, <2>3
  <2>6. Sums(it, f, T)
    BY <2>4, <2>5 DEF Sums
  <2> QED
    BY <2>6, Zenon
<1> HIDE DEF F
<1>2. S \in F
  BY <1>1, FiniteInduction
<1> QED
  BY <1>2 DEF F

LEMMA SumUnfold ==
  ASSUME NEW S, IsFiniteSet(S), NEW f
  PROVE  SumFunctionOnSet(f, S) =
           IF S = {} THEN 0 ELSE f[Any(S)] + SumFunctionOnSet(f, S \ {Any(S)})
<1>1. PICK it : Sums(it, f, S)
  BY SumExists
<1>2. it[S] = IF S = {} THEN 0 ELSE f[Any(S)] + it[S \ {Any(S)}]
  BY <1>1, Zenon DEF Sums
<1>3. S \in SUBSET S /\ S \ {Any(S)} \in SUBSET S
  OBVIOUS
<1>4. SumFunctionOnSet(f, S) = it[S]
  BY <1>1, <1>3, SumIsAny
<1>5. SumFunctionOnSet(f, S \ {Any(S)}) = it[S \ {Any(S)}]
  BY <1>1, <1>3, SumIsAny
<1> QED
  BY <1>2, <1>4, <1>5

LEMMA SumType ==
  ASSUME NEW S, IsFiniteSet(S), NEW f, \A x \in S : f[x] \in Nat
  PROVE  SumFunctionOnSet(f, S) \in Nat
<1> DEFINE F == {T \in SUBSET S : SumFunctionOnSet(f, T) \in Nat}
<1>1. ASSUME NEW T \in SUBSET S, \A U \in SUBSET T : U # T => U \in F
      PROVE  T \in F
  <2>1. IsFiniteSet(T)
    BY FS_Subset
  <2>2. T # {} => Any(T) \in T
    BY AnyIn
  <2>3. T # {} => SumFunctionOnSet(f, T \ {Any(T)}) \in Nat
    BY <1>1, <2>2
  <2>4. T # {} => f[Any(T)] \in Nat
    BY <2>2
  <2> QED
    BY <2>1, <2>3, <2>4, SumUnfold
<1> HIDE DEF F
<1>2. S \in F
  BY <1>1, FiniteInduction
<1> QED
  BY <1>2 DEF F

(* Any element may be taken first.                                         *)
LEMMA SumTakeOut ==
  ASSUME NEW S, IsFiniteSet(S), NEW f, \A x \in S : f[x] \in Nat, NEW e \in S
  PROVE  SumFunctionOnSet(f, S) = f[e] + SumFunctionOnSet(f, S \ {e})
<1> DEFINE Sum(T) == SumFunctionOnSet(f, T)
           F == {T \in SUBSET S : \A x \in T : Sum(T) = f[x] + Sum(T \ {x})}
<1>1. ASSUME NEW T \in SUBSET S, \A U \in SUBSET T : U # T => U \in F
      PROVE  T \in F
  <2> SUFFICES ASSUME NEW x \in T PROVE Sum(T) = f[x] + Sum(T \ {x})
    OBVIOUS
  <2> DEFINE a == Any(T)
  <2>1. IsFiniteSet(T) /\ IsFiniteSet(T \ {x})
    BY FS_Subset
  <2>2. a \in T
    BY AnyIn
  <2>3. Sum(T) = f[a] + Sum(T \ {a})
    BY <2>1, SumUnfold
  <2>4. CASE x = a
    BY <2>3, <2>4
  <2>5. CASE x # a
    <3>1. /\ T \ {a} \in SUBSET T /\ T \ {a} # T /\ x \in T \ {a}
          /\ T \ {x} \in SUBSET T /\ T \ {x} # T /\ a \in T \ {x}
          /\ (T \ {a}) \ {x} = (T \ {x}) \ {a}
      BY <2>2, <2>5
    <3>2. Sum(T \ {a}) = f[x] + Sum((T \ {a}) \ {x})
      <4>1. T \ {a} \in F
        BY <1>1, <3>1
      <4> QED
        BY <3>1, <4>1
    <3>3. Sum(T \ {x}) = f[a] + Sum((T \ {x}) \ {a})
      <4>1. T \ {x} \in F
        BY <1>1, <3>1
      <4> QED
        BY <3>1, <4>1
    <3>4. Sum((T \ {x}) \ {a}) \in Nat
      <4>1. IsFiniteSet((T \ {x}) \ {a})
        BY FS_Subset
      <4> QED
        BY <4>1, SumType
    <3>5. f[a] \in Nat /\ f[x] \in Nat
      BY <2>2
    <3> HIDE DEF Sum, a
    <3> QED
      BY <2>3, <3>1, <3>2, <3>3, <3>4, <3>5
  <2> QED
    BY <2>4, <2>5
<1> HIDE DEF F
<1>2. S \in F
  BY <1>1, FiniteInduction
<1> QED
  BY <1>2 DEF F

LEMMA SumsEqual ==
  ASSUME NEW S, IsFiniteSet(S), NEW f, NEW g, \A x \in S : f[x] = g[x]
  PROVE  SumFunctionOnSet(f, S) = SumFunctionOnSet(g, S)
<1>1. PICK i : Sums(i, f, S)
  BY SumExists
<1>2. PICK j : Sums(j, g, S)
  BY SumExists
<1>3. i[S] = j[S]
  BY <1>1, <1>2, SumsAgree
<1>4. S \in SUBSET S
  OBVIOUS
<1>5. SumFunctionOnSet(f, S) = i[S]
  BY <1>1, <1>4, SumIsAny
<1>6. SumFunctionOnSet(g, S) = j[S]
  BY <1>2, <1>4, SumIsAny
<1> QED
  BY <1>3, <1>5, <1>6

(* Part of the elements, each with less, have a smaller sum.               *)
LEMMA SumLess ==
  ASSUME NEW T, IsFiniteSet(T), NEW S \in SUBSET T, NEW f, NEW g,
         \A x \in S : f[x] \in Nat /\ f[x] <= g[x], \A x \in T : g[x] \in Nat
  PROVE  SumFunctionOnSet(f, S) <= SumFunctionOnSet(g, T)
<1> DEFINE F == {U \in SUBSET T : SumFunctionOnSet(f, U \cap S) <= SumFunctionOnSet(g, U)}
<1>1. ASSUME NEW U \in SUBSET T, \A V \in SUBSET U : V # U => V \in F
      PROVE  U \in F
  <2> DEFINE a == Any(U)
  <2>1. IsFiniteSet(U) /\ IsFiniteSet(U \cap S)
    BY FS_Subset
  <2>2. CASE U = {}
    <3>1. U \cap S = {}
      BY <2>2
    <3>2. SumFunctionOnSet(f, U \cap S) = 0 /\ SumFunctionOnSet(g, U) = 0
      BY <2>1, <2>2, <3>1, SumUnfold
    <3> QED
      BY <3>2
  <2>3. CASE U # {}
    <3>1. a \in U
      BY <2>3, AnyIn
    <3>2. U \ {a} \in F
      BY <1>1, <3>1
    <3>3. SumFunctionOnSet(g, U) = g[a] + SumFunctionOnSet(g, U \ {a})
      BY <2>1, <3>1, SumTakeOut
    <3>4. SumFunctionOnSet(f, (U \ {a}) \cap S) <= SumFunctionOnSet(g, U \ {a})
      BY <3>2
    <3>5. /\ IsFiniteSet(U \ {a}) /\ IsFiniteSet((U \ {a}) \cap S)
      BY FS_Subset, <2>1
    <3>6. SumFunctionOnSet(f, (U \ {a}) \cap S) \in Nat /\ SumFunctionOnSet(g, U \ {a}) \in Nat
      BY <3>5, SumType
    <3>7. CASE a \in S
      <4>1. (U \cap S) \ {a} = (U \ {a}) \cap S
        OBVIOUS
      <4>2. SumFunctionOnSet(f, U \cap S) = f[a] + SumFunctionOnSet(f, (U \cap S) \ {a})
        BY <2>1, <3>1, <3>7, SumTakeOut
      <4>3. f[a] \in Nat /\ g[a] \in Nat /\ f[a] <= g[a]
        BY <3>1, <3>7
      <4> HIDE DEF a
      <4> QED
        BY <3>3, <3>4, <3>6, <4>1, <4>2, <4>3
    <3>8. CASE a \notin S
      <4>1. U \cap S = (U \ {a}) \cap S
        BY <3>8
      <4>2. g[a] \in Nat
        BY <3>1
      <4>3. SumFunctionOnSet(f, U \cap S) = SumFunctionOnSet(f, (U \ {a}) \cap S)
        BY <4>1, Zenon
      <4>4. SumFunctionOnSet(f, U \cap S) <= SumFunctionOnSet(g, U)
        <5> HIDE DEF a, F
        <5> QED
          BY <3>3, <3>4, <3>6, <4>2, <4>3
      <4> QED
        BY <4>4
    <3> QED
      BY <3>7, <3>8
  <2> QED
    BY <2>2, <2>3
<1> HIDE DEF F
<1>2. T \in F
  BY <1>1, FiniteInduction
<1>3. T \cap S = S
  OBVIOUS
<1> QED
  BY <1>2, <1>3 DEF F

-----------------------------------------------------------------------------
(* The inductive invariant.  Waiting: the directories still to be listed.  *)
Waiting == Range(pending)
Going == outcome \in {"copying", "copied"}

(* What Init chooses and no step changes.                                  *)
TreeInv ==
  /\ \A n \in Nodes : parent[n] < n
  /\ \A n \in Nodes : parent[n] # 0 => kind[parent[n]] = "directory"

(* Everything in hand is to be copied, and its directory has been made.    *)
PlacedInv ==
  /\ made \cup Waiting \subseteq {0} \cup IncludedOf("directory")
  /\ DOMAIN written \subseteq IncludedOf("file")
  /\ \A n \in unseen : parent[n] \in made
  /\ \A n \in made \cup Waiting \cup DOMAIN written : n # 0 => parent[n] \in made

(* No entry is in hand twice, or comes back.                               *)
OnceInv ==
  /\ \A i, j \in DOMAIN pending : pending[i] = pending[j] => i = j
  /\ \A n \in Waiting : n \notin made
  /\ \A n \in unseen : n \notin made /\ n \notin Waiting /\ n \notin DOMAIN written

(* No entry of a directory that has been made is lost.                     *)
CompleteInv ==
  Going => /\ 0 \in made \cup Waiting
           /\ \A n \in Nodes : parent[n] \in made /\ ~hidden[n] =>
                n \in unseen \cup Waiting \cup made \cup DOMAIN written

(* The counters say what the copy holds; only the open file is incomplete. *)
CountInv ==
  /\ Cardinality(DOMAIN written) <= max_files
  /\ SumFunction(written) <= max_copy_bytes
  /\ outcome # "too many files" => files = Cardinality(DOMAIN written)
  /\ outcome # "too many bytes" => copied = SumFunction(written)
  /\ file # None => file \in DOMAIN written
  /\ outcome = "copied" => file = None
  /\ \A n \in DOMAIN written : written[n] <= size[n] /\ (n # file => written[n] = size[n])
  /\ written = [n \in DOMAIN written |-> written[n]]

CopyInv ==
  /\ TypeOK /\ TreeInv /\ PlacedInv /\ OnceInv /\ CompleteInv /\ CountInv
  /\ OutcomeIsOfTheTree

-----------------------------------------------------------------------------
(* The tree.  Below(in, m): in says of every entry up to m whether it is   *)
(* to be copied.                                                           *)
Below(in, m) ==
  in = [n \in 0..m |-> n = 0 \/ (~hidden[n] /\ in[parent[n]])]

LEMMA TreeTypes ==
  ASSUME TypeOK
  PROVE  \A n \in Nodes : /\ n \in Nat \ {0} /\ n <= MaxNodes
                          /\ parent[n] \in 0..MaxNodes /\ size[n] \in Nat
                          /\ kind[n] \in Kinds /\ hidden[n] \in BOOLEAN
<1>1. /\ parent \in [Nodes -> 0..MaxNodes] /\ size \in [Nodes -> Sizes \cup {0}]
      /\ kind \in [Nodes -> Kinds] /\ hidden \in [Nodes -> BOOLEAN]
  BY DEF TypeOK
<1>2. \A n \in Nodes : n \in Nat \ {0} /\ n <= MaxNodes
  BY DEF Nodes
<1>3. Sizes \cup {0} \subseteq Nat
  OBVIOUS
<1> QED
  BY <1>1, <1>2, <1>3

LEMMA BelowExists ==
  ASSUME TypeOK, TreeInv, NEW m \in 0..MaxNodes
  PROVE  \E in : Below(in, m)
<1>1. \E in : Below(in, 0)
  <2> DEFINE in == [n \in 0..0 |-> TRUE]
  <2>1. \A n \in 0..0 : TRUE = (n = 0 \/ (~hidden[n] /\ in[parent[n]]))
    <3>1. \A n \in 0..0 : n = 0
      OBVIOUS
    <3> QED
      BY <3>1, Zenon
  <2>2. in = [n \in 0..0 |-> n = 0 \/ (~hidden[n] /\ in[parent[n]])]
    BY <2>1, Zenon
  <2> QED
    BY <2>2, Zenon DEF Below
<1> DEFINE Bad == {k \in Nodes : ~ \E in : Below(in, k)}
<1>2. ASSUME Bad # {} PROVE FALSE
  <2>1. PICK k \in Bad : \A j \in Bad : k <= j
    BY <1>2, FirstNode
  <2>2. k \in Nodes /\ k \in Nat \ {0} /\ k - 1 \in 0..MaxNodes
    BY <2>1 DEF Nodes
  <2>3. \E in : Below(in, k - 1)
    <3>1. CASE k - 1 = 0
      BY <1>1, <3>1
    <3>2. CASE k - 1 # 0
      <4>1. k - 1 \in Nodes /\ ~(k <= k - 1)
        BY <2>2, <3>2 DEF Nodes
      <4>2. k - 1 \notin Bad
        BY <2>1, <4>1
      <4> QED
        BY <4>1, <4>2
    <3> QED
      BY <3>1, <3>2
  <2>4. PICK in : Below(in, k - 1)
    BY <2>3
  <2> DEFINE out == [n \in 0..k |-> n = 0 \/ (~hidden[n] /\ in[parent[n]])]
  <2>5. \A n \in 0..k : n # 0 => parent[n] \in 0..(k - 1)
    <3>1. \A n \in Nodes : parent[n] \in 0..MaxNodes /\ parent[n] < n
      BY TreeTypes DEF TreeInv
    <3> QED
      BY <2>2, <3>1 DEF Nodes
  <2>6. \A n \in 0..(k - 1) : n \in 0..k /\ in[n] = (n = 0 \/ (~hidden[n] /\ in[parent[n]]))
    BY <2>2, <2>4 DEF Below
  <2>7. \A n \in 0..(k - 1) : out[n] = in[n]
    BY <2>6
  <2>8. \A n \in 0..k : (n = 0 \/ (~hidden[n] /\ in[parent[n]]))
                         = (n = 0 \/ (~hidden[n] /\ out[parent[n]]))
    BY <2>5, <2>7
  <2>9. out = [n \in 0..k |-> n = 0 \/ (~hidden[n] /\ out[parent[n]])]
    BY <2>8, Zenon
  <2> HIDE DEF out
  <2>10. Below(out, k)
    BY <2>9 DEF Below
  <2> QED
    BY <2>1, <2>10
<1> QED
  BY <1>1, <1>2 DEF Nodes

LEMMA IncludedIs ==
  ASSUME TypeOK, TreeInv
  PROVE  /\ Included \subseteq Nodes
         /\ \A n \in Nodes : n \in Included <=>
              ~hidden[n] /\ (parent[n] = 0 \/ parent[n] \in Included)
<1> DEFINE in == CHOOSE i : Below(i, MaxNodes)
<1>1. Included = {n \in Nodes : in[n]}
  BY Zenon DEF Included, Below
<1>2. Below(in, MaxNodes)
  <2>1. MaxNodes \in 0..MaxNodes
    OBVIOUS
  <2>2. \E i : Below(i, MaxNodes)
    BY <2>1, BelowExists
  <2> QED
    BY <2>2, Zenon
<1> HIDE DEF in
<1>3. \A n \in 0..MaxNodes : in[n] = (n = 0 \/ (~hidden[n] /\ in[parent[n]]))
  BY <1>2 DEF Below
<1>4. ASSUME NEW n \in Nodes
      PROVE  n \in Included <=> ~hidden[n] /\ (parent[n] = 0 \/ parent[n] \in Included)
  <2>1. n \in 0..MaxNodes /\ n # 0 /\ parent[n] \in 0..MaxNodes
    BY TreeTypes DEF Nodes
  <2>2. n \in Included <=> ~hidden[n] /\ in[parent[n]]
    BY <1>1, <1>3, <2>1
  <2>3. CASE parent[n] = 0
    <3>1. in[parent[n]]
      BY <1>3, <2>1, <2>3
    <3> QED
      BY <2>2, <2>3, <3>1
  <2>4. CASE parent[n] # 0
    <3>1. parent[n] \in Nodes
      BY <2>1, <2>4 DEF Nodes
    <3> QED
      BY <1>1, <2>2, <2>4, <3>1
  <2> QED
    BY <2>3, <2>4
<1> QED
  BY <1>1, <1>4

(* The tree does not change, nor what is to be copied of it.               *)
LEMMA TreeStays ==
  ASSUME UNCHANGED source
  PROVE  /\ TreeInv => TreeInv'
         /\ Included' = Included /\ \A k : IncludedOf(k)' = IncludedOf(k)
<1>1. /\ parent' = parent /\ kind' = kind /\ hidden' = hidden
  BY DEF source
<1>2. Included' = Included
  BY <1>1 DEF Included, Nodes
<1> QED
  BY <1>1, <1>2 DEF TreeInv, IncludedOf, Nodes

-----------------------------------------------------------------------------
(* Facts about states of the invariant.                                    *)
LEMMA ReadIs ==
  ASSUME TypeOK, CountInv, file # None
  PROVE  /\ file \in Nodes /\ file \in DOMAIN written
         /\ Data \in Nat /\ written[file] \in Nat /\ size[file] \in Nat
         /\ written[file] + Data <= size[file]
         /\ Data = 0 <=> written[file] = size[file]
<1>1. file \in Nodes /\ file \in DOMAIN written /\ written[file] \in Nat
  BY DEF TypeOK, CountInv
<1>2. size[file] \in Nat
  BY <1>1, TreeTypes
<1>3. written[file] <= size[file]
  BY <1>1 DEF CountInv
<1> DEFINE left == size[file] - written[file]
<1>4. left \in Nat /\ Block \in Nat \ {0}
  BY <1>1, <1>2, <1>3
<1>5. Data = IF Block <= left THEN Block ELSE left
  <2>1. Data = CHOOSE x \in {Block, left} : \A y \in {Block, left} : x <= y
    BY DEF Data, Min
  <2> HIDE DEF left
  <2> QED
    BY <1>4, <2>1
<1> QED
  BY <1>1, <1>2, <1>3, <1>4, <1>5

LEMMA EntryIsIncluded ==
  ASSUME TypeOK, TreeInv, PlacedInv, NEW e \in unseen, ~hidden[e]
  PROVE  /\ e \in Nodes /\ e # 0 /\ e \in Included /\ e \in IncludedOf(kind[e])
         /\ parent[e] \in made
<1>1. e \in Nodes /\ e # 0
  <2>1. unseen \subseteq Nodes
    BY DEF TypeOK
  <2> QED
    BY <2>1 DEF Nodes
<1>2. parent[e] \in made
  BY DEF PlacedInv
<1>3. parent[e] = 0 \/ parent[e] \in Included
  BY <1>2 DEF PlacedInv, IncludedOf
<1>4. e \in Included
  BY <1>1, <1>3, IncludedIs
<1> QED
  BY <1>1, <1>2, <1>4 DEF IncludedOf

LEMMA WrittenIsFinite ==
  ASSUME TypeOK
  PROVE  /\ IsFiniteSet(DOMAIN written) /\ Cardinality(DOMAIN written) \in Nat
         /\ SumFunction(written) = SumFunctionOnSet(written, DOMAIN written)
         /\ SumFunction(written) \in Nat
<1>1. DOMAIN written \in SUBSET Nodes /\ \A n \in DOMAIN written : written[n] \in Nat
  BY DEF TypeOK
<1>2. IsFiniteSet(DOMAIN written)
  BY <1>1, NodesAreFinite
<1>3. SumFunctionOnSet(written, DOMAIN written) \in Nat
  BY <1>1, <1>2, SumType
<1>4. Cardinality(DOMAIN written) \in Nat
  BY <1>2, FS_CardinalityType
<1> QED
  BY <1>2, <1>3, <1>4 DEF SumFunction

LEMMA IncludedIsFinite ==
  ASSUME TypeOK, TreeInv, NEW k
  PROVE  /\ IncludedOf(k) \in SUBSET Nodes /\ IsFiniteSet(IncludedOf(k))
         /\ Cardinality(IncludedOf(k)) \in Nat
         /\ SumFunctionOnSet(size, IncludedOf(k)) \in Nat
<1>1. IncludedOf(k) \in SUBSET Nodes
  BY IncludedIs DEF IncludedOf
<1>2. IsFiniteSet(IncludedOf(k))
  BY <1>1, NodesAreFinite
<1>3. Cardinality(IncludedOf(k)) \in Nat
  BY <1>2, FS_CardinalityType
<1>4. SumFunctionOnSet(size, IncludedOf(k)) \in Nat
  BY <1>1, <1>2, TreeTypes, SumType
<1> QED
  BY <1>1, <1>2, <1>3, <1>4

LEMMA WaitingIs ==
  ASSUME TypeOK
  PROVE  /\ \A n : n \in Waiting <=> \E i \in 1..Len(pending) : n = pending[i]
         /\ DOMAIN pending = 1..Len(pending) /\ Len(pending) \in Nat
         /\ Waiting \subseteq 0..MaxNodes
<1>1. pending \in Seq(0..MaxNodes)
  BY DEF TypeOK
<1>2. DOMAIN pending = 1..Len(pending) /\ Len(pending) \in Nat
      /\ \A i \in 1..Len(pending) : pending[i] \in 0..MaxNodes
  BY <1>1
<1> QED
  BY <1>2 DEF Waiting, Range

-----------------------------------------------------------------------------
(* Steps that change neither the copy nor the stack.                       *)
LEMMA CopyStays ==
  ASSUME CopyInv, UNCHANGED <<source, pending, target>>, unseen' \subseteq unseen
  PROVE  TreeInv' /\ PlacedInv' /\ OnceInv'
<1>1. /\ pending' = pending /\ made' = made /\ written' = written /\ parent' = parent
  BY DEF source, target
<1>2. Waiting' = Waiting
  BY <1>1 DEF Waiting
<1>3. TreeInv'
  BY TreeStays DEF CopyInv
<1>4. PlacedInv'
  <2>1. IncludedOf("directory")' = IncludedOf("directory") /\ IncludedOf("file")' = IncludedOf("file")
    BY TreeStays
  <2>2. PlacedInv
    BY DEF CopyInv
  <2> QED
    BY <1>1, <1>2, <2>1, <2>2 DEF PlacedInv
<1>5. OnceInv'
  <2>1. OnceInv
    BY DEF CopyInv
  <2> QED
    BY <1>1, <1>2, <2>1 DEF OnceInv
<1> QED
  BY <1>3, <1>4, <1>5

LEMMA StillGoing ==
  ASSUME outcome' = "copying"
  PROVE  OutcomeIsOfTheTree'
  BY DEF OutcomeIsOfTheTree

LEMMA SkipKeeps ==
  ASSUME CopyInv, NEW e \in Nodes, Skip(e)
  PROVE  CopyInv'
<1> USE DEF Skip, Entry, Idle
<1>1. TypeOK'
  BY DEF CopyInv, TypeOK, source, target, Nodes
<1>2. TreeInv' /\ PlacedInv' /\ OnceInv'
  BY CopyStays
<1>3. CompleteInv'
  BY DEF CopyInv, CompleteInv, Going, Waiting, source, target, Nodes
<1>4. CountInv'
  BY DEF CopyInv, CountInv, source, target
<1>5. OutcomeIsOfTheTree'
  BY StillGoing
<1> QED
  BY <1>1, <1>2, <1>3, <1>4, <1>5 DEF CopyInv

LEMMA RefuseLinkKeeps ==
  ASSUME CopyInv, NEW e \in Nodes, RefuseLink(e)
  PROVE  CopyInv'
<1> USE DEF RefuseLink, Entry, Idle, Refuse
<1>1. TypeOK'
  BY DEF CopyInv, TypeOK, source, target, Nodes
<1>2. TreeInv' /\ PlacedInv' /\ OnceInv'
  BY CopyStays
<1>3. CompleteInv'
  BY DEF CompleteInv, Going
<1>4. CountInv'
  BY DEF CopyInv, CountInv, source, target
<1>5. OutcomeIsOfTheTree'
  <2>1. e \in IncludedOf("link")
    BY EntryIsIncluded DEF CopyInv
  <2>2. IncludedOf("link")' # {}
    BY <2>1, TreeStays
  <2> QED
    BY <2>2 DEF OutcomeIsOfTheTree
<1> QED
  BY <1>1, <1>2, <1>3, <1>4, <1>5 DEF CopyInv

LEMMA RefuseSpecialKeeps ==
  ASSUME CopyInv, NEW e \in Nodes, RefuseSpecial(e)
  PROVE  CopyInv'
<1> USE DEF RefuseSpecial, Entry, Idle, Refuse
<1>1. TypeOK'
  BY DEF CopyInv, TypeOK, source, target, Nodes
<1>2. TreeInv' /\ PlacedInv' /\ OnceInv'
  BY CopyStays
<1>3. CompleteInv'
  BY DEF CompleteInv, Going
<1>4. CountInv'
  BY DEF CopyInv, CountInv, source, target
<1>5. OutcomeIsOfTheTree'
  <2>1. e \in IncludedOf("special")
    BY EntryIsIncluded DEF CopyInv
  <2>2. IncludedOf("special")' # {}
    BY <2>1, TreeStays
  <2> QED
    BY <2>2 DEF OutcomeIsOfTheTree
<1> QED
  BY <1>1, <1>2, <1>3, <1>4, <1>5 DEF CopyInv

LEMMA CloseFileKeeps ==
  ASSUME CopyInv, CloseFile
  PROVE  CopyInv'
<1> USE DEF CloseFile
<1>1. TypeOK'
  BY DEF CopyInv, TypeOK, source, target, Nodes
<1>2. TreeInv' /\ PlacedInv' /\ OnceInv'
  BY CopyStays
<1>3. CompleteInv'
  BY DEF CopyInv, CompleteInv, Going, Waiting, source, target, Nodes
<1>4. CountInv'
  <2>1. written[file] = size[file]
    BY ReadIs DEF CopyInv
  <2> QED
    BY <2>1 DEF CopyInv, CountInv, source, target
<1>5. OutcomeIsOfTheTree'
  BY StillGoing
<1> QED
  BY <1>1, <1>2, <1>3, <1>4, <1>5 DEF CopyInv

LEMMA FailsKeeps ==
  ASSUME CopyInv, Fails
  PROVE  CopyInv'
<1> USE DEF Fails
<1>1. TypeOK'
  BY DEF CopyInv, TypeOK, source, target, Nodes
<1>2. TreeInv' /\ PlacedInv' /\ OnceInv'
  BY CopyStays
<1>3. CompleteInv'
  BY DEF CompleteInv, Going
<1>4. CountInv'
  BY DEF CopyInv, CountInv, source, target
<1>5. OutcomeIsOfTheTree'
  BY DEF OutcomeIsOfTheTree
<1> QED
  BY <1>1, <1>2, <1>3, <1>4, <1>5 DEF CopyInv

-----------------------------------------------------------------------------
(* The stack.                                                              *)
LEMMA OpenDirectoryKeeps ==
  ASSUME CopyInv, OpenDirectory
  PROVE  CopyInv'
<1> USE DEF OpenDirectory, Idle
<1> DEFINE d == pending[Len(pending)]
<1>0. /\ TypeOK /\ TreeInv /\ PlacedInv /\ OnceInv /\ CompleteInv /\ CountInv
      /\ outcome = "copying"
  BY DEF CopyInv
<1>1. /\ made' = made \cup {d} /\ unseen' = Listed(d) /\ unseen = {}
      /\ pending' = SubSeq(pending, 1, Len(pending) - 1)
      /\ UNCHANGED <<source, file, files, copied, written, outcome>>
  OBVIOUS
<1>2. /\ pending \in Seq(0..MaxNodes) /\ Len(pending) \in Nat \ {0}
      /\ d \in 0..MaxNodes
  BY <1>0 DEF TypeOK
<1>3. /\ pending' \in Seq(0..MaxNodes) /\ Len(pending') = Len(pending) - 1
      /\ DOMAIN pending = 1..Len(pending) /\ DOMAIN pending' = 1..(Len(pending) - 1)
      /\ \A i \in 1..(Len(pending) - 1) : pending'[i] = pending[i]
  <2> DEFINE k == Len(pending) - 1
  <2>1. k \in Nat /\ DOMAIN pending = 1..Len(pending)
        /\ \A i \in 1..k : pending[i] \in 0..MaxNodes
    BY <1>2
  <2>2. /\ SubSeq(pending, 1, k) \in Seq(0..MaxNodes)
        /\ Len(SubSeq(pending, 1, k)) = IF 1 <= k THEN k - 1 + 1 ELSE 0
        /\ \A i \in 1..(k - 1 + 1) : SubSeq(pending, 1, k)[i] = pending[1 + i - 1]
    <3> HIDE DEF k
    <3> QED
      BY <2>1, SubSeqProperties
  <2>3. \A i \in 1..k : i \in 1..(k - 1 + 1) /\ 1 + i - 1 = i
    BY <2>1
  <2>4. /\ Len(pending') = k /\ pending' \in Seq(0..MaxNodes)
        /\ \A i \in 1..k : pending'[i] = pending[i]
    <3> HIDE DEF k, OpenDirectory
    <3>1. pending' = SubSeq(pending, 1, k)
      BY <1>1 DEF k
    <3> QED
      BY <2>1, <2>2, <2>3, <3>1
  <2> QED
    BY <2>1, <2>4
<1>4. /\ Waiting' \subseteq Waiting /\ d \in Waiting /\ d \notin Waiting'
      /\ Waiting \subseteq Waiting' \cup {d}
  <2>1. \A n : n \in Waiting <=> \E i \in 1..Len(pending) : n = pending[i]
    BY <1>0, WaitingIs
  <2>2. \A n : n \in Waiting' <=> \E i \in 1..(Len(pending) - 1) : n = pending[i]
    BY <1>3 DEF Waiting, Range
  <2>3. \A i \in 1..(Len(pending) - 1) : pending[i] # d
    <3> HIDE DEF OpenDirectory
    <3>1. \A i, j \in 1..Len(pending) : pending[i] = pending[j] => i = j
      BY <1>0, <1>3 DEF OnceInv
    <3>2. \A i \in 1..(Len(pending) - 1) : i \in 1..Len(pending) /\ i # Len(pending)
      BY <1>2
    <3>3. Len(pending) \in 1..Len(pending)
      BY <1>2
    <3> QED
      BY <3>1, <3>2, <3>3
  <2>4. \A i \in 1..Len(pending) : i \in 1..(Len(pending) - 1) \/ i = Len(pending)
    BY <1>2
  <2>5. Len(pending) \in 1..Len(pending) /\ 1..(Len(pending) - 1) \subseteq 1..Len(pending)
    BY <1>2
  <2> HIDE DEF OpenDirectory
  <2> QED
    BY <2>1, <2>2, <2>3, <2>4, <2>5
<1> HIDE DEF d, OpenDirectory
<1>5. TypeOK'
  <2>1. Listed(d) \subseteq Nodes
    BY DEF Listed
  <2> QED
    BY <1>0, <1>1, <1>2, <1>3, <2>1 DEF TypeOK, source, Nodes
<1>6. TreeInv' /\ \A k : IncludedOf(k)' = IncludedOf(k)
  BY <1>0, <1>1, TreeStays
<1>7. \A n \in Listed(d) : n \in Nodes /\ parent[n] = d /\ n # 0 /\ n # d
  BY <1>0, TreeTypes DEF Listed, TreeInv
<1>8. /\ parent' = parent /\ written' = written
  BY <1>1 DEF source
<1>9. PlacedInv'
  BY <1>0, <1>1, <1>4, <1>6, <1>7, <1>8 DEF PlacedInv
<1>10. OnceInv'
  <2>1. \A i, j \in DOMAIN pending' : pending'[i] = pending'[j] => i = j
    <3>1. \A i, j \in 1..Len(pending) : pending[i] = pending[j] => i = j
      BY <1>0, <1>3 DEF OnceInv
    <3>2. 1..(Len(pending) - 1) \subseteq 1..Len(pending)
      BY <1>2
    <3> QED
      BY <1>3, <3>1, <3>2
  <2>2. \A n \in Waiting' : n \notin made'
    BY <1>0, <1>1, <1>4 DEF OnceInv
  <2>3. d \notin made
    BY <1>0, <1>4 DEF OnceInv
  <2>4. \A n \in made \cup Waiting \cup DOMAIN written : n # 0 => parent[n] # d
    BY <1>0, <2>3 DEF PlacedInv
  <2>5. \A n \in unseen' : n \notin made' /\ n \notin Waiting' /\ n \notin DOMAIN written'
    BY <1>1, <1>4, <1>7, <1>8, <2>4
  <2> QED
    BY <2>1, <2>2, <2>5 DEF OnceInv
<1>11. CompleteInv'
  <2>1. /\ 0 \in made \cup Waiting
        /\ \A n \in Nodes : parent[n] \in made /\ ~hidden[n] =>
             n \in Waiting \cup made \cup DOMAIN written
    BY <1>0, <1>1 DEF CompleteInv, Going
  <2>2. 0 \in made' \cup Waiting'
    BY <1>1, <1>4, <2>1
  <2>3. ASSUME NEW n \in Nodes, parent[n] \in made', ~hidden[n]
        PROVE  n \in unseen' \cup Waiting' \cup made' \cup DOMAIN written'
    <3>1. CASE parent[n] = d
      BY <1>1, <3>1 DEF Listed
    <3>2. CASE parent[n] \in made
      BY <1>1, <1>4, <1>8, <2>1, <2>3, <3>2
    <3> QED
      BY <1>1, <2>3, <3>1, <3>2
  <2>4. hidden' = hidden
    BY <1>1 DEF source
  <2> QED
    BY <1>8, <2>2, <2>3, <2>4 DEF CompleteInv, Nodes
<1>12. CountInv'
  BY <1>0, <1>1 DEF CountInv, source
<1>13. OutcomeIsOfTheTree'
  BY <1>0, <1>1, StillGoing
<1> QED
  BY <1>5, <1>6, <1>9, <1>10, <1>11, <1>12, <1>13 DEF CopyInv

LEMMA QueueDirectoryKeeps ==
  ASSUME CopyInv, NEW e \in Nodes, QueueDirectory(e)
  PROVE  CopyInv'
<1>0. /\ TypeOK /\ TreeInv /\ PlacedInv /\ OnceInv /\ CompleteInv /\ CountInv
      /\ outcome = "copying"
  BY DEF CopyInv, QueueDirectory, Entry, Idle
<1>1. /\ e \in unseen /\ ~hidden[e] /\ kind[e] = "directory"
      /\ unseen' = unseen \ {e} /\ pending' = Append(pending, e)
      /\ UNCHANGED <<source, file, files, copied, target, outcome>>
  BY DEF QueueDirectory, Entry
<1>2. /\ parent' = parent /\ hidden' = hidden /\ made' = made /\ written' = written
  BY <1>1 DEF source, target
<1>3. /\ e \in 0..MaxNodes /\ e # 0 /\ e \in IncludedOf("directory") /\ parent[e] \in made
      /\ e \notin made /\ e \notin Waiting
  <2>1. e \in IncludedOf("directory") /\ parent[e] \in made
    BY <1>0, <1>1, EntryIsIncluded
  <2> QED
    BY <1>0, <1>1, <2>1 DEF OnceInv, Nodes
<1>4. /\ pending \in Seq(0..MaxNodes) /\ pending' \in Seq(0..MaxNodes)
      /\ Len(pending) \in Nat /\ Len(pending') = Len(pending) + 1
      /\ DOMAIN pending = 1..Len(pending) /\ DOMAIN pending' = 1..(Len(pending) + 1)
      /\ pending'[Len(pending) + 1] = e
      /\ \A i \in 1..Len(pending) : pending'[i] = pending[i]
  BY <1>0, <1>1, <1>3 DEF TypeOK
<1>5. Waiting' = Waiting \cup {e}
  <2>1. \A n : n \in Waiting <=> \E i \in 1..Len(pending) : n = pending[i]
    BY <1>0, WaitingIs
  <2>2. \A n : n \in Waiting' <=> \E i \in 1..(Len(pending) + 1) : n = pending'[i]
    BY <1>4 DEF Waiting, Range
  <2>3. \A i \in 1..(Len(pending) + 1) : i \in 1..Len(pending) \/ i = Len(pending) + 1
    BY <1>4
  <2>4. Len(pending) + 1 \in 1..(Len(pending) + 1) /\ 1..Len(pending) \subseteq 1..(Len(pending) + 1)
    BY <1>4
  <2>5. pending'[Len(pending) + 1] = e /\ \A i \in 1..Len(pending) : pending'[i] = pending[i]
    BY <1>4
  <2> QED
    BY <2>1, <2>2, <2>3, <2>4, <2>5
<1>6. TypeOK'
  BY <1>0, <1>1, <1>4 DEF TypeOK, source, target, Nodes
<1>7. TreeInv' /\ \A k : IncludedOf(k)' = IncludedOf(k)
  BY <1>0, <1>1, TreeStays
<1>8. PlacedInv'
  BY <1>0, <1>1, <1>2, <1>3, <1>5, <1>7 DEF PlacedInv
<1>9. OnceInv'
  <2>1. ASSUME NEW i \in DOMAIN pending', NEW j \in DOMAIN pending', pending'[i] = pending'[j]
        PROVE  i = j
    <3>1. \A k \in 1..Len(pending) : pending[k] # e
      BY <1>0, <1>3, WaitingIs
    <3>2. \A k, l \in 1..Len(pending) : pending[k] = pending[l] => k = l
      BY <1>0, <1>4 DEF OnceInv
    <3>3. pending'[Len(pending) + 1] = e /\ \A k \in 1..Len(pending) : pending'[k] = pending[k]
      BY <1>4
    <3>4. /\ i \in 1..Len(pending) \/ i = Len(pending) + 1
          /\ j \in 1..Len(pending) \/ j = Len(pending) + 1
      BY <1>4, <2>1
    <3> QED
      BY <2>1, <3>1, <3>2, <3>3, <3>4
  <2>2. \A n \in Waiting' : n \notin made'
    BY <1>0, <1>2, <1>3, <1>5 DEF OnceInv
  <2>3. \A n \in unseen' : n \notin made' /\ n \notin Waiting' /\ n \notin DOMAIN written'
    BY <1>0, <1>1, <1>2, <1>5 DEF OnceInv
  <2> QED
    BY <2>1, <2>2, <2>3 DEF OnceInv
<1>10. CompleteInv'
  BY <1>0, <1>1, <1>2, <1>5 DEF CompleteInv, Going, Nodes
<1>11. CountInv'
  BY <1>0, <1>1, <1>2 DEF CountInv, source
<1>12. OutcomeIsOfTheTree'
  BY <1>0, <1>1, StillGoing
<1> QED
  BY <1>6, <1>7, <1>8, <1>9, <1>10, <1>11, <1>12 DEF CopyInv

-----------------------------------------------------------------------------
(* Files and bytes.                                                        *)
LEMMA OpenFileKeeps ==
  ASSUME CopyInv, NEW e \in Nodes, OpenFile(e)
  PROVE  CopyInv'
<1>0. /\ TypeOK /\ TreeInv /\ PlacedInv /\ OnceInv /\ CompleteInv /\ CountInv
      /\ outcome = "copying" /\ file = None
  BY DEF CopyInv, OpenFile, Entry, Idle
<1>1. /\ e \in unseen /\ ~hidden[e] /\ kind[e] = "file"
      /\ unseen' = unseen \ {e} /\ files' = files + 1 /\ files' <= max_files /\ file' = e
      /\ written' = [n \in DOMAIN written \cup {e} |-> IF n = e THEN 0 ELSE written[n]]
      /\ UNCHANGED <<source, pending, copied, made, outcome>>
  BY DEF OpenFile, Entry
<1>2. /\ parent' = parent /\ hidden' = hidden /\ size' = size /\ Waiting' = Waiting
      /\ max_files' = max_files /\ max_copy_bytes' = max_copy_bytes
  BY <1>1 DEF source, Waiting
<1>3. /\ e \in IncludedOf("file") /\ parent[e] \in made /\ e \notin DOMAIN written
      /\ size[e] \in Nat
  <2>1. e \in IncludedOf("file") /\ parent[e] \in made
    BY <1>0, <1>1, EntryIsIncluded
  <2>2. size[e] \in Nat
    BY <1>0, TreeTypes
  <2> QED
    BY <1>0, <1>1, <2>1, <2>2 DEF OnceInv
<1>4. /\ DOMAIN written' = DOMAIN written \cup {e} /\ written'[e] = 0
      /\ \A n \in DOMAIN written : n # e /\ written'[n] = written[n]
  BY <1>1, <1>3
<1>5. TypeOK'
  <2>1. DOMAIN written' \subseteq Nodes /\ \A n \in DOMAIN written' : written'[n] \in Nat
    BY <1>0, <1>4 DEF TypeOK
  <2>2. DOMAIN written' \subseteq Nodes' /\ unseen' \subseteq Nodes' /\ file' \in Nodes' \cup {None}
    BY <1>0, <1>1, <2>1 DEF TypeOK, Nodes
  <2> QED
    BY <1>0, <1>1, <2>1, <2>2 DEF TypeOK, source, Nodes
<1>6. TreeInv' /\ \A k : IncludedOf(k)' = IncludedOf(k)
  BY <1>0, <1>1, TreeStays
<1>7. PlacedInv'
  BY <1>0, <1>1, <1>2, <1>3, <1>4, <1>6 DEF PlacedInv
<1>8. OnceInv'
  BY <1>0, <1>1, <1>2, <1>4 DEF OnceInv
<1>9. CompleteInv'
  BY <1>0, <1>1, <1>2, <1>4 DEF CompleteInv, Going, Nodes
<1>10. CountInv'
  <2>1. IsFiniteSet(DOMAIN written)
    BY <1>0, WrittenIsFinite
  <2>2. IsFiniteSet(DOMAIN written')
        /\ Cardinality(DOMAIN written') = Cardinality(DOMAIN written) + 1
    BY <1>3, <1>4, <2>1, FS_AddElement
  <2>3. files = Cardinality(DOMAIN written) /\ copied = SumFunction(written)
        /\ SumFunction(written) <= max_copy_bytes
    BY <1>0 DEF CountInv
  <2>4. SumFunction(written') = SumFunction(written)
    <3> DEFINE w == written'
    <3>1. SumFunction(w) = SumFunctionOnSet(w, DOMAIN w)
      BY DEF SumFunction
    <3>2. \A n \in DOMAIN w : w[n] \in Nat
      BY <1>5 DEF TypeOK
    <3>3. e \in DOMAIN w /\ DOMAIN w \ {e} = DOMAIN written
      BY <1>3, <1>4
    <3>4. SumFunctionOnSet(w, DOMAIN w) = w[e] + SumFunctionOnSet(w, DOMAIN w \ {e})
      <4> HIDE DEF w
      <4>1. IsFiniteSet(DOMAIN w)
        BY <2>2 DEF w
      <4> QED
        BY <3>2, <3>3, <4>1, SumTakeOut
    <3>5. SumFunctionOnSet(w, DOMAIN written) = SumFunctionOnSet(written, DOMAIN written)
      <4>1. \A n \in DOMAIN written : w[n] = written[n]
        BY <1>4
      <4> HIDE DEF w
      <4> QED
        BY <2>1, <4>1, SumsEqual
    <3> QED
      BY <1>0, <1>4, <3>1, <3>3, <3>4, <3>5, WrittenIsFinite
  <2>5. \A n \in DOMAIN written : n # None
    BY <1>0 DEF TypeOK, Nodes
  <2>6. \A n \in DOMAIN written : written[n] <= size[n] /\ written[n] = size[n]
    BY <1>0, <2>5 DEF CountInv
  <2>7. \A n \in DOMAIN written' :
          written'[n] <= size'[n] /\ (n # file' => written'[n] = size'[n])
    BY <1>1, <1>2, <1>3, <1>4, <2>6
  <2>8. written' = [n \in DOMAIN written' |-> written'[n]]
    BY <1>1
  <2> QED
    BY <1>0, <1>1, <1>2, <1>4, <2>2, <2>3, <2>4, <2>7, <2>8 DEF CountInv
<1>11. OutcomeIsOfTheTree'
  BY <1>0, <1>1, StillGoing
<1> QED
  BY <1>5, <1>6, <1>7, <1>8, <1>9, <1>10, <1>11 DEF CopyInv

LEMMA TooManyFilesKeeps ==
  ASSUME CopyInv, NEW e \in Nodes, TooManyFiles(e)
  PROVE  CopyInv'
<1>0. /\ TypeOK /\ TreeInv /\ PlacedInv /\ OnceInv /\ CountInv
      /\ e \in unseen /\ ~hidden[e] /\ kind[e] = "file" /\ unseen' \subseteq unseen
      /\ outcome' = "too many files" /\ outcome = "copying"
      /\ UNCHANGED <<source, pending, file, copied, target>>
  BY DEF CopyInv, TooManyFiles, Entry, Idle, Refuse
<1>1. files' = files + 1 /\ files' > max_files
  BY DEF TooManyFiles
<1>2. TypeOK'
  <2>1. files' \in Nat
    <3>1. files \in Nat
      BY <1>0 DEF TypeOK
    <3> QED
      BY <1>1, <3>1
  <2> QED
    BY <1>0, <2>1 DEF TypeOK, source, target, Nodes
<1>3. TreeInv' /\ PlacedInv' /\ OnceInv'
  BY <1>0, CopyStays
<1>4. CompleteInv'
  BY <1>0 DEF CompleteInv, Going
<1>5. CountInv'
  BY <1>0 DEF CountInv, source, target
<1>6. OutcomeIsOfTheTree'
  <2> DEFINE All == IncludedOf("file")
  <2>1. e \in All /\ e \notin DOMAIN written /\ DOMAIN written \subseteq All
    BY <1>0, EntryIsIncluded DEF OnceInv, PlacedInv
  <2>2. IsFiniteSet(All) /\ Cardinality(All) \in Nat
    BY <1>0, IncludedIsFinite
  <2>3. IsFiniteSet(DOMAIN written) /\ Cardinality(DOMAIN written) \in Nat
    BY <1>0, WrittenIsFinite
  <2> HIDE DEF All
  <2>4. Cardinality(DOMAIN written \cup {e}) = Cardinality(DOMAIN written) + 1
    BY <2>1, <2>3, FS_AddElement
  <2>5. DOMAIN written \cup {e} \in SUBSET All
    BY <2>1
  <2>6. Cardinality(DOMAIN written \cup {e}) <= Cardinality(All)
    BY <2>2, <2>5, FS_Subset
  <2>7. files' = Cardinality(DOMAIN written) + 1 /\ files' > max_files /\ max_files \in Nat
    <3>1. files = Cardinality(DOMAIN written) /\ max_files \in Nat
      BY <1>0 DEF CountInv, TypeOK
    <3> QED
      BY <1>1, <3>1
  <2>8. Cardinality(All) > max_files
    <3> DEFINE a == Cardinality(All)
               b == Cardinality(DOMAIN written)
    <3>1. a \in Nat /\ b \in Nat /\ b + 1 <= a /\ b + 1 > max_files /\ max_files \in Nat
      BY <2>2, <2>3, <2>4, <2>6, <2>7, Zenon
    <3> HIDE DEF a, b
    <3>2. a > max_files
      BY <3>1
    <3> QED
      BY <3>2 DEF a
  <2>9. IncludedOf("file")' = All /\ max_files' = max_files
    BY <1>0, TreeStays DEF All, source
  <2>10. Cardinality(IncludedOf("file")') > max_files'
    BY <2>8, <2>9
  <2> QED
    BY <1>0, <2>10 DEF OutcomeIsOfTheTree
<1> QED
  BY <1>2, <1>3, <1>4, <1>5, <1>6 DEF CopyInv

(* What writing to one file does to the sum.                               *)
LEMMA SumOfBlock ==
  ASSUME TypeOK, NEW n \in DOMAIN written, NEW k \in Nat
  PROVE  SumFunction([written EXCEPT ![n] = @ + k]) = SumFunction(written) + k
<1> DEFINE D == DOMAIN written
           w == [written EXCEPT ![n] = @ + k]
<1>1. IsFiniteSet(D) /\ \A x \in D : written[x] \in Nat
  BY WrittenIsFinite DEF TypeOK
<1>2. DOMAIN w = D /\ w[n] = written[n] + k /\ \A x \in D \ {n} : w[x] = written[x]
  BY Zenon
<1>3. \A x \in D : w[x] \in Nat
  <2> HIDE DEF w, D
  <2> QED
    BY <1>1, <1>2
<1>4. IsFiniteSet(D \ {n}) /\ SumFunctionOnSet(written, D \ {n}) \in Nat
  <2>1. IsFiniteSet(D \ {n})
    BY <1>1, FS_Subset
  <2> QED
    BY <1>1, <2>1, SumType
<1> HIDE DEF w
<1>5. SumFunctionOnSet(w, D \ {n}) = SumFunctionOnSet(written, D \ {n})
  BY <1>2, <1>4, SumsEqual
<1>6. SumFunctionOnSet(w, D) = w[n] + SumFunctionOnSet(w, D \ {n})
  BY <1>1, <1>3, SumTakeOut
<1>7. SumFunctionOnSet(written, D) = written[n] + SumFunctionOnSet(written, D \ {n})
  BY <1>1, SumTakeOut
<1>8. SumFunction(w) = SumFunctionOnSet(w, D) /\ SumFunction(written) = SumFunctionOnSet(written, D)
  BY <1>2 DEF SumFunction
<1>9. written[n] \in Nat
  BY <1>1
<1>10. SumFunction(w) = SumFunction(written) + k
  BY <1>2, <1>4, <1>5, <1>6, <1>7, <1>8, <1>9
<1> QED
  BY <1>10 DEF w

LEMMA CopyBlockKeeps ==
  ASSUME CopyInv, CopyBlock
  PROVE  CopyInv'
<1>0. /\ TypeOK /\ TreeInv /\ PlacedInv /\ OnceInv /\ CompleteInv /\ CountInv
      /\ outcome = "copying" /\ file # None
  BY DEF CopyInv, CopyBlock
<1>1. /\ copied' = copied + Data /\ copied' <= max_copy_bytes
      /\ written' = [written EXCEPT ![file] = @ + Data]
      /\ UNCHANGED <<source, pending, unseen, file, files, made, outcome>>
  BY DEF CopyBlock
<1>2. /\ parent' = parent /\ hidden' = hidden /\ size' = size /\ Waiting' = Waiting
      /\ max_files' = max_files /\ max_copy_bytes' = max_copy_bytes
  BY <1>1 DEF source, Waiting
<1>3. /\ file \in Nodes /\ file \in DOMAIN written
      /\ Data \in Nat /\ written[file] \in Nat /\ size[file] \in Nat
      /\ written[file] + Data <= size[file]
  BY <1>0, ReadIs
<1>4. /\ DOMAIN written' = DOMAIN written /\ written'[file] = written[file] + Data
      /\ \A n \in DOMAIN written : n # file => written'[n] = written[n]
  BY <1>1, <1>3, Zenon
<1>5. TypeOK'
  <2>1. DOMAIN written' \subseteq Nodes /\ \A n \in DOMAIN written' : written'[n] \in Nat
    <3>1. DOMAIN written \subseteq Nodes /\ \A n \in DOMAIN written : written[n] \in Nat
      BY <1>0 DEF TypeOK
    <3>2. written'[file] \in Nat
      BY <1>3, <1>4
    <3> QED
      BY <1>4, <3>1, <3>2
  <2>2. copied' \in Nat
    BY <1>0, <1>1, <1>3 DEF TypeOK
  <2> QED
    BY <1>0, <1>1, <2>1, <2>2 DEF TypeOK, source, Nodes
<1>6. TreeInv' /\ \A k : IncludedOf(k)' = IncludedOf(k)
  BY <1>0, <1>1, TreeStays
<1>7. PlacedInv'
  BY <1>0, <1>1, <1>2, <1>4, <1>6 DEF PlacedInv
<1>8. OnceInv'
  BY <1>0, <1>1, <1>2, <1>4 DEF OnceInv
<1>9. CompleteInv'
  BY <1>0, <1>1, <1>2, <1>4 DEF CompleteInv, Going, Nodes
<1>10. CountInv'
  <2>1. SumFunction(written') = SumFunction(written) + Data
    BY <1>0, <1>1, <1>3, SumOfBlock
  <2>2. /\ copied = SumFunction(written) /\ files = Cardinality(DOMAIN written)
        /\ Cardinality(DOMAIN written) <= max_files
    BY <1>0 DEF CountInv
  <2>3. \A n \in DOMAIN written' :
          written'[n] <= size'[n] /\ (n # file' => written'[n] = size'[n])
    BY <1>0, <1>1, <1>2, <1>3, <1>4 DEF CountInv
  <2>4. written' = [n \in DOMAIN written' |-> written'[n]]
    BY <1>1, Zenon
  <2> QED
    BY <1>0, <1>1, <1>2, <1>3, <1>4, <2>1, <2>2, <2>3, <2>4 DEF CountInv
<1>11. OutcomeIsOfTheTree'
  BY <1>0, <1>1, StillGoing
<1> QED
  BY <1>5, <1>6, <1>7, <1>8, <1>9, <1>10, <1>11 DEF CopyInv

LEMMA TooManyBytesKeeps ==
  ASSUME CopyInv, TooManyBytes
  PROVE  CopyInv'
<1>0. /\ TypeOK /\ TreeInv /\ PlacedInv /\ CountInv
      /\ file # None
      /\ outcome' = "too many bytes" /\ outcome = "copying"
      /\ UNCHANGED <<source, pending, unseen, file, files, target>>
  BY DEF CopyInv, TooManyBytes
<1>1. copied' = copied + Data /\ copied' > max_copy_bytes
  BY DEF TooManyBytes
<1>2. TypeOK'
  <2>1. Data \in Nat
    BY <1>0, ReadIs
  <2> QED
    <3>1. copied' \in Nat
      <4>1. copied \in Nat
        BY <1>0 DEF TypeOK
      <4> QED
        BY <1>1, <2>1, <4>1
    <3> QED
      BY <1>0, <3>1 DEF TypeOK, source, target, Nodes
<1>3. TreeInv' /\ PlacedInv' /\ OnceInv'
  BY <1>0, CopyStays
<1>4. CompleteInv'
  BY <1>0 DEF CompleteInv, Going
<1>5. CountInv'
  BY <1>0 DEF CountInv, source, target
<1>6. OutcomeIsOfTheTree'
  <2> DEFINE All == IncludedOf("file")
             w == [written EXCEPT ![file] = @ + Data]
  <2>1. /\ file \in DOMAIN written
        /\ Data \in Nat /\ written[file] \in Nat /\ written[file] + Data <= size[file]
    BY <1>0, ReadIs
  <2>2. SumFunction(w) = SumFunction(written) + Data
    BY <1>0, <2>1, SumOfBlock
  <2>3. DOMAIN w = DOMAIN written /\ w[file] = written[file] + Data
        /\ \A n \in DOMAIN written : n # file => w[n] = written[n]
    BY <2>1, Zenon
  <2>4. DOMAIN written \in SUBSET All
    BY <1>0 DEF PlacedInv
  <2>5. \A n \in DOMAIN written : written[n] \in Nat /\ written[n] <= size[n]
    BY <1>0 DEF TypeOK, CountInv
  <2>6. /\ IsFiniteSet(All) /\ SumFunctionOnSet(size, All) \in Nat
        /\ \A n \in All : size[n] \in Nat
    BY <1>0, IncludedIsFinite, TreeTypes
  <2>7. \A n \in DOMAIN written : w[n] \in Nat /\ w[n] <= size[n]
    <3>1. w[file] \in Nat /\ w[file] <= size[file]
      <4> HIDE DEF w
      <4> QED
        BY <2>1, <2>3
    <3> HIDE DEF w
    <3> QED
      BY <2>3, <2>5, <3>1
  <2> HIDE DEF w, All
  <2>8. SumFunctionOnSet(w, DOMAIN written) <= SumFunctionOnSet(size, All)
    BY <2>4, <2>6, <2>7, SumLess
  <2>9. SumFunction(w) = SumFunctionOnSet(w, DOMAIN written)
    BY <2>3 DEF SumFunction
  <2>10. copied' = SumFunction(written) + Data /\ copied' > max_copy_bytes
         /\ max_copy_bytes \in Nat /\ SumFunction(written) \in Nat
    <3>1. copied = SumFunction(written) /\ max_copy_bytes \in Nat
      BY <1>0 DEF CountInv, TypeOK
    <3> QED
      BY <1>0, <1>1, <3>1, WrittenIsFinite
  <2>11. SumFunctionOnSet(size, All) > max_copy_bytes
    <3> DEFINE a == SumFunctionOnSet(size, All)
               b == SumFunction(written)
    <3>1. /\ a \in Nat /\ b \in Nat /\ Data \in Nat /\ b + Data <= a
          /\ b + Data > max_copy_bytes /\ max_copy_bytes \in Nat
      BY <2>1, <2>2, <2>6, <2>8, <2>9, <2>10, Zenon
    <3> HIDE DEF a, b
    <3>2. a > max_copy_bytes
      BY <3>1
    <3> QED
      BY <3>2 DEF a
  <2>12. IncludedOf("file")' = All /\ max_copy_bytes' = max_copy_bytes /\ size' = size
    BY <1>0, TreeStays DEF All, source
  <2>13. SumFunctionOnSet(size', IncludedOf("file")') > max_copy_bytes'
    BY <2>11, <2>12
  <2> QED
    BY <1>0, <2>13 DEF OutcomeIsOfTheTree
<1> QED
  BY <1>2, <1>3, <1>4, <1>5, <1>6 DEF CopyInv

-----------------------------------------------------------------------------
(* The end: the least entry that is missing would have been a child of a   *)
(* directory that is there.                                                *)
LEMMA NothingMissing ==
  ASSUME TypeOK, TreeInv, PlacedInv, CompleteInv,
         outcome = "copying", unseen = {}, pending = << >>
  PROVE  Included \subseteq made \cup DOMAIN written /\ 0 \in made
<1>1. Waiting = {}
  BY DEF Waiting, Range
<1>2. /\ 0 \in made
      /\ \A n \in Nodes : parent[n] \in made /\ ~hidden[n] => n \in made \cup DOMAIN written
  BY <1>1 DEF CompleteInv, Going
<1> DEFINE Missing == {n \in Included : n \notin made \cup DOMAIN written}
<1>3. ASSUME Missing # {} PROVE FALSE
  <2>1. Missing \in SUBSET Nodes
    BY IncludedIs
  <2>2. PICK n \in Missing : \A k \in Missing : n <= k
    <3> HIDE DEF Missing
    <3> QED
      BY <1>3, <2>1, FirstNode
  <2>3. n \in Nodes /\ ~hidden[n] /\ (parent[n] = 0 \/ parent[n] \in Included)
    BY <2>1, <2>2, IncludedIs
  <2>4. parent[n] \notin made
    BY <1>2, <2>2, <2>3
  <2>5. parent[n] \in Included /\ parent[n] # 0
    BY <1>2, <2>3, <2>4
  <2>6. parent[n] \in Nat /\ n \in Nat /\ parent[n] < n
    BY <2>3, TreeTypes DEF TreeInv
  <2>7. parent[n] \notin Missing
    BY <2>2, <2>6
  <2>8. parent[n] \in DOMAIN written
    BY <2>4, <2>5, <2>7
  <2>9. kind[parent[n]] = "file" /\ kind[parent[n]] = "directory"
    BY <2>3, <2>5, <2>8 DEF PlacedInv, IncludedOf, TreeInv
  <2> QED
    BY <2>9
<1> QED
  BY <1>2, <1>3

LEMMA CompleteKeeps ==
  ASSUME CopyInv, Complete
  PROVE  CopyInv'
<1>0. /\ TypeOK /\ TreeInv /\ PlacedInv /\ CompleteInv /\ CountInv
      /\ outcome = "copying" /\ file = None /\ unseen = {} /\ pending = << >>
      /\ outcome' = "copied"
      /\ UNCHANGED <<source, pending, unseen, file, files, copied, target>>
  BY DEF CopyInv, Complete, Idle
<1>1. TypeOK'
  BY <1>0 DEF TypeOK, source, target, Nodes
<1>2. TreeInv' /\ PlacedInv' /\ OnceInv'
  BY <1>0, CopyStays
<1>3. CompleteInv'
  BY <1>0 DEF CompleteInv, Going, Waiting, source, target, Nodes
<1>4. CountInv'
  BY <1>0 DEF CountInv, source, target
<1>5. OutcomeIsOfTheTree'
  <2>1. Included \subseteq made \cup DOMAIN written /\ 0 \in made
    BY <1>0, NothingMissing
  <2>2. \A n \in made : n # 0 => kind[n] = "directory" /\ n \in Included
    BY <1>0 DEF PlacedInv, IncludedOf
  <2>3. \A n \in DOMAIN written : kind[n] = "file" /\ n \in Included
    BY <1>0 DEF PlacedInv, IncludedOf
  <2>4. \A n \in Included : n # 0
    BY <1>0, IncludedIs DEF Nodes
  <2>5. IncludedOf("link") = {} /\ IncludedOf("special") = {}
    BY <2>1, <2>2, <2>3, <2>4 DEF IncludedOf
  <2>6. made = {0} \cup IncludedOf("directory")
    BY <2>1, <2>2, <2>3, <2>4 DEF IncludedOf
  <2>7. DOMAIN written = IncludedOf("file")
    BY <2>1, <2>2, <2>3, <2>4 DEF IncludedOf
  <2>8. written = Restrict(size, IncludedOf("file"))
    <3>1. \A n \in DOMAIN written : n # None
      BY <1>0 DEF TypeOK, Nodes
    <3>2. \A n \in DOMAIN written : written[n] = size[n]
      BY <1>0, <3>1 DEF CountInv
    <3>3. written = [n \in DOMAIN written |-> written[n]]
      BY <1>0 DEF CountInv
    <3>4. written = [n \in DOMAIN written |-> size[n]]
      BY <3>2, <3>3
    <3> QED
      BY <2>7, <3>4 DEF Restrict
  <2>9. /\ made' = made /\ written' = written /\ size' = size
        /\ \A k : IncludedOf(k)' = IncludedOf(k)
    BY <1>0, TreeStays DEF source, target
  <2> QED
    BY <1>0, <2>5, <2>6, <2>8, <2>9 DEF OutcomeIsOfTheTree
<1> QED
  BY <1>1, <1>2, <1>3, <1>4, <1>5 DEF CopyInv

LEMMA CopyStutters ==
  ASSUME CopyInv, UNCHANGED vars
  PROVE  CopyInv'
<1>0. /\ TypeOK /\ CompleteInv /\ CountInv /\ OutcomeIsOfTheTree
      /\ UNCHANGED <<source, pending, unseen, file, files, copied, target, outcome>>
  BY DEF CopyInv, vars
<1>1. TypeOK'
  BY <1>0 DEF TypeOK, source, target, Nodes
<1>2. TreeInv' /\ PlacedInv' /\ OnceInv'
  BY <1>0, CopyStays
<1>3. CompleteInv'
  BY <1>0 DEF CompleteInv, Going, Waiting, source, target, Nodes
<1>4. CountInv'
  BY <1>0 DEF CountInv, source, target
<1>5. OutcomeIsOfTheTree'
  <2>1. /\ made' = made /\ written' = written /\ size' = size /\ outcome' = outcome
        /\ max_files' = max_files /\ max_copy_bytes' = max_copy_bytes
        /\ \A k : IncludedOf(k)' = IncludedOf(k)
    BY <1>0, TreeStays DEF source, target
  <2> QED
    BY <1>0, <2>1 DEF OutcomeIsOfTheTree
<1> QED
  BY <1>1, <1>2, <1>3, <1>4, <1>5 DEF CopyInv

-----------------------------------------------------------------------------
LEMMA CopyInit ==
  ASSUME Init
  PROVE  CopyInv
<1>1. /\ parent \in [Nodes -> 0..MaxNodes] /\ \A n \in Nodes : parent[n] < n
      /\ kind \in [Nodes -> Kinds]
      /\ \A n \in Nodes : parent[n] # 0 => kind[parent[n]] = "directory"
      /\ size \in [Nodes -> Sizes \cup {0}] /\ hidden \in [Nodes -> BOOLEAN]
      /\ max_files \in FileLimits /\ max_copy_bytes \in ByteLimits
      /\ pending = <<0>> /\ unseen = {} /\ file = None /\ files = 0 /\ copied = 0
      /\ made = {} /\ written = << >> /\ outcome = "copying"
  BY DEF Init
<1>2. DOMAIN written = {} /\ written = [n \in DOMAIN written |-> written[n]]
  BY <1>1
<1>3. TypeOK
  <2>1. pending \in Seq(0..MaxNodes)
    BY <1>1
  <2> QED
    BY <1>1, <1>2, <2>1 DEF TypeOK
<1>4. Waiting = {0}
  <2>1. DOMAIN pending = {1} /\ pending[1] = 0
    BY <1>1
  <2> QED
    BY <2>1 DEF Waiting, Range
<1>5. TreeInv
  BY <1>1 DEF TreeInv
<1>6. PlacedInv
  BY <1>1, <1>2, <1>4 DEF PlacedInv
<1>7. OnceInv
  <2>1. DOMAIN pending = {1}
    BY <1>1
  <2> QED
    BY <1>1, <2>1 DEF OnceInv
<1>8. CompleteInv
  BY <1>1, <1>4 DEF CompleteInv
<1>9. CountInv
  <2>1. Cardinality(DOMAIN written) = 0
    BY <1>2, FS_EmptySet
  <2>2. SumFunction(written) = 0
    <3>1. IsFiniteSet(DOMAIN written)
      BY <1>2, FS_EmptySet
    <3>2. SumFunctionOnSet(written, DOMAIN written) = 0
      BY <1>2, <3>1, SumUnfold
    <3> QED
      BY <3>2 DEF SumFunction
  <2>3. max_files \in Nat /\ max_copy_bytes \in Nat
    BY <1>1
  <2> QED
    BY <1>1, <1>2, <2>1, <2>2, <2>3 DEF CountInv
<1>10. OutcomeIsOfTheTree
  BY <1>1 DEF OutcomeIsOfTheTree
<1> QED
  BY <1>3, <1>5, <1>6, <1>7, <1>8, <1>9, <1>10 DEF CopyInv

LEMMA CopyNext ==
  ASSUME CopyInv, [Next]_vars
  PROVE  CopyInv'
<1>1. CASE OpenDirectory
  BY <1>1, OpenDirectoryKeeps
<1>2. ASSUME NEW e \in Nodes, TakeEntry(e) PROVE CopyInv'
  <2>1. CASE Skip(e)
    BY <2>1, SkipKeeps
  <2>2. CASE RefuseLink(e)
    BY <2>2, RefuseLinkKeeps
  <2>3. CASE RefuseSpecial(e)
    BY <2>3, RefuseSpecialKeeps
  <2>4. CASE QueueDirectory(e)
    BY <2>4, QueueDirectoryKeeps
  <2>5. CASE OpenFile(e)
    BY <2>5, OpenFileKeeps
  <2>6. CASE TooManyFiles(e)
    BY <2>6, TooManyFilesKeeps
  <2> QED
    BY <1>2, <2>1, <2>2, <2>3, <2>4, <2>5, <2>6 DEF TakeEntry
<1>3. CASE CopyBlock
  BY <1>3, CopyBlockKeeps
<1>4. CASE TooManyBytes
  BY <1>4, TooManyBytesKeeps
<1>5. CASE CloseFile
  BY <1>5, CloseFileKeeps
<1>6. CASE Complete
  BY <1>6, CompleteKeeps
<1>7. CASE Fails
  BY <1>7, FailsKeeps
<1>8. CASE UNCHANGED vars
  BY <1>8, CopyStutters
<1> QED
  BY <1>1, <1>2, <1>3, <1>4, <1>5, <1>6, <1>7, <1>8 DEF Next, Step, Ended

LEMMA CopyInvariant == Spec => []CopyInv
<1>1. Init => CopyInv
  BY CopyInit
<1>2. CopyInv /\ [Next]_vars => CopyInv'
  BY CopyNext
<1> QED
  BY <1>1, <1>2, PTL DEF Spec

(* Every variable of _copy_tree keeps its type.                            *)
THEOREM CopyTypeCorrect == Spec => []TypeOK
<1>1. CopyInv => TypeOK
  BY DEF CopyInv
<1> QED
  BY <1>1, CopyInvariant, PTL

(* A copy never holds more files or bytes than WorkspaceOptions allows, nor *)
(* anything excluded, special or outside a directory it has made.          *)
THEOREM CopyStaysWithinLimits == Spec => []StaysWithinLimits
<1>1. CopyInv => StaysWithinLimits
  <2> SUFFICES ASSUME CopyInv PROVE StaysWithinLimits
    OBVIOUS
  <2>1. TypeOK /\ PlacedInv /\ CountInv
    BY DEF CopyInv
  <2>2. \A n \in DOMAIN written : n # 0
    <3>1. DOMAIN written \subseteq Nodes
      BY <2>1 DEF TypeOK
    <3> QED
      BY <3>1 DEF Nodes
  <2> QED
    BY <2>1, <2>2 DEF PlacedInv, CountInv, StaysWithinLimits
<1> QED
  BY <1>1, CopyInvariant, PTL

(* Whichever order os.scandir lists in, a copy that ends is complete, and  *)
(* one that is refused is refused for what the tree holds.                 *)
THEOREM CopyOutcomeIsOfTheTree == Spec => []OutcomeIsOfTheTree
<1>1. CopyInv => OutcomeIsOfTheTree
  BY DEF CopyInv
<1> QED
  BY <1>1, CopyInvariant, PTL
=============================================================================
