-------------------------- MODULE Persistence_proofs --------------------------
(***************************************************************************)
(* Proofs about Persistence: its parts for any number of requests, rows,   *)
(* workers, cleaners, clients and managers, and any length of time.        *)
(***************************************************************************)
EXTENDS Persistence, FiniteSetTheorems, SequenceTheorems,
        WellFoundedInduction, TLAPS

-----------------------------------------------------------------------------
(* Sums.  SumFunctionOnSet(g, S) is the sum of the g[x] for the x in a     *)
(* finite set S: it does not depend on the order in which the elements are *)
(* taken, and changes with the set and with the function as a sum does.    *)
(* The operator is defined by recursion over the subsets of S; induction   *)
(* is by a smallest subset for which a claim would fail.                   *)

LEMMA LeastNumber ==
    ASSUME NEW T \in SUBSET Nat, T # {}
    PROVE  \E n \in T : \A m \in T : n <= m
<1>1. IsWellFoundedOn(OpToRel(<, Nat), Nat)
  BY NatLessThanWellFounded
<1>2. PICK n \in T : \A m \in T : ~(<<m, n>> \in OpToRel(<, Nat))
  BY <1>1, WFMin
<1>3. \A m \in T : ~(m < n)
  BY <1>2 DEF OpToRel
<1>. QED BY <1>3

\* A set of subsets of a finite set has a smallest member.
LEMMA SmallestSet ==
    ASSUME NEW S, IsFiniteSet(S), NEW B \in SUBSET (SUBSET S), B # {}
    PROVE  \E T \in B : \A U \in B : U \subseteq T => U = T
<1>1. \A T \in B : IsFiniteSet(T) /\ Cardinality(T) \in Nat
  BY FS_Subset, FS_CardinalityType
<1>2. PICK n \in {Cardinality(T) : T \in B} : \A m \in {Cardinality(T) : T \in B} : n <= m
  <2>1. {Cardinality(T) : T \in B} \in SUBSET Nat /\ {Cardinality(T) : T \in B} # {}
    BY <1>1
  <2>. QED BY <2>1, LeastNumber
<1>3. PICK T \in B : Cardinality(T) = n
  BY <1>2
<1>4. ASSUME NEW U \in B, U \subseteq T PROVE U = T
  <2>1. Cardinality(U) <= Cardinality(T) /\ (Cardinality(T) = Cardinality(U) => T = U)
    BY <1>1, <1>4, FS_Subset
  <2>2. Cardinality(T) <= Cardinality(U)
    BY <1>2, <1>3
  <2>. QED BY <1>1, <2>1, <2>2
<1>. QED BY <1>4

-----------------------------------------------------------------------------
(* The recursive function behind the sum                                   *)

Pick(s) == CHOOSE x \in s : TRUE

IsSum(g, h, S) ==
    h = [s \in SUBSET S |-> IF s = {} THEN 0 ELSE g[Pick(s)] + h[s \ {Pick(s)}]]

LEMMA PickIn == ASSUME NEW s, s # {} PROVE Pick(s) \in s
BY DEF Pick

LEMMA SumIsSum ==
    ASSUME NEW g, NEW S
    PROVE  SumFunctionOnSet(g, S) = (CHOOSE h : IsSum(g, h, S))[S]
BY Zenon DEF SumFunctionOnSet, FoldFunctionOnSet, MapThenFoldSet, IsSum, Pick

LEMMA SumUnfolds ==
    ASSUME NEW g, NEW S, NEW h, IsSum(g, h, S), NEW s \in SUBSET S
    PROVE  h[s] = IF s = {} THEN 0 ELSE g[Pick(s)] + h[s \ {Pick(s)}]
<1>1. h = [t \in SUBSET S |-> IF t = {} THEN 0 ELSE g[Pick(t)] + h[t \ {Pick(t)}]]
  BY DEF IsSum
<1>. QED BY <1>1, Zenon

\* Two such functions agree where both are defined.
LEMMA SumUnique ==
    ASSUME NEW g, NEW S, NEW h, IsSum(g, h, S), NEW V, NEW k, IsSum(g, k, V),
           IsFiniteSet(S), NEW s, s \subseteq S, s \subseteq V
    PROVE  h[s] = k[s]
<1>. DEFINE B == {t \in SUBSET s : h[t] # k[t]}
<1>1. CASE B = {}
  BY <1>1
<1>2. CASE B # {}
  <2>1. IsFiniteSet(s)
    BY FS_Subset
  <2>2. PICK T \in B : \A U \in B : U \subseteq T => U = T
    <3>1. B \in SUBSET (SUBSET s)
      OBVIOUS
    <3>. HIDE DEF B
    <3>. QED BY <1>2, <2>1, <3>1, SmallestSet
  <2>3. T # {}
    <3>1. {} \in SUBSET S /\ {} \in SUBSET V
      OBVIOUS
    <3>2. h[{}] = 0 /\ k[{}] = 0
      BY <3>1, SumUnfolds
    <3>. QED BY <3>2
  <2>4. Pick(T) \in T
    BY <2>3, PickIn
  <2>5. T \in SUBSET S /\ T \in SUBSET V
    OBVIOUS
  <2>6. /\ h[T] = g[Pick(T)] + h[T \ {Pick(T)}]
        /\ k[T] = g[Pick(T)] + k[T \ {Pick(T)}]
    BY <2>3, <2>5, SumUnfolds
  <2>7. T \ {Pick(T)} \in SUBSET s /\ T \ {Pick(T)} # T
    BY <2>4
  <2>8. h[T \ {Pick(T)}] = k[T \ {Pick(T)}]
    BY <2>2, <2>7
  <2>. QED BY <2>6, <2>8
<1>. QED BY <1>1, <1>2

\* There is one for every finite set.
LEMMA SumExists ==
    ASSUME NEW g, NEW S, IsFiniteSet(S)
    PROVE  \E h : IsSum(g, h, S)
<1>. DEFINE B == {t \in SUBSET S : ~ \E h : IsSum(g, h, t)}
<1>1. CASE B = {}
  BY <1>1
<1>2. CASE B # {}
  <2>1. PICK T \in B : \A U \in B : U \subseteq T => U = T
    <3>1. B \in SUBSET (SUBSET S)
      OBVIOUS
    <3>. HIDE DEF B
    <3>. QED BY <1>2, <3>1, SmallestSet
  <2>. DEFINE F(t) == CHOOSE h : IsSum(g, h, t)
              Rest(t) == t \ {Pick(t)}
              k == [t \in SUBSET T |->
                      IF t = {} THEN 0 ELSE g[Pick(t)] + F(Rest(t))[Rest(t)]]
  <2>2. \A t \in SUBSET T : t # T => \E h : IsSum(g, h, t)
    BY <2>1
  <2>3. \A t \in SUBSET T : t # T => IsSum(g, F(t), t)
    BY <2>2
  <2>4. ASSUME NEW t \in SUBSET T, t # {}
        PROVE  /\ Rest(t) \in SUBSET T /\ Rest(t) # T
               /\ IsSum(g, F(Rest(t)), Rest(t)) /\ IsFiniteSet(Rest(t))
    <3>1. Pick(t) \in t
      BY <2>4, PickIn
    <3>2. Rest(t) \in SUBSET T /\ Rest(t) # T
      BY <3>1
    <3>3. IsFiniteSet(Rest(t))
      <4>1. Rest(t) \in SUBSET S
        BY <3>2
      <4>. QED BY <4>1, FS_Subset
    <3>. QED BY <2>3, <3>2, <3>3
  <2>5. ASSUME NEW t \in SUBSET T, t # T
        PROVE  k[t] = F(t)[t]
    <3>1. IsSum(g, F(t), t) /\ t \in SUBSET t
      BY <2>3, <2>5
    <3>2. F(t)[t] = IF t = {} THEN 0 ELSE g[Pick(t)] + F(t)[t \ {Pick(t)}]
      BY <3>1, SumUnfolds
    <3>3. k[t] = IF t = {} THEN 0 ELSE g[Pick(t)] + F(Rest(t))[Rest(t)]
      OBVIOUS
    <3>4. CASE t = {}
      BY <3>2, <3>3, <3>4
    <3>5. CASE t # {}
      <4>1. F(Rest(t))[Rest(t)] = F(t)[Rest(t)]
        <5>1. IsSum(g, F(Rest(t)), Rest(t)) /\ IsFiniteSet(Rest(t))
          BY <2>4, <3>5
        <5>2. Rest(t) \subseteq Rest(t) /\ Rest(t) \subseteq t
          OBVIOUS
        <5>. HIDE DEF F, Rest, k
        <5>. QED BY <3>1, <5>1, <5>2, SumUnique
      <4>. QED BY <3>2, <3>3, <3>5, <4>1
    <3>. QED BY <3>4, <3>5
  <2>6. IsSum(g, k, T)
    <3>1. ASSUME NEW t \in SUBSET T
          PROVE  (IF t = {} THEN 0 ELSE g[Pick(t)] + F(Rest(t))[Rest(t)])
                   = (IF t = {} THEN 0 ELSE g[Pick(t)] + k[t \ {Pick(t)}])
      <4>1. CASE t # {}
        <5>1. k[Rest(t)] = F(Rest(t))[Rest(t)]
          BY <2>4, <2>5, <4>1
        <5>. HIDE DEF F, k
        <5>. QED BY <5>1
      <4>. QED BY <4>1
    <3>. HIDE DEF F, Rest
    <3>2. k = [t \in SUBSET T |-> IF t = {} THEN 0 ELSE g[Pick(t)] + k[t \ {Pick(t)}]]
      BY <3>1
    <3>. QED BY <3>2 DEF IsSum
  <2>. QED BY <2>1, <2>6
<1>. QED BY <1>1, <1>2

LEMMA SumBody ==
    ASSUME NEW g, NEW S, IsFiniteSet(S)
    PROVE  \E h : IsSum(g, h, S) /\ SumFunctionOnSet(g, S) = h[S]
<1>1. IsSum(g, CHOOSE h : IsSum(g, h, S), S)
  BY SumExists
<1>. QED BY <1>1, SumIsSum

-----------------------------------------------------------------------------
(* The sum                                                                 *)

LEMMA SumEmpty == ASSUME NEW g PROVE SumFunctionOnSet(g, {}) = 0
<1>1. PICK h : IsSum(g, h, {}) /\ SumFunctionOnSet(g, {}) = h[{}]
  BY SumBody, FS_EmptySet
<1>2. {} \in SUBSET {}
  OBVIOUS
<1>. QED BY <1>1, <1>2, SumUnfolds

\* One step of the recursion.
LEMMA SumPick ==
    ASSUME NEW g, NEW S, IsFiniteSet(S), S # {}
    PROVE  /\ Pick(S) \in S
           /\ SumFunctionOnSet(g, S) = g[Pick(S)] + SumFunctionOnSet(g, S \ {Pick(S)})
<1>. DEFINE R == S \ {Pick(S)}
<1>1. Pick(S) \in S
  BY PickIn
<1>2. R \subseteq S /\ IsFiniteSet(R)
  <2>1. R \in SUBSET S
    OBVIOUS
  <2>. QED BY <2>1, FS_Subset
<1>3. PICK h : IsSum(g, h, S) /\ SumFunctionOnSet(g, S) = h[S]
  BY SumBody
<1>4. PICK k : IsSum(g, k, R) /\ SumFunctionOnSet(g, R) = k[R]
  <2>. HIDE DEF R
  <2>. QED BY <1>2, SumBody
<1>5. h[S] = g[Pick(S)] + h[R]
  <2>1. S \in SUBSET S
    OBVIOUS
  <2>. QED BY <1>3, <2>1, SumUnfolds
<1>6. h[R] = k[R]
  <2>1. R \subseteq R
    OBVIOUS
  <2>. HIDE DEF R
  <2>. QED BY <1>2, <1>3, <1>4, <2>1, SumUnique
<1>. QED BY <1>1, <1>3, <1>4, <1>5, <1>6

LEMMA SumInt ==
    ASSUME NEW g, NEW S, IsFiniteSet(S), \A x \in S : g[x] \in Int
    PROVE  SumFunctionOnSet(g, S) \in Int
<1>. DEFINE B == {t \in SUBSET S : SumFunctionOnSet(g, t) \notin Int}
<1>1. CASE B = {}
  BY <1>1
<1>2. CASE B # {}
  <2>1. PICK T \in B : \A U \in B : U \subseteq T => U = T
    <3>1. B \in SUBSET (SUBSET S)
      OBVIOUS
    <3>. HIDE DEF B
    <3>. QED BY <1>2, <3>1, SmallestSet
  <2>2. T # {}
    BY SumEmpty
  <2>3. T \in SUBSET S /\ IsFiniteSet(T)
    BY FS_Subset
  <2>4. /\ Pick(T) \in T
        /\ SumFunctionOnSet(g, T) = g[Pick(T)] + SumFunctionOnSet(g, T \ {Pick(T)})
    BY <2>2, <2>3, SumPick
  <2>5. SumFunctionOnSet(g, T \ {Pick(T)}) \in Int
    <3>1. T \ {Pick(T)} \in SUBSET S /\ T \ {Pick(T)} \subseteq T /\ T \ {Pick(T)} # T
      BY <2>4
    <3>. QED BY <2>1, <3>1
  <2>6. SumFunctionOnSet(g, T) \in Int
    BY <2>3, <2>4, <2>5
  <2>. QED BY <2>6
<1>. QED BY <1>1, <1>2

\* Any element may be taken first.
LEMMA SumElement ==
    ASSUME NEW g, NEW S, IsFiniteSet(S), \A x \in S : g[x] \in Int, NEW e \in S
    PROVE  SumFunctionOnSet(g, S) = g[e] + SumFunctionOnSet(g, S \ {e})
<1>. DEFINE B == {t \in SUBSET S : \E x \in t :
                    SumFunctionOnSet(g, t) # g[x] + SumFunctionOnSet(g, t \ {x})}
<1>1. CASE B = {}
  <2>1. S \notin B /\ S \in SUBSET S
    BY <1>1
  <2>. QED BY <2>1
<1>2. CASE B # {}
  <2>1. PICK T \in B : \A U \in B : U \subseteq T => U = T
    <3>1. B \in SUBSET (SUBSET S)
      OBVIOUS
    <3>. HIDE DEF B
    <3>. QED BY <1>2, <3>1, SmallestSet
  <2>2. PICK x \in T : SumFunctionOnSet(g, T) # g[x] + SumFunctionOnSet(g, T \ {x})
    OBVIOUS
  <2>3. T \in SUBSET S /\ IsFiniteSet(T)
    BY FS_Subset
  <2>4. PICK c \in T : SumFunctionOnSet(g, T) = g[c] + SumFunctionOnSet(g, T \ {c})
    BY <2>2, <2>3, SumPick
  <2>5. c # x
    BY <2>2, <2>4
  <2>6. ASSUME NEW y \in T, NEW z \in T, y # z
        PROVE  SumFunctionOnSet(g, T \ {y})
                 = g[z] + SumFunctionOnSet(g, (T \ {y}) \ {z})
    <3>1. T \ {y} \in SUBSET S /\ T \ {y} \subseteq T /\ T \ {y} # T /\ z \in T \ {y}
      BY <2>3, <2>6
    <3>2. T \ {y} \notin B
      BY <2>1, <3>1
    <3>. QED BY <3>1, <3>2
  <2>7. SumFunctionOnSet(g, T \ {c}) = g[x] + SumFunctionOnSet(g, (T \ {c}) \ {x})
    BY <2>5, <2>6
  <2>8. SumFunctionOnSet(g, T \ {x}) = g[c] + SumFunctionOnSet(g, (T \ {x}) \ {c})
    BY <2>5, <2>6
  <2>9. (T \ {c}) \ {x} = (T \ {x}) \ {c}
    OBVIOUS
  <2>10. SumFunctionOnSet(g, (T \ {x}) \ {c}) \in Int
    <3>1. (T \ {x}) \ {c} \in SUBSET S
      BY <2>3
    <3>2. IsFiniteSet((T \ {x}) \ {c})
      BY <3>1, FS_Subset
    <3>3. \A y \in (T \ {x}) \ {c} : g[y] \in Int
      BY <3>1
    <3>. QED BY <3>2, <3>3, SumInt
  <2>11. PICK n \in Int : n = SumFunctionOnSet(g, (T \ {x}) \ {c})
    BY <2>10
  <2>12. /\ SumFunctionOnSet(g, T) = g[c] + (g[x] + n)
         /\ SumFunctionOnSet(g, T \ {x}) = g[c] + n
    BY <2>4, <2>7, <2>8, <2>9, <2>11
  <2>13. g[c] \in Int /\ g[x] \in Int
    BY <2>3
  <2>14. g[c] + (g[x] + n) = g[x] + (g[c] + n)
    BY <2>13
  <2>. QED BY <2>2, <2>12, <2>14
<1>. QED BY <1>1, <1>2

\* Functions that agree on a set have the same sum over it.
LEMMA SumCongruent ==
    ASSUME NEW g, NEW f, NEW S, IsFiniteSet(S), \A x \in S : g[x] = f[x]
    PROVE  SumFunctionOnSet(g, S) = SumFunctionOnSet(f, S)
<1>. DEFINE B == {t \in SUBSET S : SumFunctionOnSet(g, t) # SumFunctionOnSet(f, t)}
<1>1. CASE B = {}
  BY <1>1
<1>2. CASE B # {}
  <2>1. PICK T \in B : \A U \in B : U \subseteq T => U = T
    <3>1. B \in SUBSET (SUBSET S)
      OBVIOUS
    <3>. HIDE DEF B
    <3>. QED BY <1>2, <3>1, SmallestSet
  <2>2. T # {}
    BY SumEmpty
  <2>3. T \in SUBSET S /\ IsFiniteSet(T)
    BY FS_Subset
  <2>4. /\ Pick(T) \in T
        /\ SumFunctionOnSet(g, T) = g[Pick(T)] + SumFunctionOnSet(g, T \ {Pick(T)})
        /\ SumFunctionOnSet(f, T) = f[Pick(T)] + SumFunctionOnSet(f, T \ {Pick(T)})
    BY <2>2, <2>3, SumPick
  <2>5. SumFunctionOnSet(g, T \ {Pick(T)}) = SumFunctionOnSet(f, T \ {Pick(T)})
    <3>1. T \ {Pick(T)} \in SUBSET S /\ T \ {Pick(T)} \subseteq T /\ T \ {Pick(T)} # T
      BY <2>4
    <3>. QED BY <2>1, <3>1
  <2>6. g[Pick(T)] = f[Pick(T)]
    BY <2>3, <2>4
  <2>. QED BY <2>4, <2>5, <2>6
<1>. QED BY <1>1, <1>2

\* A function that changes at one element only.
LEMMA SumChange ==
    ASSUME NEW g, NEW f, NEW S, IsFiniteSet(S), NEW e \in S,
           \A x \in S : g[x] \in Int /\ f[x] \in Int,
           \A x \in S \ {e} : g[x] = f[x]
    PROVE  SumFunctionOnSet(f, S) = SumFunctionOnSet(g, S) + (f[e] - g[e])
<1>1. S \ {e} \in SUBSET S /\ IsFiniteSet(S \ {e})
  BY FS_RemoveElement
<1>2. SumFunctionOnSet(g, S \ {e}) = SumFunctionOnSet(f, S \ {e})
  BY <1>1, SumCongruent
<1>3. /\ SumFunctionOnSet(g, S) = g[e] + SumFunctionOnSet(g, S \ {e})
      /\ SumFunctionOnSet(f, S) = f[e] + SumFunctionOnSet(f, S \ {e})
  BY SumElement
<1>4. SumFunctionOnSet(f, S \ {e}) \in Int
  BY <1>1, SumInt
<1>5. PICK n \in Int : n = SumFunctionOnSet(f, S \ {e})
  BY <1>4
<1>6. SumFunctionOnSet(g, S) = g[e] + n /\ SumFunctionOnSet(f, S) = f[e] + n
  BY <1>2, <1>3, <1>5
<1>7. g[e] \in Int /\ f[e] \in Int
  OBVIOUS
<1>. QED BY <1>6, <1>7

\* A set that grows by one element.
LEMMA SumAdd ==
    ASSUME NEW g, NEW f, NEW S, IsFiniteSet(S), NEW e, e \notin S,
           \A x \in S \union {e} : f[x] \in Int,
           \A x \in S : g[x] = f[x]
    PROVE  SumFunctionOnSet(f, S \union {e}) = SumFunctionOnSet(g, S) + f[e]
<1>1. IsFiniteSet(S \union {e}) /\ e \in S \union {e} /\ (S \union {e}) \ {e} = S
  BY FS_AddElement
<1>2. SumFunctionOnSet(f, S \union {e}) = f[e] + SumFunctionOnSet(f, S)
  BY <1>1, SumElement
<1>3. SumFunctionOnSet(f, S) = SumFunctionOnSet(g, S)
  BY SumCongruent
<1>4. SumFunctionOnSet(f, S) \in Int
  BY SumInt
<1>5. f[e] \in Int
  OBVIOUS
<1>. QED BY <1>2, <1>3, <1>4, <1>5

\* A sum of naturals over fewer elements is no larger.
LEMMA SumSubset ==
    ASSUME NEW g, NEW S, IsFiniteSet(S), \A x \in S : g[x] \in Nat, NEW T \in SUBSET S
    PROVE  SumFunctionOnSet(g, T) <= SumFunctionOnSet(g, S)
<1>. DEFINE B == {U \in SUBSET S : T \subseteq U
                                   /\ ~(SumFunctionOnSet(g, T) <= SumFunctionOnSet(g, U))}
<1>1. \A U \in SUBSET S : IsFiniteSet(U) /\ SumFunctionOnSet(g, U) \in Int
  <2>. SUFFICES ASSUME NEW U \in SUBSET S
                PROVE  IsFiniteSet(U) /\ SumFunctionOnSet(g, U) \in Int
    OBVIOUS
  <2>1. IsFiniteSet(U)
    BY FS_Subset
  <2>. QED BY <2>1, SumInt
<1>2. CASE B = {}
  BY <1>2
<1>3. CASE B # {}
  <2>1. PICK U \in B : \A V \in B : V \subseteq U => V = U
    <3>1. B \in SUBSET (SUBSET S)
      OBVIOUS
    <3>. HIDE DEF B
    <3>. QED BY <1>3, <3>1, SmallestSet
  <2>2. U # T
    BY <1>1
  <2>3. PICK e \in U : e \notin T
    BY <2>2
  <2>4. SumFunctionOnSet(g, U) = g[e] + SumFunctionOnSet(g, U \ {e})
    <3>1. IsFiniteSet(U) /\ \A x \in U : g[x] \in Int
      BY <1>1
    <3>. QED BY <2>3, <3>1, SumElement
  <2>5. U \ {e} \notin B /\ U \ {e} \in SUBSET S /\ T \subseteq U \ {e}
    BY <2>1, <2>3
  <2>6. SumFunctionOnSet(g, T) <= SumFunctionOnSet(g, U \ {e})
    BY <2>5
  <2>7. g[e] \in Nat
    OBVIOUS
  <2>8. SumFunctionOnSet(g, T) <= SumFunctionOnSet(g, U)
    BY <1>1, <2>4, <2>5, <2>6, <2>7
  <2>. QED BY <2>8
<1>. QED BY <1>2, <1>3

-----------------------------------------------------------------------------
(* The request log: steps and types                                        *)

Overlap == part = "cleanups overlap"

LEMMA LogSteps ==
    ASSUME [PersistenceNext]_persistenceVars
    PROVE  /\ part' = part
           /\ \/ UNCHANGED logVars
              \/ \E w \in LogWorkers, toFile \in BOOLEAN : LogWorker(w, toFile)
              \/ /\ part \in {"retention", "cleanups overlap"}
                 /\ \E c \in Cleaners :
                      /\ part = "retention" => \A d \in Cleaners \ {c} : writer[d].pc = "idle"
                      /\ Cleaner(c)
              \/ LogTick \/ DeleteConfigLogs \/ LogCrash
<1>1. CASE UNCHANGED persistenceVars
  BY <1>1 DEF persistenceVars
<1>2. CASE Logging
  BY <1>2 DEF Logging
<1>3. CASE Retention
  <2>1. (CHOOSE w \in LogWorkers : TRUE) \in LogWorkers
    BY LogStoreAssumption
  <2>. QED BY <1>3, <2>1 DEF Retention
<1>4. CASE Keyed \/ Conversing \/ Alerting \/ Summing
  BY <1>4 DEF Keyed, Conversing, Alerting, Summing
<1>. QED BY <1>1, <1>2, <1>3, <1>4 DEF PersistenceNext

Pcs  == {"idle", "store", "write", "point", "stats", "count", "directories",
         "quota", "select", "migrate"}
Jobs == [pc : Pcs, log : LogIds \union {Nothing}, todo : SUBSET Kinds,
         moved : SUBSET Kinds, dir : Nat, stat : Nat, rows : SUBSET (LogIds \X Nat)]
Bodies  == [inline : BOOLEAN, path : Nat \union {Null, Empty}]
LogRows == [created : Nat, body : [Kinds -> Bodies]]

LogTypes ==
    /\ tick \in Nat /\ tick >= FirstTick /\ logFaults \in Nat
    /\ logRow \in [LogIds -> LogRows \union {Nothing}]
    /\ writer \in [LogWorkers \union Cleaners -> Jobs]
    /\ tokenStats \in Seq([day : Nat, requests : Nat])
    /\ logged \subseteq LogIds

\* The first day whose directory can have the files of a row created at t.
Earliest(t) == (t - Behind) \div 2

LEMMA DayGrows ==
    /\ \A t \in Nat : Day(t) \in Nat /\ Earliest(t) \in Int /\ Earliest(t) <= Day(t)
    /\ \A s, t \in Nat : s <= t => Day(s) <= Day(t)
    /\ \A t \in Nat : t <= MaxTick => Day(t) \in Days
    /\ \A t \in Nat : FirstTick <= t /\ t <= MaxTick =>
         LocalDay(t) \in Days /\ Earliest(t) <= LocalDay(t)
    /\ Days \subseteq Nat
<1>1. Zone \in {-1, 0, 1} /\ MaxTick \in Nat
  BY LogStoreAssumption
<1>2. Behind = IF Zone = -1 THEN 1 ELSE 0
  BY <1>1 DEF Behind
<1>3. ASSUME NEW t \in Nat
      PROVE  /\ Day(t) \in Nat /\ Earliest(t) \in Int /\ Earliest(t) <= Day(t)
             /\ t <= MaxTick => Day(t) \in Days
  BY <1>1, <1>2 DEF Day, Days, Earliest
<1>4. ASSUME NEW s \in Nat, NEW t \in Nat, s <= t PROVE Day(s) <= Day(t)
  BY <1>4 DEF Day
<1>5. ASSUME NEW t \in Nat, 2 <= t, t <= MaxTick
      PROVE  LocalDay(t) \in Days /\ Earliest(t) <= LocalDay(t)
  <2>1. CASE Zone = -1
    BY <1>1, <1>2, <1>5, <2>1 DEF LocalDay, Day, Days, Earliest
  <2>2. CASE Zone = 0
    BY <1>1, <1>2, <1>5, <2>2 DEF LocalDay, Day, Days, Earliest
  <2>3. CASE Zone = 1
    BY <1>1, <1>2, <1>5, <2>3 DEF LocalDay, Day, Days, Earliest
  <2>. QED BY <1>1, <2>1, <2>2, <2>3
<1>6. Days \subseteq Nat
  BY DEF Days, Day
<1>. QED BY <1>3, <1>4, <1>5, <1>6 DEF FirstTick

LEMMA LocalDays == \A t \in Nat : t >= FirstTick => LocalDay(t) \in Nat
<1>1. Zone \in {-1, 0, 1}
  BY LogStoreAssumption
<1>. QED BY <1>1 DEF LocalDay, FirstTick

LEMMA IdlingJob == Idling \in Jobs /\ Idling.pc = "idle"
BY DEF Idling, Jobs, Pcs

LEMMA NextKindIn ==
    ASSUME NEW todo \in SUBSET Kinds, todo # {}
    PROVE  NextKind(todo) \in todo
BY LogStoreAssumption DEF NextKind

\* The steps of a goroutine u other than its statistics.
LEMMA GoesTypes ==
    ASSUME LogTypes, NEW u \in LogWorkers \union Cleaners, NEW pc \in Pcs,
           writer' = [writer EXCEPT ![u].pc = pc]
    PROVE  writer' \in [LogWorkers \union Cleaners -> Jobs]
<1>1. writer[u] \in Jobs
  BY DEF LogTypes
<1>2. [writer[u] EXCEPT !.pc = pc] \in Jobs
  BY <1>1 DEF Jobs
<1>. QED BY <1>2 DEF LogTypes

LEMMA FaultTypes == ASSUME LogTypes, LogFault \/ UNCHANGED logFaults PROVE logFaults' \in Nat
BY DEF LogTypes, LogFault

LEMMA StoreTypes ==
    ASSUME LogTypes, NEW u \in LogWorkers \union Cleaners,
           CreateFile(u) \/ WriteFile(u) \/ BodiesDone(u)
    PROVE  LogTypes'
<1>. DEFINE W == [LogWorkers \union Cleaners -> Jobs]
<1>1. logFaults' \in Nat
  BY FaultTypes DEF CreateFile, WriteFile, BodiesDone
<1>2. UNCHANGED <<tick, logRow, tokenStats, logged>>
  BY DEF CreateFile, WriteFile, BodiesDone
<1>3. writer \in W /\ writer[u] \in Jobs
  BY DEF LogTypes
<1>4. CASE CreateFile(u)
  <2>1. PICK k : \/ writer' = [writer EXCEPT ![u].pc = "write"]
                 \/ writer' = [writer EXCEPT ![u].todo = @ \ {k}]
    BY <1>4 DEF CreateFile, Goes
  <2>2. /\ [writer[u] EXCEPT !.pc = "write"] \in Jobs
        /\ [writer[u] EXCEPT !.todo = writer[u].todo \ {k}] \in Jobs
    BY <1>3 DEF Jobs, Pcs
  <2>3. \/ writer' = [writer EXCEPT ![u] = [writer[u] EXCEPT !.pc = "write"]]
        \/ writer' = [writer EXCEPT ![u] = [writer[u] EXCEPT !.todo = writer[u].todo \ {k}]]
    BY <2>1
  <2>4. writer' \in W
    BY <1>3, <2>2, <2>3
  <2>. QED BY <1>1, <1>2, <2>4 DEF LogTypes
<1>5. CASE WriteFile(u)
  <2>1. writer[u].todo \ {File(u)[2]} \in SUBSET Kinds
    BY <1>3 DEF Jobs
  <2>2. File(u)[2] \in Kinds
    BY LogStoreAssumption DEF File, NextKind
  <2>3. PICK pc \in Pcs, rest \in SUBSET Kinds :
           \/ writer' = [writer EXCEPT ![u].todo = rest, ![u].moved = @ \cup {File(u)[2]},
                           ![u].pc = pc]
           \/ writer' = [writer EXCEPT ![u].todo = rest, ![u].pc = pc]
    BY <1>5, <2>1 DEF WriteFile, Pcs
  <2>4. writer' \in W
    BY <1>3, <2>2, <2>3 DEF Jobs
  <2>. QED BY <1>1, <1>2, <2>4 DEF LogTypes
<1>6. CASE BodiesDone(u)
  <2>1. PICK pc \in Pcs :
           \/ writer' = [writer EXCEPT ![u].pc = pc]
           \/ writer' = [writer EXCEPT ![u].pc = pc, ![u].log = Nothing]
    BY <1>6 DEF BodiesDone, Pcs
  <2>2. writer' \in W
    BY <1>3, <2>1 DEF Jobs
  <2>. QED BY <1>1, <1>2, <2>2 DEF LogTypes
<1>. QED BY <1>4, <1>5, <1>6

\* What PointRow makes of the row.
LEMMA PointedRow ==
    ASSUME LogTypes, NEW u \in LogWorkers \union Cleaners, PointRow(u),
           logRow' # logRow
    PROVE  /\ writer[u].log \in LogIds /\ logRow[writer[u].log] \in LogRows
           /\ logRow[writer[u].log] # Nothing
           /\ logRow'[writer[u].log] \in LogRows
           /\ \A l \in LogIds : l # writer[u].log => logRow'[l] = logRow[l]
           /\ logRow'[writer[u].log].created = logRow[writer[u].log].created
           /\ \A k \in Kinds :
                logRow'[writer[u].log].body[k] =
                  IF k \in writer[u].moved THEN [inline |-> FALSE, path |-> writer[u].dir]
                  ELSE IF u \in Cleaners /\ logRow[writer[u].log].body[k].path = Null
                       THEN [logRow[writer[u].log].body[k] EXCEPT !.path = Empty]
                       ELSE logRow[writer[u].log].body[k]
           /\ logRow' \in [LogIds -> LogRows \union {Nothing}]
<1>. DEFINE l == writer[u].log
            moved == writer[u].moved
            Pointed(k, b) == IF k \in moved THEN [inline |-> FALSE, path |-> writer[u].dir]
                             ELSE IF u \in Cleaners /\ b.path = Null
                                  THEN [b EXCEPT !.path = Empty] ELSE b
            body == [k \in Kinds |-> Pointed(k, logRow[l].body[k])]
<1>1. /\ logRow' = [logRow EXCEPT ![l].body = [k \in Kinds |-> Pointed(k, @[k])]]
      /\ logRow[l] # Nothing
  BY DEF PointRow
<1>2. l \in LogIds
  <2>1. logRow \in [LogIds -> LogRows \union {Nothing}]
    BY DEF LogTypes
  <2>2. CASE l \notin LogIds
    BY <1>1, <2>1, <2>2
  <2>. QED BY <2>2
<1>3. logRow[l] \in LogRows
  BY <1>1, <1>2 DEF LogTypes
<1>4. \A k \in Kinds : Pointed(k, logRow[l].body[k]) \in Bodies
  <2>1. writer[u].dir \in Nat
    BY DEF LogTypes, Jobs
  <2>2. \A k \in Kinds : logRow[l].body[k] \in Bodies
    BY <1>3 DEF LogRows
  <2>. QED BY <2>1, <2>2 DEF Bodies
<1>5. body \in [Kinds -> Bodies]
  BY <1>4
<1>6. logRow' = [logRow EXCEPT ![l] = [logRow[l] EXCEPT !.body = body]]
  BY <1>1
<1>. HIDE DEF body
<1>7. [logRow[l] EXCEPT !.body = body] \in LogRows
  BY <1>3, <1>5 DEF LogRows
<1>8. [logRow[l] EXCEPT !.body = body].body = body
      /\ [logRow[l] EXCEPT !.body = body].created = logRow[l].created
  BY <1>3 DEF LogRows
<1>9. logRow'[l] = [logRow[l] EXCEPT !.body = body]
      /\ \A x \in LogIds : x # l => logRow'[x] = logRow[x]
  BY <1>2, <1>6 DEF LogTypes
<1>10. logRow' \in [LogIds -> LogRows \union {Nothing}]
  BY <1>6, <1>7 DEF LogTypes
<1>11. \A k \in Kinds : body[k] = Pointed(k, logRow[l].body[k])
  BY DEF body
<1>12. /\ logRow'[l] \in LogRows
       /\ logRow'[l].created = logRow[l].created
       /\ logRow'[l].body = body
  BY <1>7, <1>8, <1>9
<1>13. \A k \in Kinds : logRow'[l].body[k] = Pointed(k, logRow[l].body[k])
  BY <1>11, <1>12
<1>14. \A x \in LogIds : x # l => logRow'[x] = logRow[x]
  BY <1>9
<1>. QED BY <1>1, <1>2, <1>3, <1>10, <1>12, <1>13, <1>14

LEMMA PointTypes ==
    ASSUME LogTypes, NEW u \in LogWorkers \union Cleaners, PointRow(u)
    PROVE  LogTypes'
<1>1. logFaults' \in Nat
  BY FaultTypes DEF PointRow
<1>2. logRow' \in [LogIds -> LogRows \union {Nothing}]
  BY PointedRow DEF LogTypes
<1>3. writer' \in [LogWorkers \union Cleaners -> Jobs]
  <2>1. writer' = [writer EXCEPT ![u].pc = "store", ![u].moved = {}]
    BY DEF PointRow
  <2>2. writer' = [writer EXCEPT ![u] = [writer[u] EXCEPT !.pc = "store", !.moved = {}]]
    BY <2>1
  <2>3. writer[u] \in Jobs
    BY DEF LogTypes
  <2>4. [writer[u] EXCEPT !.pc = "store", !.moved = {}] \in Jobs
    BY <2>3 DEF Jobs, Pcs
  <2>. QED BY <2>2, <2>4 DEF LogTypes
<1>4. UNCHANGED <<tick, tokenStats, logged>>
  BY DEF PointRow
<1>. QED BY <1>1, <1>2, <1>3, <1>4 DEF LogTypes

LEMMA InsertTypes ==
    ASSUME LogTypes, NEW w \in LogWorkers, NEW l \in LogIds, NEW toFile \in BOOLEAN,
           InsertLog(w, l, toFile)
    PROVE  LogTypes'
<1>1. logFaults' \in Nat
  BY FaultTypes DEF InsertLog
<1>2. UNCHANGED <<tick, tokenStats>> /\ logged' \subseteq LogIds
  BY DEF InsertLog, LogTypes
<1>3. logRow' \in [LogIds -> LogRows \union {Nothing}]
  <2>. DEFINE row == [created |-> tick,
                      body |-> [k \in Kinds |-> [inline |-> TRUE, path |-> Empty]]]
  <2>1. row \in LogRows
    BY DEF LogTypes, LogRows, Bodies
  <2>2. logRow' = [logRow EXCEPT ![l] = row] \/ logRow' = logRow
    BY DEF InsertLog
  <2>. HIDE DEF row
  <2>. QED BY <2>1, <2>2 DEF LogTypes
<1>4. writer' \in [LogWorkers \union Cleaners -> Jobs]
  <2>. DEFINE added == [Idling EXCEPT !.log = l, !.todo = IF toFile THEN Kinds ELSE {},
                                      !.pc = IF toFile THEN "store" ELSE "stats",
                                      !.dir = LocalDay(tick)]
  <2>1. added \in Jobs
    BY LocalDays DEF Idling, Jobs, Pcs, LogTypes
  <2>2. writer' = [writer EXCEPT ![w] = added] \/ writer' = writer
    BY DEF InsertLog
  <2>. HIDE DEF added
  <2>. QED BY <2>1, <2>2 DEF LogTypes
<1>. QED BY <1>1, <1>2, <1>3, <1>4 DEF LogTypes

Stat == [day : Nat, requests : Nat]

LEMMA StatsTypes ==
    ASSUME LogTypes, NEW w \in LogWorkers, FindStats(w) \/ WriteStats(w)
    PROVE  LogTypes'
<1>1. logFaults' \in Nat
  BY FaultTypes DEF FindStats, WriteStats
<1>2. UNCHANGED <<tick, logRow, logged>>
  BY DEF FindStats, WriteStats
<1>3. tokenStats \in Seq(Stat) /\ DOMAIN tokenStats = 1 .. Len(tokenStats) /\ Len(tokenStats) \in Nat
  BY DEF LogTypes, Stat
<1>4. CASE FindStats(w)
  <2>1. PICK i \in Nat :
           \/ writer' = [writer EXCEPT ![w].pc = "count", ![w].stat = i]
           \/ writer' = [writer EXCEPT ![w] = Idling]
    <3>1. CASE LogFault /\ writer' = [writer EXCEPT ![w] = Idling]
      BY <3>1
    <3>2. CASE \E i \in DOMAIN tokenStats : writer' = [writer EXCEPT ![w].pc = "count", ![w].stat = i]
      <4>1. PICK i \in 1 .. Len(tokenStats) :
               writer' = [writer EXCEPT ![w].pc = "count", ![w].stat = i]
        BY <1>3, <3>2
      <4>2. i \in Nat
        BY <1>3
      <4>. QED BY <4>1, <4>2
    <3>3. CASE writer' = [writer EXCEPT ![w].pc = "count", ![w].stat = 0]
      BY <3>3
    <3>. QED BY <1>4, <3>1, <3>2, <3>3 DEF FindStats
  <2>2. [writer[w] EXCEPT !.pc = "count", !.stat = i] \in Jobs
    <3>1. writer[w] \in Jobs
      BY DEF LogTypes
    <3>. QED BY <3>1 DEF Jobs, Pcs
  <2>3. CASE writer' = [writer EXCEPT ![w].pc = "count", ![w].stat = i]
    <3>1. writer' = [writer EXCEPT ![w] = [writer[w] EXCEPT !.pc = "count", !.stat = i]]
      BY <2>3
    <3>. QED BY <1>1, <1>2, <1>4, <2>2, <3>1 DEF FindStats, LogTypes
  <2>4. CASE writer' = [writer EXCEPT ![w] = Idling]
    BY <1>1, <1>2, <1>4, <2>4, IdlingJob DEF FindStats, LogTypes
  <2>. QED BY <2>1, <2>3, <2>4
<1>5. CASE WriteStats(w)
  <2>1. writer' \in [LogWorkers \union Cleaners -> Jobs]
    BY <1>5, IdlingJob DEF WriteStats, LogTypes
  <2>2. tokenStats' \in Seq(Stat)
    <3>1. [day |-> Today, requests |-> 1] \in Stat
      BY DayGrows DEF Stat, Today, LogTypes
    <3>2. Append(tokenStats, [day |-> Today, requests |-> 1]) \in Seq(Stat)
      BY <1>3, <3>1
    <3>3. [tokenStats EXCEPT ![writer[w].stat].requests = @ + 1] \in Seq(Stat)
      <4>. DEFINE i == writer[w].stat
                  s == [tokenStats EXCEPT ![i].requests = @ + 1]
      <4>1. \A j \in 1 .. Len(tokenStats) : tokenStats[j] \in Stat
        BY <1>3
      <4>2. CASE i \in 1 .. Len(tokenStats)
        <5>1. tokenStats[i] \in Stat
          BY <4>1, <4>2
        <5>2. [tokenStats[i] EXCEPT !.requests = @ + 1] \in Stat
          BY <5>1 DEF Stat
        <5>3. s = [tokenStats EXCEPT ![i] = [tokenStats[i] EXCEPT !.requests = @ + 1]]
          OBVIOUS
        <5>. QED BY <1>3, <4>2, <5>2, <5>3, ExceptSeq
      <4>3. CASE i \notin 1 .. Len(tokenStats)
        <5>1. s = tokenStats
          BY <1>3, <4>3
        <5>. QED BY <1>3, <5>1
      <4>. QED BY <4>2, <4>3
    <3>. QED BY <1>3, <1>5, <3>2, <3>3 DEF WriteStats
  <2>. QED BY <1>1, <1>2, <2>1, <2>2 DEF LogTypes, Stat
<1>. QED BY <1>4, <1>5

LEMMA CleanTypes ==
    ASSUME LogTypes, NEW c \in Cleaners,
           \/ DeleteOldRequestLogs(c) \/ CleanOldDirectories(c) \/ DeleteOldestRequestLogs(c)
           \/ SelectInline(c) \/ MigrateRow(c)
    PROVE  LogTypes'
<1>1. logFaults' \in Nat
  BY FaultTypes DEF DeleteOldRequestLogs, CleanOldDirectories, DeleteOldestRequestLogs,
                    SelectInline, MigrateRow
<1>2. UNCHANGED <<tick, tokenStats, logged>>
  BY DEF DeleteOldRequestLogs, CleanOldDirectories, DeleteOldestRequestLogs,
         SelectInline, MigrateRow
<1>3. writer[c] \in Jobs
  BY DEF LogTypes
<1>4. CASE DeleteOldRequestLogs(c) \/ CleanOldDirectories(c) \/ DeleteOldestRequestLogs(c)
  <2>1. PICK pc \in Pcs : writer' = [writer EXCEPT ![c].pc = pc]
    BY <1>4 DEF DeleteOldRequestLogs, CleanOldDirectories, DeleteOldestRequestLogs, Goes, Pcs
  <2>2. writer' \in [LogWorkers \union Cleaners -> Jobs]
    BY <2>1, GoesTypes
  <2>3. logRow' \in [LogIds -> LogRows \union {Nothing}]
    <3>1. CASE logRow' = logRow
      BY <3>1 DEF LogTypes
    <3>2. CASE DeleteOldRequestLogs(c) /\ logRow' # logRow
      <4>1. logRow' = [l \in LogIds |->
              IF logRow[l] # Nothing /\ logRow[l].created < tick - 2 * RetentionDays
              THEN Nothing ELSE logRow[l]]
        BY <3>2 DEF DeleteOldRequestLogs
      <4>. QED BY <4>1 DEF LogTypes
    <3>3. CASE DeleteOldestRequestLogs(c)
      <4>1. PICK gone : logRow' = [l \in LogIds |-> IF l \in gone THEN Nothing ELSE logRow[l]]
        BY <3>3 DEF DeleteOldestRequestLogs
      <4>. QED BY <4>1 DEF LogTypes
    <3>. QED BY <1>4, <3>1, <3>2, <3>3 DEF CleanOldDirectories
  <2>. QED BY <1>1, <1>2, <2>2, <2>3 DEF LogTypes
<1>5. CASE SelectInline(c)
  <2>. DEFINE rows == {<<l, Day(logRow[l].created)>> : l \in
                       {o \in LogIds : logRow[o] # Nothing /\
                          \E k \in Kinds : /\ logRow[o].body[k].inline
                                           /\ logRow[o].body[k].path = Null}}
  <2>1. rows \in SUBSET (LogIds \X Nat)
    <3>1. \A o \in LogIds : logRow[o] # Nothing => Day(logRow[o].created) \in Nat
      BY DayGrows DEF LogTypes, LogRows
    <3>. QED BY <3>1
  <2>2. writer' = [writer EXCEPT ![c].pc = "migrate", ![c].rows = rows]
    BY <1>5 DEF SelectInline
  <2>. HIDE DEF rows
  <2>3. writer' \in [LogWorkers \union Cleaners -> Jobs]
    <3>1. [writer[c] EXCEPT !.pc = "migrate", !.rows = rows] \in Jobs
      BY <1>3, <2>1 DEF Jobs, Pcs
    <3>2. writer' = [writer EXCEPT ![c] = [writer[c] EXCEPT !.pc = "migrate", !.rows = rows]]
      BY <2>2
    <3>. QED BY <3>1, <3>2 DEF LogTypes
  <2>. QED BY <1>1, <1>2, <1>5, <2>3 DEF SelectInline, LogTypes
<1>6. CASE MigrateRow(c)
  <2>1. ASSUME NEW r \in writer[c].rows
        PROVE  [Idling EXCEPT !.pc = "store", !.log = r[1], !.dir = r[2], !.todo = Kinds,
                              !.rows = writer[c].rows \ {r}] \in Jobs
    <3>1. r[1] \in LogIds /\ r[2] \in Nat /\ writer[c].rows \ {r} \in SUBSET (LogIds \X Nat)
      BY <1>3 DEF Jobs
    <3>. QED BY <3>1 DEF Idling, Jobs, Pcs
  <2>2. PICK j \in Jobs : writer' = [writer EXCEPT ![c] = j]
    BY <1>6, <2>1, IdlingJob DEF MigrateRow
  <2>3. writer' \in [LogWorkers \union Cleaners -> Jobs]
    BY <2>2 DEF LogTypes
  <2>. QED BY <1>1, <1>2, <1>6, <2>3 DEF MigrateRow, LogTypes
<1>. QED BY <1>4, <1>5, <1>6

LEMMA LogTypesInit == ASSUME PersistenceInit PROVE LogTypes
<1>1. PICK legacy \in SUBSET LogIds, active \in BOOLEAN : LogInit(legacy, active)
  <2>1. LegacyLogs \in SUBSET LogIds /\ {} \in SUBSET LogIds
    BY LogStoreAssumption
  <2>. DEFINE legacy == IF part \in {"retention", "cleanups overlap"} THEN LegacyLogs ELSE {}
              active == part \in {"logging", "retention", "cleanups overlap"}
  <2>2. LogInit(legacy, active)
    BY DEF PersistenceInit
  <2>3. legacy \in SUBSET LogIds
    BY <2>1
  <2>4. active \in BOOLEAN
    OBVIOUS
  <2>. HIDE DEF legacy, active
  <2>. QED BY <2>2, <2>3, <2>4
<1>2. logRow \in [LogIds -> LogRows \union {Nothing}]
  <2>. DEFINE row == [created |-> FirstTick,
                      body |-> [k \in Kinds |-> [inline |-> TRUE, path |-> Null]]]
  <2>1. row \in LogRows
    BY DEF LogRows, Bodies, FirstTick
  <2>2. logRow = [l \in LogIds |-> IF l \in legacy THEN row ELSE Nothing]
    BY <1>1 DEF LogInit
  <2>. HIDE DEF row
  <2>. QED BY <2>1, <2>2
<1>3. tokenStats = <<>> /\ tick = FirstTick /\ logFaults = 0 /\ logged \subseteq LogIds
  BY <1>1 DEF LogInit
<1>4. writer \in [LogWorkers \union Cleaners -> Jobs]
  BY <1>1, IdlingJob DEF LogInit
<1>. QED BY <1>2, <1>3, <1>4 DEF LogTypes, FirstTick

LEMMA LogTypesStep == ASSUME LogTypes, [PersistenceNext]_persistenceVars PROVE LogTypes'
<1>1. CASE UNCHANGED logVars
  BY <1>1 DEF logVars, LogTypes
<1>2. ASSUME NEW w \in LogWorkers, NEW toFile \in BOOLEAN, LogWorker(w, toFile) PROVE LogTypes'
  BY <1>2, InsertTypes, StoreTypes, PointTypes, StatsTypes DEF LogWorker
<1>3. ASSUME NEW c \in Cleaners, Cleaner(c) PROVE LogTypes'
  BY <1>3, CleanTypes, StoreTypes, PointTypes DEF Cleaner
<1>4. CASE LogTick \/ DeleteConfigLogs
  BY <1>4 DEF LogTick, DeleteConfigLogs, LogTypes, FirstTick
<1>5. CASE LogCrash
  BY <1>5, IdlingJob, FaultTypes DEF LogCrash, LogTypes
<1>. QED BY <1>1, <1>2, <1>3, <1>4, <1>5, LogSteps

-----------------------------------------------------------------------------
(* The statistics                                                          *)

RequestCounts(s) == [i \in DOMAIN s |-> s[i].requests]

LEMMA RequestsOf ==
    ASSUME NEW s \in Seq(Stat)
    PROVE  /\ Len(s) \in Nat /\ DOMAIN s = 1 .. Len(s) /\ IsFiniteSet(1 .. Len(s))
           /\ \A i \in 1 .. Len(s) : s[i] \in Stat /\ RequestCounts(s)[i] = s[i].requests
                                     /\ RequestCounts(s)[i] \in Int
           /\ SumFunction(RequestCounts(s)) = SumFunctionOnSet(RequestCounts(s), 1 .. Len(s))
           /\ SumFunction(RequestCounts(s)) \in Int
<1>1. Len(s) \in Nat /\ DOMAIN s = 1 .. Len(s)
  OBVIOUS
<1>2. IsFiniteSet(1 .. Len(s))
  BY <1>1, FS_Interval
<1>3. ASSUME NEW i \in 1 .. Len(s)
      PROVE  s[i] \in Stat /\ RequestCounts(s)[i] = s[i].requests /\ RequestCounts(s)[i] \in Int
  <2>1. s[i] \in Stat
    OBVIOUS
  <2>2. s[i].requests \in Int
    BY <2>1 DEF Stat
  <2>. QED BY <1>1, <2>1, <2>2 DEF RequestCounts
<1>4. DOMAIN RequestCounts(s) = 1 .. Len(s)
  BY <1>1 DEF RequestCounts
<1>5. SumFunction(RequestCounts(s)) = SumFunctionOnSet(RequestCounts(s), 1 .. Len(s))
  BY <1>4, Zenon DEF SumFunction, SumFunctionOnSet, FoldFunction, FoldFunctionOnSet
<1>6. SumFunctionOnSet(RequestCounts(s), 1 .. Len(s)) \in Int
  BY <1>2, <1>3, SumInt
<1>. QED BY <1>1, <1>2, <1>3, <1>5, <1>6

LEMMA RequestsEmpty == SumFunction(RequestCounts(<<>>)) = 0
<1>1. <<>> \in Seq(Stat) /\ 1 .. Len(<<>>) = {}
  OBVIOUS
<1>2. SumFunction(RequestCounts(<<>>)) = SumFunctionOnSet(RequestCounts(<<>>), 1 .. Len(<<>>))
  BY <1>1, RequestsOf
<1>. QED BY <1>1, <1>2, SumEmpty

LEMMA RequestsAppend ==
    ASSUME NEW s \in Seq(Stat), NEW r \in Stat
    PROVE  SumFunction(RequestCounts(Append(s, r))) = SumFunction(RequestCounts(s)) + r.requests
<1>. DEFINE t == Append(s, r)
            n == Len(s) + 1
<1>1. t \in Seq(Stat) /\ Len(t) = n /\ t[n] = r /\ \A i \in 1 .. Len(s) : t[i] = s[i]
  BY AppendProperties
<1>2. n \notin 1 .. Len(s) /\ 1 .. Len(t) = (1 .. Len(s)) \union {n} /\ n \in 1 .. Len(t)
  BY <1>1, RequestsOf
<1>. HIDE DEF t, n
<1>3. \A i \in (1 .. Len(s)) \union {n} : RequestCounts(t)[i] \in Int
  BY <1>1, <1>2, RequestsOf
<1>4. \A i \in 1 .. Len(s) : RequestCounts(s)[i] = RequestCounts(t)[i]
  BY <1>1, <1>2, RequestsOf
<1>5. SumFunctionOnSet(RequestCounts(t), (1 .. Len(s)) \union {n})
        = SumFunctionOnSet(RequestCounts(s), 1 .. Len(s)) + RequestCounts(t)[n]
  <2>. DEFINE S == 1 .. Len(s)
              f == RequestCounts(t)
              g == RequestCounts(s)
  <2>1. IsFiniteSet(S)
    BY RequestsOf
  <2>. HIDE DEF S, f, g
  <2>2. n \notin S /\ (\A x \in S \union {n} : f[x] \in Int) /\ (\A x \in S : g[x] = f[x])
    BY <1>2, <1>3, <1>4 DEF S, f, g
  <2>3. SumFunctionOnSet(f, S \union {n}) = SumFunctionOnSet(g, S) + f[n]
    BY <2>1, <2>2, SumAdd
  <2>. QED BY <2>3 DEF S, f, g
<1>6. RequestCounts(t)[n] = r.requests
  BY <1>1, <1>2, RequestsOf
<1>7. SumFunction(RequestCounts(t)) = SumFunction(RequestCounts(s)) + r.requests
  BY <1>1, <1>2, <1>5, <1>6, RequestsOf
<1>. QED BY <1>7 DEF t

LEMMA RequestsIncremented ==
    ASSUME NEW s \in Seq(Stat), NEW i \in 1 .. Len(s)
    PROVE  SumFunction(RequestCounts([s EXCEPT ![i].requests = @ + 1]))
             = SumFunction(RequestCounts(s)) + 1
<1>. DEFINE r == [s[i] EXCEPT !.requests = @ + 1]
            t == [s EXCEPT ![i] = r]
<1>1. s[i] \in Stat
  BY RequestsOf
<1>2. r \in Stat /\ r.requests = s[i].requests + 1
  BY <1>1 DEF Stat
<1>3. t = [s EXCEPT ![i].requests = @ + 1]
  OBVIOUS
<1>. HIDE DEF r
<1>4. /\ t \in Seq(Stat) /\ Len(t) = Len(s)
      /\ \A j \in 1 .. Len(s) : t[j] = IF j = i THEN r ELSE s[j]
  BY <1>2, ExceptSeq
<1>. HIDE DEF t
<1>5. \A j \in 1 .. Len(s) : RequestCounts(s)[j] \in Int /\ RequestCounts(t)[j] \in Int
  BY <1>4, RequestsOf
<1>6. \A j \in (1 .. Len(s)) \ {i} : RequestCounts(s)[j] = RequestCounts(t)[j]
  BY <1>4, RequestsOf
<1>7. SumFunctionOnSet(RequestCounts(t), 1 .. Len(s))
        = SumFunctionOnSet(RequestCounts(s), 1 .. Len(s)) + (RequestCounts(t)[i] - RequestCounts(s)[i])
  <2>. DEFINE S == 1 .. Len(s)
              f == RequestCounts(t)
              g == RequestCounts(s)
  <2>1. IsFiniteSet(S)
    BY RequestsOf
  <2>. HIDE DEF S, f, g
  <2>2. /\ i \in S /\ \A x \in S : g[x] \in Int /\ f[x] \in Int
        /\ \A x \in S \ {i} : g[x] = f[x]
    BY <1>5, <1>6 DEF S, f, g
  <2>3. SumFunctionOnSet(f, S) = SumFunctionOnSet(g, S) + (f[i] - g[i])
    BY <2>1, <2>2, SumChange, ZenonT(30)
  <2>. QED BY <2>3 DEF S, f, g
<1>8. RequestCounts(t)[i] = RequestCounts(s)[i] + 1
  BY <1>2, <1>4, RequestsOf
<1>9. SumFunction(RequestCounts(t)) = SumFunction(RequestCounts(s)) + 1
  BY <1>4, <1>5, <1>7, <1>8, RequestsOf
<1>. QED BY <1>3, <1>9

Busy(w) == writer[w].pc # "idle"

\* A request a worker is busy with is logged, not yet counted, and no other
\* worker's; the row of the statistics it found is still there.
StatInv ==
    /\ counted \subseteq logged /\ IsFiniteSet(counted)
    /\ \A w \in LogWorkers : Busy(w) => writer[w].log \in logged \ counted
    /\ \A w, v \in LogWorkers :
         w # v /\ Busy(w) /\ Busy(v) => writer[w].log # writer[v].log
    /\ \A w \in LogWorkers : writer[w].pc = "count" => writer[w].stat <= Len(tokenStats)
    /\ StatsConserved

\* Steps that touch neither statistics nor what is logged.
LEMMA StatSame ==
    ASSUME StatInv, UNCHANGED <<tokenStats, counted, logged>>,
           \A v \in LogWorkers :
             \/ writer'[v] = writer[v]
             \/ writer'[v].pc = "idle"
             \/ /\ Busy(v) /\ writer'[v].pc # "count" /\ writer'[v].log = writer[v].log
    PROVE  StatInv'
<1>1. \A v \in LogWorkers : Busy(v)' => Busy(v) /\ writer'[v].log = writer[v].log
  BY DEF Busy
<1>2. \A v \in LogWorkers : writer'[v].pc = "count" => writer'[v] = writer[v]
  BY DEF Busy
<1>. QED BY <1>1, <1>2 DEF StatInv, StatsConserved

LEMMA StatStore ==
    ASSUME LogTypes, StatInv, NEW u \in LogWorkers \union Cleaners,
           CreateFile(u) \/ WriteFile(u) \/ PointRow(u) \/ BodiesDone(u)
    PROVE  StatInv'
<1>1. UNCHANGED <<tokenStats, counted, logged>>
  BY Zenon DEF CreateFile, WriteFile, PointRow, BodiesDone
<1>2. \A v \in LogWorkers : v # u => writer'[v] = writer[v]
  <2>1. writer' = writer \/ \E work : writer' = [writer EXCEPT ![u] = work]
    BY Zenon DEF CreateFile, WriteFile, PointRow, BodiesDone, Goes
  <2>. QED BY <2>1 DEF LogTypes
<1>3. CASE u \in Cleaners
  BY <1>1, <1>2, <1>3, StatSame, LogStoreAssumption
<1>4. CASE u \in LogWorkers
  <2>1. Busy(u) /\ u \notin Cleaners
    BY <1>4, LogStoreAssumption DEF Busy, CreateFile, WriteFile, PointRow, BodiesDone
  <2>2. writer[u] \in Jobs
    BY DEF LogTypes
  <2>3. writer'[u].pc # "count" /\ writer'[u].log = writer[u].log
    <3>1. CASE CreateFile(u)
      <4>1. PICK f : \/ writer' = [writer EXCEPT ![u].pc = "write"]
                    \/ writer' = [writer EXCEPT ![u].todo = f]
        BY <3>1 DEF CreateFile, Goes
      <4>2. writer[u].pc = "store"
        BY <3>1 DEF CreateFile
      <4>. QED BY <2>2, <4>1, <4>2 DEF LogTypes, Jobs
    <3>2. CASE WriteFile(u)
      BY <2>1, <2>2, <3>2 DEF WriteFile, LogTypes, Jobs
    <3>3. CASE PointRow(u)
      BY <2>1, <2>2, <3>3 DEF PointRow, LogTypes, Jobs
    <3>4. CASE BodiesDone(u)
      BY <1>4, <2>1, <2>2, <3>4 DEF BodiesDone, LogTypes, Jobs
    <3>. QED BY <3>1, <3>2, <3>3, <3>4
  <2>. QED BY <1>1, <1>2, <2>1, <2>3, StatSame
<1>. QED BY <1>3, <1>4

LEMMA StatInsert ==
    ASSUME LogTypes, StatInv, NEW w \in LogWorkers, NEW l \in LogIds,
           NEW toFile \in BOOLEAN, InsertLog(w, l, toFile)
    PROVE  StatInv'
<1>1. /\ logged' = logged \union {l} /\ l \notin logged /\ ~Busy(w)
      /\ UNCHANGED <<tokenStats, counted>>
  BY DEF InsertLog, Busy
<1>2. \A v \in LogWorkers : v # w => writer'[v] = writer[v]
  BY DEF LogTypes, InsertLog
<1>3. writer'[w].pc # "count" /\ (writer'[w].pc = "idle" \/ writer'[w].log = l)
  <2>1. CASE writer' = writer
    BY <1>1, <2>1 DEF Busy
  <2>2. CASE writer' # writer
    <3>. DEFINE pc == IF toFile THEN "store" ELSE "stats"
                added == [Idling EXCEPT !.log = l, !.todo = IF toFile THEN Kinds ELSE {}, !.pc = pc,
                                        !.dir = LocalDay(tick)]
    <3>1. writer' = [writer EXCEPT ![w] = added]
      BY <2>2 DEF InsertLog
    <3>2. added.pc = pc /\ pc # "count" /\ added.log = l
      BY DEF Idling
    <3>. HIDE DEF added, pc
    <3>. QED BY <3>1, <3>2 DEF LogTypes
  <2>. QED BY <2>1, <2>2
<1>. QED BY <1>1, <1>2, <1>3 DEF StatInv, StatsConserved, Busy

LEMMA StatFind ==
    ASSUME LogTypes, StatInv, NEW w \in LogWorkers, FindStats(w)
    PROVE  StatInv'
<1>1. UNCHANGED <<tokenStats, counted, logged>> /\ Busy(w)
  BY DEF FindStats, Busy
<1>2. \A v \in LogWorkers : v # w => writer'[v] = writer[v]
  BY DEF LogTypes, FindStats
<1>3. DOMAIN tokenStats = 1 .. Len(tokenStats) /\ Len(tokenStats) \in Nat
  BY DEF LogTypes, Stat
<1>4. writer[w] \in Jobs
  BY DEF LogTypes
<1>5. \/ writer'[w].pc = "idle"
      \/ writer'[w].log = writer[w].log /\ writer'[w].stat <= Len(tokenStats)
  <2>1. CASE writer' = [writer EXCEPT ![w] = Idling]
    BY <2>1, IdlingJob DEF LogTypes
  <2>2. CASE \E i \in 1 .. Len(tokenStats) :
               writer' = [writer EXCEPT ![w].pc = "count", ![w].stat = i]
    BY <1>3, <1>4, <2>2 DEF LogTypes, Jobs
  <2>3. CASE writer' = [writer EXCEPT ![w].pc = "count", ![w].stat = 0]
    BY <1>3, <1>4, <2>3 DEF LogTypes, Jobs
  <2>. QED BY <1>3, <2>1, <2>2, <2>3 DEF FindStats
<1>. QED BY <1>1, <1>2, <1>5 DEF StatInv, StatsConserved, Busy

LEMMA StatWrite ==
    ASSUME LogTypes, StatInv, NEW w \in LogWorkers, WriteStats(w)
    PROVE  StatInv'
<1>1. Busy(w) /\ writer[w].log \in logged \ counted /\ logged' = logged
  BY DEF WriteStats, StatInv, Busy
<1>2. \A v \in LogWorkers : v # w => writer'[v] = writer[v]
  BY DEF LogTypes, WriteStats
<1>3. ~Busy(w)'
  BY IdlingJob DEF WriteStats, LogTypes, Busy
<1>4. CASE UNCHANGED <<tokenStats, counted>>
  BY <1>1, <1>2, <1>3, <1>4, StatSame DEF Busy
<1>5. CASE ~UNCHANGED <<tokenStats, counted>>
  <2>. DEFINE today == [day |-> Today, requests |-> 1]
              i == writer[w].stat
  <2>1. /\ counted' = counted \union {writer[w].log}
        /\ tokenStats' = IF i = 0 THEN Append(tokenStats, today)
                         ELSE [tokenStats EXCEPT ![i].requests = @ + 1]
    BY <1>5 DEF WriteStats
  <2>2. tokenStats \in Seq(Stat) /\ tokenStats' \in Seq(Stat)
    BY StatsTypes DEF LogTypes, Stat
  <2>3. today \in Stat /\ today.requests = 1
    BY DayGrows DEF Stat, Today, LogTypes
  <2>4. i \in 0 .. Len(tokenStats)
    BY RequestsOf, <2>2 DEF WriteStats, StatInv, LogTypes, Jobs
  <2>. HIDE DEF today, i
  <2>5. /\ SumFunction(RequestCounts(tokenStats')) = SumFunction(RequestCounts(tokenStats)) + 1
        /\ Len(tokenStats) <= Len(tokenStats')
    <3>1. CASE i = 0
      BY <2>1, <2>2, <2>3, <3>1, RequestsAppend, AppendProperties, RequestsOf
    <3>2. CASE i # 0
      <4>1. i \in 1 .. Len(tokenStats) /\ Len(tokenStats) \in Nat
        BY <2>2, <2>4, <3>2
      <4>2. tokenStats' = [tokenStats EXCEPT ![i].requests = @ + 1]
        BY <2>1, <3>2
      <4>3. Len(tokenStats') = Len(tokenStats)
        BY <2>2, <4>1, <4>2
      <4>4. SumFunction(RequestCounts(tokenStats')) = SumFunction(RequestCounts(tokenStats)) + 1
        BY <2>2, <4>1, <4>2, RequestsIncremented, Zenon
      <4>. QED BY <4>1, <4>3, <4>4
    <3>. QED BY <3>1, <3>2
  <2>6. Cardinality(counted') = Cardinality(counted) + 1 /\ IsFiniteSet(counted')
    BY <1>1, <2>1, FS_AddElement DEF StatInv
  <2>7. StatsConserved'
    BY <2>5, <2>6 DEF StatInv, StatsConserved, RequestCounts
  <2>8. \A v \in LogWorkers : writer'[v].pc = "count" => writer'[v].stat <= Len(tokenStats')
    <3>1. PICK n \in Nat, m \in Nat : n = Len(tokenStats) /\ m = Len(tokenStats')
      BY <2>2
    <3>2. \A v \in LogWorkers : writer'[v].pc = "count" =>
             writer'[v] = writer[v] /\ writer[v].stat \in Nat
      BY <1>2, <1>3 DEF Busy, LogTypes, Jobs
    <3>. QED BY <2>5, <3>1, <3>2 DEF StatInv
  <2>9. \A v \in LogWorkers : Busy(v)' => v # w /\ writer'[v] = writer[v] /\ Busy(v)
    BY <1>2, <1>3 DEF Busy
  <2>10. \A v \in LogWorkers : Busy(v)' => writer'[v].log \in logged' \ counted'
    BY <1>1, <2>1, <2>9 DEF StatInv
  <2>11. \A u, v \in LogWorkers :
           u # v /\ Busy(u)' /\ Busy(v)' => writer'[u].log # writer'[v].log
    BY <2>9 DEF StatInv
  <2>12. counted' \subseteq logged'
    BY <1>1, <2>1 DEF StatInv
  <2>. QED BY <2>6, <2>7, <2>8, <2>10, <2>11, <2>12 DEF StatInv
<1>. QED BY <1>4, <1>5

LEMMA StatInvInit == ASSUME PersistenceInit PROVE StatInv
<1>1. tokenStats = <<>> /\ counted = {} /\ writer = [w \in LogWorkers \cup Cleaners |-> Idling]
  BY DEF PersistenceInit, LogInit
<1>2. \A w \in LogWorkers : writer[w].pc = "idle"
  BY <1>1, IdlingJob
<1>3. StatsConserved
  BY <1>1, RequestsEmpty, FS_EmptySet DEF StatsConserved, RequestCounts
<1>. QED BY <1>1, <1>2, <1>3, FS_EmptySet DEF StatInv, Busy

LEMMA StatInvStep ==
    ASSUME LogTypes, StatInv, [PersistenceNext]_persistenceVars
    PROVE  StatInv'
<1>1. CASE UNCHANGED logVars
  BY <1>1, StatSame DEF logVars
<1>2. ASSUME NEW w \in LogWorkers, NEW toFile \in BOOLEAN, LogWorker(w, toFile)
      PROVE  StatInv'
  BY <1>2, StatInsert, StatStore, StatFind, StatWrite DEF LogWorker
<1>3. ASSUME NEW c \in Cleaners, Cleaner(c)
      PROVE  StatInv'
  <2>1. CASE CreateFile(c) \/ WriteFile(c) \/ PointRow(c) \/ BodiesDone(c)
    BY <2>1, StatStore
  <2>2. CASE \/ DeleteOldRequestLogs(c) \/ CleanOldDirectories(c) \/ DeleteOldestRequestLogs(c)
             \/ SelectInline(c) \/ MigrateRow(c)
    <3>1. UNCHANGED <<tokenStats, counted, logged>>
      BY <2>2 DEF DeleteOldRequestLogs, CleanOldDirectories, DeleteOldestRequestLogs,
                  SelectInline, MigrateRow
    <3>2. \A v \in LogWorkers : writer'[v] = writer[v]
      BY <2>2, LogStoreAssumption
      DEF DeleteOldRequestLogs, CleanOldDirectories, DeleteOldestRequestLogs,
          SelectInline, MigrateRow, Goes, LogTypes
    <3>. QED BY <3>1, <3>2, StatSame
  <2>. QED BY <1>3, <2>1, <2>2 DEF Cleaner
<1>4. CASE LogTick \/ DeleteConfigLogs
  BY <1>4, StatSame DEF LogTick, DeleteConfigLogs
<1>5. CASE LogCrash
  <2>1. \A v \in LogWorkers : writer'[v].pc = "idle"
    BY <1>5, IdlingJob DEF LogCrash, LogTypes
  <2>. QED BY <1>5, <2>1, StatSame DEF LogCrash
<1>. QED BY <1>1, <1>2, <1>3, <1>4, <1>5, LogSteps

\* Every request counted is in the statistics exactly once, however many
\* workers look for the day's row and write it at the same time, whichever
\* statements fail and whenever the process dies (updateTokenStats).
THEOREM StatisticsConserved == Spec => []StatsConserved
<1>1. PersistenceInit => LogTypes /\ StatInv
  BY LogTypesInit, StatInvInit
<1>2. (LogTypes /\ StatInv) /\ [PersistenceNext]_persistenceVars => (LogTypes /\ StatInv)'
  BY LogTypesStep, StatInvStep
<1>3. LogTypes /\ StatInv => StatsConserved
  BY DEF StatInv
<1>. QED BY <1>1, <1>2, <1>3, PTL DEF Spec

-----------------------------------------------------------------------------
(* The body files                                                          *)

\* Rows from before the path columns, which the migration moves.
Old == IF part \in {"retention", "cleanups overlap"} THEN LegacyLogs ELSE {}

Files == LogIds \X Kinds \X Nat
Storing(w) == writer[w].pc \in {"store", "write", "point"}

\* A file is there unless its directory is due for deletion; when cleanups
\* overlap, also when it is being written again, or a statement has failed.
There(f) == f \in files \/ OldDirectory(f[3])
Somewhere(f) == f \in torn \/ There(f)
Sure(f) ==
    \/ There(f)
    \/ Overlap /\ (logFaults > 0 \/ \E c \in Cleaners : writer[c].pc = "write" /\ File(c) = f)

\* A row has its bodies inline, or points at files in directories that can be
\* those of its time.
RowInv(l) ==
    logRow[l] # Nothing =>
      /\ logRow[l].created <= tick
      /\ \A k \in Kinds :
           /\ logRow[l].body[k].path \notin Nat => logRow[l].body[k].inline
           /\ \A p \in Nat : logRow[l].body[k].path = p =>
                /\ Earliest(logRow[l].created) <= p /\ p \in Days
                /\ Sure(<<l, k, p>>)
           /\ logRow[l].body[k].path = Null =>
                l \in Old /\ \A j \in Kinds : logRow[l].body[j].path = Null

\* The row of a worker points at no file yet for the bodies it holds.
WorkInv(w) ==
    /\ Busy(w) => writer[w].log \notin Old
    /\ Storing(w) =>
         /\ writer[w].todo \cap writer[w].moved = {}
         /\ writer[w].pc # "point" => writer[w].moved = {}
         /\ writer[w].dir \in Days
         /\ logRow[writer[w].log] # Nothing =>
              /\ Earliest(logRow[writer[w].log].created) <= writer[w].dir
              /\ \A k \in writer[w].todo \union writer[w].moved :
                   logRow[writer[w].log].body[k].path = Empty
         /\ \A k \in writer[w].moved : Sure(<<writer[w].log, k, writer[w].dir>>)
    /\ writer[w].pc = "write" => writer[w].todo # {} /\ Somewhere(File(w))

\* What the migration knows of a row it has read.
Untouched(l, d) ==
    logRow[l] # Nothing =>
      /\ Day(logRow[l].created) = d
      /\ ~Overlap => \A k \in Kinds : logRow[l].body[k].path = Null

CleanInv(c) ==
    /\ (writer[c].pc = "migrate" \/ Storing(c)) =>
         /\ \A r \in writer[c].rows : r[1] \in Old /\ Untouched(r[1], r[2]) /\ r[2] \in Days
         /\ \A r, s \in writer[c].rows : r[1] = s[1] => r = s
    /\ Storing(c) =>
         /\ writer[c].log \in Old /\ writer[c].dir \in Days
         /\ writer[c].todo \union writer[c].moved # {} =>
              Untouched(writer[c].log, writer[c].dir)
         /\ writer[c].todo \cap writer[c].moved = {}
         /\ \A r \in writer[c].rows : r[1] # writer[c].log
         /\ \A k \in writer[c].moved : Sure(<<writer[c].log, k, writer[c].dir>>)
    /\ writer[c].pc = "write" => writer[c].todo # {} /\ Somewhere(File(c))
    /\ writer[c].pc = "point" => writer[c].todo = {}

FileInv ==
    /\ tick <= MaxTick
    /\ Old \subseteq logged
    /\ \A w \in LogWorkers : WorkInv(w)
    /\ \A c \in Cleaners : CleanInv(c)
    /\ \A l \in LogIds : RowInv(l)

LEMMA OldIds == Old \in SUBSET LogIds /\ (part' = part => Old' = Old)
BY LogStoreAssumption DEF Old

\* Time goes on, and no file that is somewhere gets lost.
Mono ==
    /\ part' = part /\ tick' \in Nat /\ tick <= tick'
    /\ \A f \in Files : Somewhere(f) => Somewhere(f)'

SureKept(l) == \A k \in Kinds, p \in Nat : Sure(<<l, k, p>>) => Sure(<<l, k, p>>)'

RowKept(l) == logRow'[l] = logRow[l] \/ logRow'[l] = Nothing

LEMMA Times ==
    ASSUME tick \in Nat, tick' \in Nat, tick <= tick'
    PROVE  /\ Today \in Nat /\ Today' \in Nat /\ Today <= Today'
           /\ \A d \in Nat : OldDirectory(d) => OldDirectory(d)'
<1>1. PICK t \in Nat : t = tick'
  OBVIOUS
<1>2. Today \in Nat /\ Day(t) \in Nat /\ Today <= Day(t)
  BY <1>1, DayGrows DEF Today
<1>3. Today' = Day(t)
  BY <1>1 DEF Today
<1>4. \A d \in Nat : OldDirectory(d) => OldDirectory(d)'
  <2>1. ASSUME NEW d \in Nat, d <= Today - RetentionDays PROVE d <= Day(t) - RetentionDays
    BY <1>2, <2>1, LogStoreAssumption
  <2>. QED BY <1>3, <2>1 DEF OldDirectory
<1>. QED BY <1>2, <1>3, <1>4

LEMMA RowStays ==
    ASSUME LogTypes, LogTypes', Mono, NEW l \in LogIds, RowInv(l), RowKept(l),
           \A k \in Kinds, p \in Nat :
             logRow[l] # Nothing /\ logRow[l].body[k].path = p /\ Sure(<<l, k, p>>)
               => Sure(<<l, k, p>>)'
    PROVE  RowInv(l)'
<1>1. tick' \in Nat /\ tick <= tick' /\ Old' = Old
  BY Times, OldIds DEF Mono, LogTypes
<1>2. CASE logRow'[l] # Nothing
  <2>1. logRow'[l] = logRow[l] /\ logRow[l] \in LogRows /\ logRow[l] # Nothing
    BY <1>2 DEF RowKept, LogTypes
  <2>2. \A k \in Kinds, p \in Nat : logRow[l].body[k].path = p => Sure(<<l, k, p>>)'
    BY <2>1 DEF RowInv
  <2>3. \A n \in Nat : n <= tick => n <= tick'
    <3>1. PICK t \in Nat : t = tick'
      BY <1>1
    <3>. QED BY <1>1, <3>1 DEF LogTypes
  <2>4. logRow[l].created \in Nat
    BY <2>1 DEF LogRows
  <2>5. logRow'[l].created <= tick'
    BY <2>1, <2>3, <2>4 DEF RowInv
  <2>6. ASSUME NEW k \in Kinds
        PROVE  /\ logRow'[l].body[k].path \notin Nat => logRow'[l].body[k].inline
               /\ \A p \in Nat : logRow'[l].body[k].path = p =>
                    /\ Earliest(logRow'[l].created) <= p /\ p \in Days
                    /\ Sure(<<l, k, p>>)'
               /\ logRow'[l].body[k].path = Null =>
                    l \in Old' /\ \A j \in Kinds : logRow'[l].body[j].path = Null
    BY <1>1, <2>1, <2>2 DEF RowInv
  <2>. QED BY <2>5, <2>6 DEF RowInv
<1>. QED BY <1>2 DEF RowInv

\* The log of a busy worker is a request, and only its own.
LEMMA BusyLogs ==
    ASSUME LogTypes, StatInv, NEW w \in LogWorkers, Busy(w)
    PROVE  writer[w].log \in LogIds /\ writer[w].log \in logged
BY DEF StatInv, LogTypes

LEMMA WorkStays ==
    ASSUME LogTypes, LogTypes', StatInv, Mono, NEW w \in LogWorkers, WorkInv(w), writer'[w] = writer[w],
           Storing(w) => RowKept(writer[w].log) /\ SureKept(writer[w].log)
    PROVE  WorkInv(w)'
<1>1. Old' = Old
  BY Times, OldIds DEF Mono, LogTypes
<1>2. writer[w] \in Jobs
  BY DEF LogTypes
<1>3. File(w)' = File(w) /\ (Storing(w)' <=> Storing(w)) /\ (Busy(w)' <=> Busy(w))
  BY DEF File, Storing, Busy
<1>4. writer[w].pc = "write" => Somewhere(File(w))'
  <2>1. writer[w].pc = "write" => File(w) \in Files
    BY <1>2, NextKindIn, BusyLogs DEF WorkInv, Files, File, Jobs, Busy
  <2>. QED BY <1>3, <2>1 DEF WorkInv, Mono
<1>5. Storing(w) => \A k \in writer[w].moved :
        Sure(<<writer[w].log, k, writer[w].dir>>) => Sure(<<writer[w].log, k, writer[w].dir>>)'
  BY <1>2 DEF SureKept, Jobs
<1>6. Storing(w) /\ logRow'[writer[w].log] # Nothing => logRow'[writer[w].log] = logRow[writer[w].log]
  BY DEF RowKept
<1>7. writer[w].dir \in Days => writer[w].dir \in Days
  BY <1>1, <1>2 DEF Jobs
<1>. QED BY <1>1, <1>3, <1>4, <1>5, <1>6, <1>7 DEF WorkInv

RowMoved(l) == Overlap /\ logRow[l] # Nothing /\ logRow'[l].created = logRow[l].created

LEMMA UntouchedStays ==
    ASSUME part' = part, NEW l, NEW d, Untouched(l, d), RowKept(l) \/ RowMoved(l)
    PROVE  Untouched(l, d)'
BY DEF Untouched, RowKept, RowMoved, Overlap

LEMMA CleanStays ==
    ASSUME LogTypes, LogTypes', Mono, NEW c \in Cleaners, CleanInv(c), writer'[c] = writer[c],
           \A l \in Old : RowKept(l) \/ RowMoved(l),
           Storing(c) => SureKept(writer[c].log)
    PROVE  CleanInv(c)'
<1>1. part' = part /\ Old' = Old
  BY Times, OldIds DEF Mono, LogTypes
<1>2. writer[c] \in Jobs
  BY DEF LogTypes
<1>3. File(c)' = File(c) /\ (Storing(c)' <=> Storing(c))
  BY DEF File, Storing
<1>4. writer[c].pc = "write" => Somewhere(File(c))'
  <2>1. writer[c].pc = "write" => File(c) \in Files
    BY <1>2, NextKindIn, OldIds DEF CleanInv, Files, File, Jobs, Storing
  <2>. QED BY <1>3, <2>1 DEF CleanInv, Mono
<1>5. Storing(c) => \A k \in writer[c].moved :
        Sure(<<writer[c].log, k, writer[c].dir>>) => Sure(<<writer[c].log, k, writer[c].dir>>)'
  BY <1>2 DEF SureKept, Jobs
<1>6. \A l \in Old, d \in Nat : Untouched(l, d) => Untouched(l, d)'
  BY <1>1, UntouchedStays
<1>7. \A r \in writer[c].rows : r[2] \in Nat
  BY <1>2 DEF Jobs
<1>8. (writer[c].pc = "migrate" \/ Storing(c)) =>
        \A r \in writer'[c].rows : r[1] \in Old' /\ Untouched(r[1], r[2])' /\ r[2] \in Days
  <2>1. ASSUME writer[c].pc = "migrate" \/ Storing(c), NEW r \in writer[c].rows
        PROVE  r[1] \in Old /\ Untouched(r[1], r[2])' /\ r[2] \in Days
    <3>1. r[1] \in Old /\ Untouched(r[1], r[2]) /\ r[2] \in Days /\ r[2] \in Nat
      BY <1>7, <2>1 DEF CleanInv
    <3>. QED BY <1>1, <1>6, <3>1
  <2>. QED BY <1>1, <2>1
<1>9. Storing(c) => /\ writer[c].dir \in Days
                    /\ writer[c].todo \union writer[c].moved # {} =>
                         Untouched(writer[c].log, writer[c].dir)'
  <2>1. writer[c].dir \in Nat
    BY <1>2 DEF Jobs
  <2>2. ASSUME Storing(c), Untouched(writer[c].log, writer[c].dir)
        PROVE  Untouched(writer[c].log, writer[c].dir)'
    <3>1. writer[c].log \in Old
      BY <2>2 DEF CleanInv
    <3>. QED BY <1>1, <2>2, <3>1, UntouchedStays
  <2>3. Storing(c) => writer[c].dir \in Days /\ (writer[c].todo \union writer[c].moved # {} =>
                         Untouched(writer[c].log, writer[c].dir))
    BY DEF CleanInv
  <2>. QED BY <1>1, <2>1, <2>2, <2>3
<1>. QED BY <1>1, <1>3, <1>4, <1>5, <1>8, <1>9 DEF CleanInv

LEMMA SureStays ==
    ASSUME LogTypes, LogTypes', part' = part, tick <= tick', logFaults <= logFaults',
           NEW f \in Files, Sure(f),
           f \in files => f \in files' \/ OldDirectory(f[3]),
           \A c \in Cleaners : writer[c].pc = "write" /\ File(c) = f =>
              writer'[c] = writer[c] \/ There(f)' \/ logFaults' # 0
    PROVE  Sure(f)'
<1>1. f[3] \in Nat /\ (OldDirectory(f[3]) => OldDirectory(f[3])')
  BY Times DEF Files, LogTypes
<1>2. CASE There(f)
  BY <1>1, <1>2 DEF There, Sure
<1>3. CASE Overlap /\ logFaults > 0
  <2>1. PICK n \in Nat : n = logFaults'
    BY DEF LogTypes
  <2>2. n > 0
    BY <1>3, <2>1 DEF LogTypes
  <2>. QED BY <1>3, <2>1, <2>2 DEF Sure, Overlap
<1>4. CASE Overlap /\ \E c \in Cleaners : writer[c].pc = "write" /\ File(c) = f
  <2>1. PICK c \in Cleaners : writer[c].pc = "write" /\ File(c) = f
    BY <1>4
  <2>2. CASE writer'[c] = writer[c]
    <3>1. writer'[c].pc = "write" /\ File(c)' = f
      BY <2>1, <2>2 DEF File
    <3>. QED BY <1>4, <3>1 DEF Sure, Overlap
  <2>3. CASE logFaults' # 0
    <3>1. PICK n \in Nat : n = logFaults'
      BY DEF LogTypes
    <3>2. n > 0
      BY <2>3, <3>1
    <3>. QED BY <1>4, <3>1, <3>2 DEF Sure, Overlap
  <2>. QED BY <2>1, <2>2, <2>3 DEF Sure
<1>. QED BY <1>2, <1>3, <1>4 DEF Sure

\* The steps of Persistence, as FileInv looks at them.
LEMMA MonoStep ==
    ASSUME LogTypes, FileInv, [PersistenceNext]_persistenceVars
    PROVE  /\ Mono /\ tick' <= MaxTick /\ logged \subseteq logged'
           /\ logFaults <= logFaults' /\ LogTypes'
<1>1. LogTypes' /\ part' = part
  BY LogTypesStep, LogSteps
<1>2. (LogTick \/ tick' = tick) /\ logged \subseteq logged' /\ (LogFault \/ logFaults' = logFaults)
  <2>. DEFINE G == /\ LogTick \/ tick' = tick
                   /\ logged \subseteq logged' /\ (LogFault \/ logFaults' = logFaults)
  <2>1. CASE UNCHANGED logVars
    BY <2>1 DEF logVars
  <2>2. ASSUME NEW w, NEW toFile, LogWorker(w, toFile) PROVE G
    <3>1. ASSUME NEW l, InsertLog(w, l, toFile) PROVE G
      BY <3>1 DEF InsertLog
    <3>2. CASE CreateFile(w) \/ WriteFile(w) \/ PointRow(w) \/ BodiesDone(w)
      BY <3>2, Zenon DEF CreateFile, WriteFile, PointRow, BodiesDone
    <3>3. CASE FindStats(w) \/ WriteStats(w)
      BY <3>3 DEF FindStats, WriteStats
    <3>. QED BY <2>2, <3>1, <3>2, <3>3 DEF LogWorker
  <2>3. ASSUME NEW c, Cleaner(c) PROVE G
    <3>1. CASE CreateFile(c) \/ WriteFile(c) \/ PointRow(c) \/ BodiesDone(c)
      BY <3>1 DEF CreateFile, WriteFile, PointRow, BodiesDone
    <3>2. CASE \/ DeleteOldRequestLogs(c) \/ CleanOldDirectories(c) \/ DeleteOldestRequestLogs(c)
               \/ SelectInline(c) \/ MigrateRow(c)
      BY <3>2 DEF DeleteOldRequestLogs, CleanOldDirectories, DeleteOldestRequestLogs,
                  SelectInline, MigrateRow
    <3>. QED BY <2>3, <3>1, <3>2 DEF Cleaner
  <2>4. CASE LogTick \/ DeleteConfigLogs \/ LogCrash
    BY <2>4 DEF LogTick, DeleteConfigLogs, LogCrash
  <2>. QED BY <2>1, <2>2, <2>3, <2>4, LogSteps
<1>3. tick' \in Nat /\ tick <= tick' /\ tick' <= MaxTick
  <2>1. CASE LogTick
    BY <2>1, LogStoreAssumption DEF LogTick, LogTypes
  <2>. QED BY <1>2, <2>1 DEF LogTypes, FileInv
<1>4. logFaults <= logFaults'
  BY <1>2 DEF LogFault, LogTypes
<1>5. \/ UNCHANGED <<files, torn>>
      \/ \E u \in LogWorkers \union Cleaners : CreateFile(u) \/ WriteFile(u)
      \/ \E c \in Cleaners : CleanOldDirectories(c)
  <2>. DEFINE SameFiles == UNCHANGED <<files, torn>>
  <2>1. ASSUME NEW w \in LogWorkers, NEW toFile, LogWorker(w, toFile)
        PROVE  SameFiles \/ CreateFile(w) \/ WriteFile(w)
    BY <2>1, Zenon DEF LogWorker, InsertLog, PointRow, BodiesDone, FindStats, WriteStats
  <2>2. ASSUME NEW c \in Cleaners, Cleaner(c)
        PROVE  SameFiles \/ CreateFile(c) \/ WriteFile(c) \/ CleanOldDirectories(c)
    BY <2>2, Zenon DEF Cleaner, PointRow, BodiesDone, DeleteOldRequestLogs,
         DeleteOldestRequestLogs, SelectInline, MigrateRow
  <2>3. CASE UNCHANGED logVars \/ LogTick \/ DeleteConfigLogs \/ LogCrash
    BY <2>3, Zenon DEF logVars, LogTick, DeleteConfigLogs, LogCrash
  <2>. QED BY <2>1, <2>2, <2>3, LogSteps
<1>6. ASSUME NEW f \in Files, Somewhere(f) PROVE Somewhere(f)'
  <2>1. f[3] \in Nat /\ (OldDirectory(f[3]) => OldDirectory(f[3])')
    BY <1>3, Times DEF Files, LogTypes
  <2>2. CASE OldDirectory(f[3])
    BY <2>1, <2>2 DEF Somewhere, There
  <2>3. ASSUME ~OldDirectory(f[3]) PROVE f \in files' \union torn'
    <3>1. f \in files \union torn
      BY <1>6, <2>3 DEF Somewhere, There
    <3>2. ASSUME NEW u, CreateFile(u) PROVE f \in files' \union torn'
      BY <3>1, <3>2 DEF CreateFile
    <3>3. ASSUME NEW u, WriteFile(u) PROVE f \in files' \union torn'
      BY <3>1, <3>3 DEF WriteFile
    <3>4. ASSUME NEW c, CleanOldDirectories(c) PROVE f \in files' \union torn'
      BY <2>3, <3>1, <3>4 DEF CleanOldDirectories
    <3>. QED BY <1>5, <3>1, <3>2, <3>3, <3>4
  <2>. QED BY <2>2, <2>3 DEF Somewhere, There
<1>. QED BY <1>1, <1>2, <1>3, <1>4, <1>6 DEF Mono

\* What every step of Persistence gives, and what it starts from.
Moves ==
    /\ LogTypes /\ LogTypes' /\ StatInv /\ FileInv
    /\ Mono /\ tick' <= MaxTick /\ logged \subseteq logged' /\ logFaults <= logFaults'

\* Goroutines outside U do nothing, those in U keep their part of the invariant.
Stepping(U) ==
    /\ \A v \in (LogWorkers \union Cleaners) \ U : writer'[v] = writer[v]
    /\ \A w \in LogWorkers : w \in U => WorkInv(w)'
    /\ \A c \in Cleaners : c \in U => CleanInv(c)'

LEMMA Combine ==
    ASSUME Moves, NEW U, Stepping(U),
           \A w \in LogWorkers \ U :
             Storing(w) => RowKept(writer[w].log) /\ SureKept(writer[w].log),
           \A c \in Cleaners \ U : Storing(c) => SureKept(writer[c].log),
           Cleaners \subseteq U \/ \A l \in Old : RowKept(l) \/ RowMoved(l),
           \A l \in LogIds : RowInv(l)'
    PROVE  FileInv'
<1>1. ASSUME NEW w \in LogWorkers, w \notin U PROVE WorkInv(w)'
  BY <1>1, WorkStays DEF Moves, FileInv, Stepping
<1>2. ASSUME NEW c \in Cleaners, c \notin U PROVE CleanInv(c)'
  BY <1>2, CleanStays DEF Moves, FileInv, Stepping
<1>3. Old' = Old
  BY OldIds DEF Moves, Mono
<1>. QED BY <1>1, <1>2, <1>3 DEF FileInv, Moves, Stepping

\* The goroutines in U that are writing end with their file complete, or fail.
LEMMA SureQuiet ==
    ASSUME Moves, NEW U,
           \A v \in (LogWorkers \union Cleaners) \ U : writer'[v] = writer[v],
           \A f \in files : f \in files' \/ OldDirectory(f[3]),
           \A c \in Cleaners, f \in Files : c \in U /\ writer[c].pc = "write" /\ File(c) = f =>
              There(f)' \/ logFaults' # 0
    PROVE  \A f \in Files : Sure(f) => Sure(f)'
<1>1. ASSUME NEW f \in Files, Sure(f), NEW c \in Cleaners, writer[c].pc = "write", File(c) = f
      PROVE  writer'[c] = writer[c] \/ There(f)' \/ logFaults' # 0
  BY <1>1
<1>. QED BY <1>1, SureStays DEF Moves, Mono

LEMMA NoneWriting ==
    ASSUME Moves, \A f \in files : f \in files' \/ OldDirectory(f[3]),
           \A c \in Cleaners : writer[c].pc = "write" => writer'[c] = writer[c]
    PROVE  \A f \in Files : Sure(f) => Sure(f)'
BY SureStays DEF Moves, Mono

LEMMA Quiet ==
    ASSUME Moves, NEW U, Stepping(U),
           \A l \in LogIds : RowKept(l),
           \A f \in Files : Sure(f) => Sure(f)'
    PROVE  FileInv'
<1>1. \A l \in LogIds : SureKept(l)
  BY DEF SureKept, Files
<1>2. \A l \in LogIds : RowInv(l)'
  BY <1>1, RowStays DEF Moves, FileInv, SureKept
<1>3. \A w \in LogWorkers : Storing(w) => writer[w].log \in LogIds
  BY BusyLogs DEF Moves, Storing, Busy
<1>4. \A c \in Cleaners : Storing(c) => writer[c].log \in LogIds
  BY OldIds DEF Moves, FileInv, CleanInv
<1>5. \A l \in Old : RowKept(l)
  BY OldIds
<1>. QED BY <1>1, <1>2, <1>3, <1>4, <1>5, Combine

-----------------------------------------------------------------------------
(* Steps that leave the rows, or delete some                               *)

LEMMA NoRowLeft ==
    ASSUME NEW u, writer'[u].pc \notin {"store", "write", "point", "migrate"}
    PROVE  CleanInv(u)' /\ (writer'[u].pc = "idle" => WorkInv(u)')
BY DEF CleanInv, WorkInv, Storing, Busy

LEMMA FileFind ==
    ASSUME Moves, NEW w \in LogWorkers, FindStats(w) \/ WriteStats(w)
    PROVE  FileInv'
<1>. DEFINE U == {w}
<1>1. /\ \A v \in (LogWorkers \union Cleaners) \ U : writer'[v] = writer[v]
      /\ UNCHANGED <<logRow, files>> /\ Busy(w) /\ writer[w].pc # "write" /\ w \notin Cleaners
  BY LogStoreAssumption DEF FindStats, WriteStats, Moves, LogTypes, Busy
<1>2. writer[w] \in Jobs
  BY DEF Moves, LogTypes
<1>3. WorkInv(w)'
  <2>1. CASE writer' = [writer EXCEPT ![w] = Idling]
    BY <2>1, IdlingJob, NoRowLeft DEF Moves, LogTypes
  <2>2. CASE \E i : writer' = [writer EXCEPT ![w].pc = "count", ![w].stat = i]
    <3>1. writer'[w].pc = "count" /\ writer'[w].log = writer[w].log
      BY <1>2, <2>2 DEF Moves, LogTypes, Jobs
    <3>2. Old' = Old /\ writer[w].log \notin Old
      BY <1>1, OldIds DEF Moves, FileInv, WorkInv, Mono
    <3>. QED BY <3>1, <3>2 DEF WorkInv, Storing, Busy
  <2>. QED BY <2>1, <2>2 DEF FindStats, WriteStats
<1>4. Stepping(U)
  BY <1>1, <1>3 DEF Stepping
<1>5. \A f \in Files : Sure(f) => Sure(f)'
  BY <1>1, NoneWriting
<1>. QED BY <1>1, <1>4, <1>5, Quiet DEF RowKept

LEMMA FileDelete ==
    ASSUME Moves, NEW c \in Cleaners,
           DeleteOldRequestLogs(c) \/ CleanOldDirectories(c) \/ DeleteOldestRequestLogs(c)
    PROVE  FileInv'
<1>. DEFINE U == {c}
<1>1. PICK pc \in {"directories", "quota", "select"} : writer' = [writer EXCEPT ![c].pc = pc]
  BY DEF DeleteOldRequestLogs, CleanOldDirectories, DeleteOldestRequestLogs, Goes
<1>2. writer[c] \in Jobs /\ writer[c].pc # "write" /\ c \notin LogWorkers
  BY LogStoreAssumption
  DEF DeleteOldRequestLogs, CleanOldDirectories, DeleteOldestRequestLogs, Moves, LogTypes
<1>3. writer'[c].pc = pc /\ \A v \in (LogWorkers \union Cleaners) \ U : writer'[v] = writer[v]
  BY <1>1, <1>2 DEF Moves, LogTypes, Jobs
<1>4. Stepping(U)
  BY <1>2, <1>3, NoRowLeft DEF Stepping
<1>5. \A f \in files : f \in files' \/ OldDirectory(f[3])
  BY DEF DeleteOldRequestLogs, CleanOldDirectories, DeleteOldestRequestLogs
<1>6. \A l \in LogIds : RowKept(l)
  BY DEF DeleteOldRequestLogs, CleanOldDirectories, DeleteOldestRequestLogs, RowKept
<1>7. \A f \in Files : Sure(f) => Sure(f)'
  BY <1>2, <1>3, <1>5, NoneWriting
<1>. QED BY <1>4, <1>6, <1>7, Quiet

LEMMA FileAside ==
    ASSUME Moves, LogTick \/ DeleteConfigLogs \/ LogCrash
    PROVE  FileInv'
<1>1. files' = files /\ \A l \in LogIds : RowKept(l)
  BY DEF LogTick, DeleteConfigLogs, LogCrash, RowKept
<1>2. CASE UNCHANGED writer
  <2>. DEFINE U == {}
  <2>1. Stepping(U)
    BY <1>2 DEF Stepping
  <2>2. \A f \in Files : Sure(f) => Sure(f)'
    BY <1>1, <1>2, NoneWriting
  <2>. QED BY <1>1, <2>1, <2>2, Quiet
<1>3. CASE LogCrash
  <2>. DEFINE U == LogWorkers \union Cleaners
  <2>1. \A u \in U : writer'[u].pc = "idle"
    BY <1>3, IdlingJob DEF LogCrash, Moves, LogTypes
  <2>2. Stepping(U)
    BY <2>1, NoRowLeft DEF Stepping
  <2>3. logFaults' # 0
    BY <1>3 DEF LogCrash, LogFault, Moves, LogTypes
  <2>4. \A f \in Files : Sure(f) => Sure(f)'
    BY <1>1, <2>3, SureQuiet
  <2>. QED BY <1>1, <2>2, <2>4, Quiet
<1>. QED BY <1>2, <1>3 DEF LogTick, DeleteConfigLogs

\* A cleaner's next statement, where the rows it has read stay what they are.
LEMMA SameUntouched ==
    ASSUME Moves, UNCHANGED logRow
    PROVE  /\ Old' = Old /\ part' = part
           /\ \A l, d : Untouched(l, d) => Untouched(l, d)'
<1>1. part' = part /\ Old' = Old
  BY Times, OldIds DEF Moves, Mono, LogTypes
<1>2. \A l, d : Untouched(l, d) => Untouched(l, d)'
  BY <1>1, UntouchedStays DEF RowKept
<1>. QED BY <1>1, <1>2

LEMMA FileDone ==
    ASSUME Moves, NEW u \in LogWorkers \union Cleaners, BodiesDone(u)
    PROVE  FileInv'
<1>. DEFINE U == {u}
<1>1. /\ UNCHANGED <<tick, logRow, files, torn, logFaults>>
      /\ \A v \in (LogWorkers \union Cleaners) \ U : writer'[v] = writer[v]
      /\ writer[u].pc = "store" /\ writer[u].todo = {}
  BY DEF BodiesDone, Moves, LogTypes
<1>2. writer[u] \in Jobs
  BY DEF Moves, LogTypes
<1>3. \A f \in Files : Sure(f) => Sure(f)'
  BY <1>1, NoneWriting
<1>4. Storing(u) /\ Busy(u)
  BY <1>1 DEF Storing, Busy
<1>5. CASE u \in LogWorkers
  <2>1. u \notin Cleaners
    BY <1>5, LogStoreAssumption
  <2>2. writer'[u].pc = "stats" /\ writer'[u].log = writer[u].log
    BY <1>2, <1>5 DEF BodiesDone, Moves, LogTypes, Jobs
  <2>3. WorkInv(u)'
    BY <1>4, <1>5, <2>2, OldIds DEF Moves, FileInv, WorkInv, Mono, Storing, Busy
  <2>4. Stepping(U)
    BY <1>1, <2>1, <2>3 DEF Stepping
  <2>. QED BY <1>1, <1>3, <2>4, Quiet DEF RowKept
<1>6. CASE u \in Cleaners
  <2>1. u \notin LogWorkers
    BY <1>6, LogStoreAssumption
  <2>2. CleanInv(u)
    BY <1>6 DEF Moves, FileInv
  <2>3. CleanInv(u)'
    <3>1. CASE writer[u].moved # {}
      <4>1. writer' = [writer EXCEPT ![u].pc = "point"]
        BY <2>1, <3>1 DEF BodiesDone
      <4>2. /\ writer'[u].pc = "point" /\ writer'[u].log = writer[u].log
            /\ writer'[u].todo = writer[u].todo /\ writer'[u].moved = writer[u].moved
            /\ writer'[u].dir = writer[u].dir /\ writer'[u].rows = writer[u].rows
        BY <1>2, <4>1 DEF Moves, LogTypes, Jobs
      <4>3. \A k \in writer[u].moved : Sure(<<writer[u].log, k, writer[u].dir>>)'
        <5>1. \A k \in writer[u].moved : <<writer[u].log, k, writer[u].dir>> \in Files
          BY <1>2, <1>4, <2>2, OldIds DEF Files, Jobs, CleanInv
        <5>2. PICK l, d : l = writer[u].log /\ d = writer[u].dir
          OBVIOUS
        <5>3. \A k \in writer[u].moved : Sure(<<l, k, d>>)'
          BY <1>3, <1>4, <2>2, <5>1, <5>2 DEF CleanInv
        <5>4. l = writer'[u].log /\ d = writer'[u].dir
          BY <4>2, <5>2
        <5>. QED BY <5>3, <5>4
      <4>4. \A r \in writer[u].rows : r[1] \in Old' /\ Untouched(r[1], r[2])' /\ r[2] \in Days
        <5>1. \A r \in writer[u].rows : r[1] \in Old /\ Untouched(r[1], r[2]) /\ r[2] \in Days
                                         /\ r[2] \in Nat
          BY <1>2, <1>4, <2>2 DEF CleanInv, Jobs
        <5>. QED BY <1>1, <5>1, SameUntouched
      <4>5. writer[u].log \in Old' /\ writer[u].dir \in Days
            /\ Untouched(writer[u].log, writer[u].dir)'
        <5>1. writer[u].log \in Old /\ writer[u].dir \in Days /\ writer[u].dir \in Nat
              /\ Untouched(writer[u].log, writer[u].dir)
          BY <1>2, <1>4, <2>2, <3>1 DEF CleanInv, Jobs
        <5>2. PICK l, d : l = writer[u].log /\ d = writer[u].dir
          OBVIOUS
        <5>3. Untouched(l, d)' /\ l \in Old' /\ d \in Days
          BY <1>1, <5>1, <5>2, SameUntouched
        <5>4. l = writer'[u].log /\ d = writer'[u].dir
          BY <4>2, <5>2
        <5>. QED BY <5>2, <5>3, <5>4
      <4>. QED BY <1>1, <1>4, <2>2, <4>2, <4>3, <4>4, <4>5 DEF CleanInv, Storing
    <3>2. CASE writer[u].moved = {}
      <4>1. writer' = [writer EXCEPT ![u].pc = "migrate", ![u].log = Nothing]
        BY <2>1, <3>2 DEF BodiesDone
      <4>2. writer'[u].pc = "migrate" /\ writer'[u].rows = writer[u].rows
        BY <1>2, <4>1 DEF Moves, LogTypes, Jobs
      <4>3. \A r \in writer[u].rows : r[1] \in Old' /\ Untouched(r[1], r[2])' /\ r[2] \in Days
        <5>1. \A r \in writer[u].rows : r[1] \in Old /\ Untouched(r[1], r[2]) /\ r[2] \in Days
                                         /\ r[2] \in Nat
          BY <1>2, <1>4, <2>2 DEF CleanInv, Jobs
        <5>. QED BY <1>1, <5>1, SameUntouched
      <4>. QED BY <1>4, <2>2, <4>2, <4>3 DEF CleanInv, Storing
    <3>. QED BY <3>1, <3>2
  <2>4. Stepping(U)
    BY <1>1, <2>1, <2>3 DEF Stepping
  <2>. QED BY <1>1, <1>3, <2>4, Quiet DEF RowKept
<1>. QED BY <1>5, <1>6

\* What a cleaner still knows of the rows it has read.
LEMMA RowsRead ==
    ASSUME Moves, UNCHANGED logRow, NEW c \in Cleaners, Storing(c) \/ writer[c].pc = "migrate"
    PROVE  /\ \A r \in writer[c].rows : r[1] \in Old' /\ Untouched(r[1], r[2])' /\ r[2] \in Days
           /\ \A r, s \in writer[c].rows : r[1] = s[1] => r = s
<1>1. writer[c] \in Jobs /\ CleanInv(c)
  BY DEF Moves, LogTypes, FileInv
<1>2. \A r \in writer[c].rows : r[1] \in Old /\ Untouched(r[1], r[2]) /\ r[2] \in Days
                                 /\ r[2] \in Nat
  BY <1>1 DEF CleanInv, Jobs
<1>. QED BY <1>1, <1>2, SameUntouched DEF CleanInv

\* One body less to store: whether it was stored or not, what holds of the rest.
LEMMA WriteKnows ==
    ASSUME Moves, NEW u \in LogWorkers \union Cleaners, WriteFile(u)
    PROVE  /\ UNCHANGED <<tick, logRow>> /\ writer[u] \in Jobs /\ writer[u].pc = "write"
           /\ Storing(u) /\ Busy(u)
           /\ \A v \in (LogWorkers \union Cleaners) \ {u} : writer'[v] = writer[v]
           /\ writer[u].log \in LogIds /\ File(u) \in Files
           /\ writer'[u].log = writer[u].log /\ writer'[u].dir = writer[u].dir
           /\ writer'[u].rows = writer[u].rows
           /\ writer'[u].todo = writer[u].todo \ {NextKind(writer[u].todo)}
           /\ \/ /\ writer'[u].pc = "store" /\ writer'[u].moved = writer[u].moved
                 /\ logFaults' # 0 /\ UNCHANGED <<files, torn>>
              \/ /\ writer'[u].pc = IF u \in Cleaners /\ writer'[u].todo # {} THEN "store" ELSE "point"
                 /\ writer'[u].moved = writer[u].moved \union {NextKind(writer[u].todo)}
                 /\ \A f \in Files : f = File(u) => There(f)'
           /\ \A f \in Files : Sure(f) => Sure(f)'
<1>1. /\ UNCHANGED <<tick, logRow>> /\ writer[u].pc = "write" /\ Storing(u) /\ Busy(u)
      /\ \A v \in (LogWorkers \union Cleaners) \ {u} : writer'[v] = writer[v]
  BY DEF WriteFile, Moves, LogTypes, Storing, Busy
<1>2. writer[u] \in Jobs
  BY DEF Moves, LogTypes
<1>3. writer[u].log \in LogIds /\ writer[u].todo # {} /\ Somewhere(File(u))
  BY <1>1, BusyLogs, OldIds DEF Moves, FileInv, WorkInv, CleanInv
<1>4. File(u) \in Files /\ File(u)[2] = NextKind(writer[u].todo)
  BY <1>2, <1>3, NextKindIn DEF File, Files, Jobs
<1>. DEFINE rest == writer[u].todo \ {File(u)[2]}
<1>5. CASE /\ writer' = [writer EXCEPT ![u].todo = rest, ![u].pc = "store"]
           /\ LogFault /\ UNCHANGED <<files, torn>>
  <2>1. /\ writer'[u].log = writer[u].log /\ writer'[u].dir = writer[u].dir
        /\ writer'[u].rows = writer[u].rows
        /\ writer'[u].todo = rest /\ writer'[u].pc = "store"
        /\ writer'[u].moved = writer[u].moved
    BY <1>2, <1>5 DEF Moves, LogTypes, Jobs
  <2>2. logFaults' # 0
    BY <1>5 DEF LogFault, Moves, LogTypes
  <2>3. \A f \in Files : Sure(f) => Sure(f)'
    BY <1>1, <1>5, <2>2, SureQuiet
  <2>. QED BY <1>1, <1>2, <1>3, <1>4, <1>5, <2>1, <2>2, <2>3
<1>6. CASE /\ files' = IF File(u) \in torn THEN files \cup {File(u)} ELSE files
           /\ writer' = [writer EXCEPT ![u].todo = rest, ![u].moved = @ \cup {File(u)[2]},
                          ![u].pc = IF u \in Cleaners /\ rest # {} THEN "store" ELSE "point"]
  <2>1. PICK pc : pc = IF u \in Cleaners /\ rest # {} THEN "store" ELSE "point"
    OBVIOUS
  <2>2. /\ writer'[u].log = writer[u].log /\ writer'[u].dir = writer[u].dir
        /\ writer'[u].rows = writer[u].rows
        /\ writer'[u].todo = rest /\ writer'[u].pc = pc
        /\ writer'[u].moved = writer[u].moved \union {File(u)[2]}
    BY <1>2, <1>6, <2>1 DEF Moves, LogTypes, Jobs
  <2>3. \A f \in Files : f = File(u) => There(f)'
    <3>1. PICK f0 \in Files : f0 = File(u)
      BY <1>4
    <3>2. f0 \in files' \/ OldDirectory(f0[3])
      BY <1>3, <1>6, <3>1 DEF Somewhere, There
    <3>3. OldDirectory(f0[3])' <=> OldDirectory(f0[3])
      BY <1>1 DEF OldDirectory, Today
    <3>4. There(f0)'
      BY <3>2, <3>3 DEF There
    <3>. QED BY <3>1, <3>4
  <2>4. \A f \in Files : Sure(f) => Sure(f)'
    <3>1. \A f \in files : f \in files'
      BY <1>6
    <3>2. \A c \in Cleaners, f \in Files : c \in {u} /\ writer[c].pc = "write" /\ File(c) = f =>
              There(f)' \/ logFaults' # 0
      BY <2>3
    <3>. QED BY <1>1, <3>1, <3>2, SureQuiet
  <2>. QED BY <1>1, <1>2, <1>3, <1>4, <2>1, <2>2, <2>3, <2>4
<1>. QED BY <1>5, <1>6 DEF WriteFile

LEMMA FileWrite ==
    ASSUME Moves, NEW u \in LogWorkers \union Cleaners, WriteFile(u)
    PROVE  FileInv'
<1>. DEFINE U == {u}
<1>. PICK l, d, k0 : l = writer[u].log /\ d = writer[u].dir /\ k0 = NextKind(writer[u].todo)
  OBVIOUS
<1>1. l = writer'[u].log /\ d = writer'[u].dir /\ l \in LogIds /\ d \in Nat
  BY WriteKnows DEF Jobs
<1>2. part' = part /\ Old' = Old
  BY WriteKnows, SameUntouched
<1>3. File(u) = <<l, k0, d>> /\ <<l, k0, d>> \in Files
  BY WriteKnows DEF File
\* The files of the bodies moved so far, this one included.
<1>4. ASSUME \A k \in writer[u].moved : Sure(<<l, k, d>>)
      PROVE  \A k \in writer'[u].moved : Sure(<<l, k, d>>)'
  <2>1. ASSUME NEW k \in writer[u].moved PROVE Sure(<<l, k, d>>)'
    <3>1. <<l, k, d>> \in Files
      BY <1>1, WriteKnows DEF Files, Jobs
    <3>. QED BY <1>4, <3>1, WriteKnows
  <2>2. There(<<l, k0, d>>)' => Sure(<<l, k0, d>>)'
    BY DEF Sure
  <2>3. \A k \in writer'[u].moved : k \in writer[u].moved \/ (k = k0 /\ There(<<l, k0, d>>)')
    BY <1>3, WriteKnows
  <2>. QED BY <2>1, <2>2, <2>3
<1>5. CASE u \in LogWorkers
  <2>1. u \notin Cleaners
    BY <1>5, LogStoreAssumption
  <2>2. WorkInv(u) /\ writer[u].log \notin Old
    BY <1>5, WriteKnows DEF Moves, FileInv, WorkInv
  <2>3. writer[u].moved = {} /\ d \in Days /\ d \in Days
    BY <1>1, <1>2, <2>2, WriteKnows DEF WorkInv
  <2>4. \A k \in writer'[u].moved : Sure(<<l, k, d>>)'
    BY <1>4, <2>3
  <2>5. writer'[u].todo \union writer'[u].moved \subseteq writer[u].todo
        /\ writer'[u].todo \cap writer'[u].moved = {}
    <3>1. k0 \in writer[u].todo
      BY <2>2, WriteKnows, NextKindIn DEF WorkInv, Jobs
    <3>. QED BY <2>3, <3>1, WriteKnows
  <2>6. writer'[u].pc \in {"store", "point"} /\ (writer'[u].pc # "point" => writer'[u].moved = {})
    BY <2>1, <2>3, WriteKnows
  <2>7. logRow'[l] # Nothing =>
          /\ \A k \in writer[u].todo : logRow'[l].body[k].path = Empty
          /\ Earliest(logRow'[l].created) <= d
    BY <2>2, WriteKnows DEF WorkInv
  <2>8. WorkInv(u)'
    BY <1>1, <1>2, <2>2, <2>3, <2>4, <2>5, <2>6, <2>7, WriteKnows DEF WorkInv, Storing, Busy
  <2>9. Stepping(U)
    BY <2>1, <2>8, WriteKnows DEF Stepping
  <2>. QED BY <2>9, WriteKnows, Quiet DEF RowKept
<1>6. CASE u \in Cleaners
  <2>1. u \notin LogWorkers
    BY <1>6, LogStoreAssumption
  <2>2. CleanInv(u) /\ writer[u].log \in Old
    BY <1>6, WriteKnows DEF Moves, FileInv, CleanInv
  <2>3. d \in Days /\ d \in Days /\ k0 \in writer[u].todo
    BY <1>1, <1>2, <2>2, WriteKnows, NextKindIn DEF CleanInv, Jobs
  <2>4. \A k \in writer'[u].moved : Sure(<<l, k, d>>)'
    BY <1>4, <2>2, WriteKnows DEF CleanInv
  <2>5. /\ writer'[u].todo \cap writer'[u].moved = {}
        /\ writer'[u].pc \in {"store", "point"}
        /\ writer'[u].pc = "point" => writer'[u].todo = {}
    BY <1>6, <2>2, WriteKnows DEF CleanInv
  <2>6. Untouched(l, d)'
    <3>1. Untouched(l, d)
      BY <2>2, <2>3, WriteKnows DEF CleanInv
    <3>. QED BY <3>1, WriteKnows, SameUntouched
  <2>7. /\ \A r \in writer[u].rows : r[1] \in Old' /\ Untouched(r[1], r[2])' /\ r[2] \in Days
        /\ \A r, s \in writer[u].rows : r[1] = s[1] => r = s
        /\ \A r \in writer[u].rows : r[1] # l
    BY <1>6, <2>2, WriteKnows, RowsRead DEF CleanInv
  <2>8. CleanInv(u)'
    BY <1>1, <1>2, <2>2, <2>3, <2>4, <2>5, <2>6, <2>7, WriteKnows DEF CleanInv, Storing
  <2>9. Stepping(U)
    BY <2>1, <2>8, WriteKnows DEF Stepping
  <2>. QED BY <2>9, WriteKnows, Quiet DEF RowKept
<1>. QED BY <1>5, <1>6

LEMMA FileSelect ==
    ASSUME Moves, NEW c \in Cleaners, SelectInline(c)
    PROVE  FileInv'
<1>. DEFINE U == {c}
            inline == {o \in LogIds : logRow[o] # Nothing /\
                          \E k \in Kinds : /\ logRow[o].body[k].inline
                                           /\ logRow[o].body[k].path = Null}
            rows == {<<l, Day(logRow[l].created)>> : l \in inline}
<1>1. /\ UNCHANGED <<tick, logRow, files, torn, logFaults>>
      /\ writer' = [writer EXCEPT ![c].pc = "migrate", ![c].rows = rows]
      /\ \A v \in (LogWorkers \union Cleaners) \ U : writer'[v] = writer[v]
      /\ writer[c].pc = "select" /\ c \notin LogWorkers
  BY LogStoreAssumption DEF SelectInline, Moves, LogTypes
<1>2. ASSUME NEW l \in inline
      PROVE  l \in Old /\ Untouched(l, Day(logRow[l].created)) /\ Day(logRow[l].created) \in Days
  <2>1. RowInv(l) /\ logRow[l] # Nothing /\ \E k \in Kinds : logRow[l].body[k].path = Null
    BY DEF Moves, FileInv
  <2>2. logRow[l] \in LogRows
    BY <2>1 DEF Moves, LogTypes
  <2>3. logRow[l].created \in Nat /\ logRow[l].created <= tick /\ tick \in Nat /\ tick <= MaxTick
    BY <2>1, <2>2 DEF LogRows, RowInv, Moves, LogTypes, FileInv
  <2>4. Day(logRow[l].created) \in Days
    BY <2>3, DayGrows, LogStoreAssumption
  <2>. QED BY <2>1, <2>4 DEF RowInv, Untouched
<1>. HIDE DEF inline
<1>3. \A r \in rows : \E l \in inline : r = <<l, Day(logRow[l].created)>>
  OBVIOUS
<1>4. \A r, s \in rows : r[1] = s[1] => r = s
  BY <1>3
<1>. HIDE DEF rows
<1>5. writer[c] \in Jobs
  BY DEF Moves, LogTypes
<1>6. writer'[c].pc = "migrate" /\ writer'[c].rows = rows
  BY <1>1, <1>5 DEF Moves, LogTypes, Jobs
<1>7. \A r \in rows : r[1] \in Old' /\ Untouched(r[1], r[2])' /\ r[2] \in Days
  <2>1. ASSUME NEW r \in rows PROVE r[1] \in Old /\ Untouched(r[1], r[2]) /\ r[2] \in Days
    <3>1. PICK l \in inline : r = <<l, Day(logRow[l].created)>>
      BY <1>3
    <3>2. r[1] = l /\ r[2] = Day(logRow[l].created)
      BY <3>1
    <3>. QED BY <1>2, <3>2
  <2>. QED BY <1>1, <2>1, SameUntouched
<1>8. CleanInv(c)'
  BY <1>4, <1>6, <1>7 DEF CleanInv, Storing
<1>9. Stepping(U)
  BY <1>1, <1>8 DEF Stepping
<1>10. \A f \in Files : Sure(f) => Sure(f)'
  BY <1>1, NoneWriting
<1>. QED BY <1>1, <1>9, <1>10, Quiet DEF RowKept

LEMMA FileMigrate ==
    ASSUME Moves, NEW c \in Cleaners, MigrateRow(c)
    PROVE  FileInv'
<1>. DEFINE U == {c}
<1>1. /\ UNCHANGED <<tick, logRow, files, torn, logFaults>>
      /\ \A v \in (LogWorkers \union Cleaners) \ U : writer'[v] = writer[v]
      /\ writer[c].pc = "migrate" /\ c \notin LogWorkers
  BY LogStoreAssumption DEF MigrateRow, Moves, LogTypes
<1>2. writer[c] \in Jobs /\ CleanInv(c)
  BY DEF Moves, LogTypes, FileInv
<1>3. /\ \A r \in writer[c].rows : r[1] \in Old' /\ Untouched(r[1], r[2])' /\ r[2] \in Days
      /\ \A r, s \in writer[c].rows : r[1] = s[1] => r = s
  BY <1>1, RowsRead
<1>4. CleanInv(c)'
  <2>1. CASE writer' = [writer EXCEPT ![c] = Idling]
    <3>1. writer'[c].pc = "idle"
      BY <2>1, IdlingJob DEF Moves, LogTypes
    <3>. QED BY <3>1, NoRowLeft
  <2>2. ASSUME NEW r \in writer[c].rows,
               writer' = [writer EXCEPT ![c] =
                 [Idling EXCEPT !.pc = "store", !.log = r[1], !.dir = r[2], !.todo = Kinds,
                                !.rows = writer[c].rows \ {r}]]
        PROVE  CleanInv(c)'
    <3>1. /\ writer'[c].pc = "store" /\ writer'[c].log = r[1] /\ writer'[c].dir = r[2]
          /\ writer'[c].moved = {} /\ writer'[c].rows = writer[c].rows \ {r}
      BY <2>2 DEF Moves, LogTypes, Idling
    <3>2. PICK l, d : l = r[1] /\ d = r[2]
      OBVIOUS
    <3>3. l \in Old' /\ Untouched(l, d)' /\ d \in Days
      BY <1>3, <3>2
    <3>4. \A s \in writer[c].rows \ {r} : s[1] # l
      BY <1>3, <3>2
    <3>5. \A s, t \in writer[c].rows \ {r} : s[1] = t[1] => s = t
      BY <1>3
    <3>6. l = writer'[c].log /\ d = writer'[c].dir
      BY <3>1, <3>2
    <3>. QED BY <1>3, <3>1, <3>3, <3>4, <3>5, <3>6 DEF CleanInv, Storing
  <2>. QED BY <2>1, <2>2 DEF MigrateRow
<1>5. Stepping(U)
  BY <1>1, <1>4 DEF Stepping
<1>6. \A f \in Files : Sure(f) => Sure(f)'
  BY <1>1, NoneWriting
<1>. QED BY <1>1, <1>5, <1>6, Quiet DEF RowKept

-----------------------------------------------------------------------------
(* Steps that make a row, a file, or point a row at its files              *)

LEMMA FileInsert ==
    ASSUME Moves, NEW w \in LogWorkers, NEW l \in LogIds, NEW toFile \in BOOLEAN,
           InsertLog(w, l, toFile)
    PROVE  FileInv'
<1>. DEFINE U == {w}
<1>1. /\ UNCHANGED <<tick, files, torn>> /\ l \notin logged /\ l \notin Old
      /\ \A v \in (LogWorkers \union Cleaners) \ U : writer'[v] = writer[v]
      /\ writer[w].pc = "idle" /\ w \notin Cleaners
  BY LogStoreAssumption DEF InsertLog, Moves, LogTypes, FileInv
<1>2. \A f \in Files : Sure(f) => Sure(f)'
  BY <1>1, NoneWriting
<1>3. \A x \in LogIds : SureKept(x)
  BY <1>2 DEF SureKept, Files
<1>4. Old' = Old
  BY OldIds DEF Moves, Mono
<1>5. CASE UNCHANGED <<logRow, writer>>
  <2>1. WorkInv(w)'
    BY <1>1, <1>5, NoRowLeft
  <2>2. Stepping(U)
    BY <1>1, <2>1 DEF Stepping
  <2>. QED BY <1>2, <1>5, <2>2, Quiet DEF RowKept
<1>6. CASE ~UNCHANGED <<logRow, writer>>
  <2>. DEFINE row == [created |-> tick,
                      body |-> [k \in Kinds |-> [inline |-> TRUE, path |-> Empty]]]
  <2>1. /\ logRow' = [logRow EXCEPT ![l] = row]
        /\ writer' = [writer EXCEPT ![w] =
                 [Idling EXCEPT !.log = l, !.todo = IF toFile THEN Kinds ELSE {},
                                !.pc = IF toFile THEN "store" ELSE "stats",
                                !.dir = LocalDay(tick)]]
    BY <1>6 DEF InsertLog
  <2>2. /\ writer'[w].log = l /\ writer'[w].pc \in {"store", "stats"} /\ writer'[w].moved = {}
        /\ writer'[w].todo \subseteq Kinds /\ writer'[w].dir = LocalDay(tick)
    BY <2>1 DEF Moves, LogTypes, Idling
  <2>2a. LocalDay(tick) \in Days /\ Earliest(tick) <= LocalDay(tick)
    BY DayGrows DEF Moves, LogTypes, FileInv
  <2>3. row.created = tick /\ \A k \in Kinds : row.body[k].path = Empty /\ row.body[k].inline
    OBVIOUS
  <2>. HIDE DEF row
  <2>4. logRow'[l] = row /\ \A x \in LogIds : x # l => logRow'[x] = logRow[x]
    BY <2>1 DEF Moves, LogTypes
  <2>5. WorkInv(w)'
    BY <1>1, <1>4, <2>2, <2>2a, <2>3, <2>4 DEF WorkInv, Storing, Busy
  <2>6. RowInv(l)'
    BY <1>1, <2>3, <2>4, LogStoreAssumption DEF RowInv, Moves, LogTypes
  <2>7. \A x \in LogIds : RowInv(x)'
    <3>1. ASSUME NEW x \in LogIds, x # l PROVE RowInv(x)'
      BY <1>3, <2>4, <3>1, RowStays DEF Moves, FileInv, RowKept, SureKept
    <3>. QED BY <2>6, <3>1
  <2>8. \A v \in LogWorkers \ U : Storing(v) => RowKept(writer[v].log) /\ SureKept(writer[v].log)
    <3>1. ASSUME NEW v \in LogWorkers, Storing(v) PROVE writer[v].log \in LogIds /\ writer[v].log # l
      BY <1>1, <3>1, BusyLogs DEF Moves, Storing, Busy
    <3>. QED BY <1>3, <2>4, <3>1 DEF RowKept
  <2>9. \A c \in Cleaners \ U : Storing(c) => SureKept(writer[c].log)
    BY <1>3, OldIds DEF Moves, FileInv, CleanInv
  <2>10. \A x \in Old : RowKept(x)
    BY <1>1, <2>4, OldIds DEF RowKept
  <2>11. Stepping(U)
    BY <1>1, <2>5 DEF Stepping
  <2>. QED BY <2>7, <2>8, <2>9, <2>10, <2>11, Combine
<1>. QED BY <1>5, <1>6

\* Of the cleaners only c moves, unless cleanups overlap.
Alone(c) ==
    /\ part \in {"retention", "cleanups overlap"}
    /\ part = "retention" => \A d \in Cleaners \ {c} : writer[d].pc = "idle"

LEMMA OtherLogs ==
    ASSUME Moves, NEW u \in LogWorkers \union Cleaners, Storing(u), u \in Cleaners => Alone(u)
    PROVE  /\ writer[u].log \in LogIds
           /\ \A w \in LogWorkers \ {u} : Storing(w) =>
                writer[w].log \in LogIds /\ writer[w].log # writer[u].log
           /\ \A c \in Cleaners \ {u} : Storing(c) =>
                /\ writer[c].log \in LogIds
                /\ (writer[c].log # writer[u].log \/ (u \in Cleaners /\ Overlap))
<1>1. \A w \in LogWorkers : Storing(w) => writer[w].log \in LogIds \ Old /\ Busy(w)
  BY BusyLogs DEF Moves, FileInv, WorkInv, Storing, Busy
<1>2. \A c \in Cleaners : Storing(c) => writer[c].log \in Old /\ writer[c].pc # "idle"
  BY DEF Moves, FileInv, CleanInv, Storing
<1>3. \A w, v \in LogWorkers : w # v /\ Busy(w) /\ Busy(v) => writer[w].log # writer[v].log
  BY DEF Moves, StatInv
<1>4. u \in Cleaners => Overlap \/ \A c \in Cleaners \ {u} : ~Storing(c)
  BY <1>2 DEF Alone, Overlap
<1>5. Old \in SUBSET LogIds
  BY OldIds
<1>6. CASE u \in LogWorkers
  BY <1>1, <1>2, <1>3, <1>5, <1>6
<1>7. CASE u \in Cleaners
  BY <1>1, <1>2, <1>4, <1>5, <1>7
<1>. QED BY <1>6, <1>7

LEMMA FileNotMade ==
    ASSUME Moves, NEW u \in LogWorkers \union Cleaners, CreateFile(u),
           UNCHANGED <<files, torn>>,
           NEW k, writer' = [writer EXCEPT ![u].todo = @ \ {k}]
    PROVE  FileInv'
<1>. DEFINE U == {u}
<1>1. /\ UNCHANGED <<tick, logRow>> /\ writer[u].pc = "store" /\ Storing(u) /\ Busy(u)
      /\ \A v \in (LogWorkers \union Cleaners) \ U : writer'[v] = writer[v]
  BY DEF CreateFile, Moves, LogTypes, Storing, Busy
<1>2. writer[u] \in Jobs
  BY DEF Moves, LogTypes
<1>3. /\ writer'[u].pc = "store" /\ writer'[u].log = writer[u].log
      /\ writer'[u].dir = writer[u].dir /\ writer'[u].moved = writer[u].moved
      /\ writer'[u].rows = writer[u].rows /\ writer'[u].todo \subseteq writer[u].todo
  BY <1>1, <1>2 DEF Moves, LogTypes, Jobs
<1>4. \A f \in Files : Sure(f) => Sure(f)'
  BY <1>1, NoneWriting
<1>. PICK l, d : l = writer[u].log /\ d = writer[u].dir
  OBVIOUS
<1>5. l = writer'[u].log /\ d = writer'[u].dir /\ d \in Nat
  BY <1>2, <1>3 DEF Jobs
<1>6. part' = part /\ Old' = Old
  BY <1>1, SameUntouched
<1>7. CASE u \in LogWorkers
  <2>1. u \notin Cleaners
    BY <1>7, LogStoreAssumption
  <2>2. WorkInv(u)
    BY <1>7 DEF Moves, FileInv
  <2>3. WorkInv(u)'
    BY <1>1, <1>3, <1>5, <1>6, <2>2 DEF WorkInv, Storing, Busy
  <2>4. Stepping(U)
    BY <1>1, <2>1, <2>3 DEF Stepping
  <2>. QED BY <1>1, <1>4, <2>4, Quiet DEF RowKept
<1>8. CASE u \in Cleaners
  <2>1. u \notin LogWorkers
    BY <1>8, LogStoreAssumption
  <2>2. CleanInv(u) /\ l \in Old /\ d \in Days
    BY <1>1, <1>8 DEF Moves, FileInv, CleanInv
  <2>3. \A k1 \in writer[u].moved : Sure(<<l, k1, d>>)'
    <3>1. ASSUME NEW k1 \in writer[u].moved PROVE Sure(<<l, k1, d>>)'
      <4>1. Sure(<<l, k1, d>>)
        BY <1>1, <2>2 DEF CleanInv
      <4>2. <<l, k1, d>> \in Files
        BY <1>2, <1>5, <2>2, OldIds DEF Files, Jobs
      <4>. QED BY <1>4, <4>1, <4>2
    <3>. QED BY <3>1
  <2>4. writer'[u].todo \union writer'[u].moved # {} => Untouched(l, d)'
    <3>1. writer[u].todo \union writer[u].moved # {} => Untouched(l, d)
      BY <1>1, <2>2 DEF CleanInv
    <3>. QED BY <1>1, <1>3, <3>1, SameUntouched
  <2>5. /\ \A r \in writer[u].rows : r[1] \in Old' /\ Untouched(r[1], r[2])' /\ r[2] \in Days
        /\ \A r, s \in writer[u].rows : r[1] = s[1] => r = s
        /\ \A r \in writer[u].rows : r[1] # l
        /\ writer[u].todo \cap writer[u].moved = {}
    BY <1>1, <1>8, <2>2, RowsRead DEF CleanInv
  <2>6. CleanInv(u)'
    BY <1>3, <1>5, <1>6, <2>2, <2>3, <2>4, <2>5 DEF CleanInv, Storing
  <2>7. Stepping(U)
    BY <1>1, <2>1, <2>6 DEF Stepping
  <2>. QED BY <1>1, <1>4, <2>7, Quiet DEF RowKept
<1>. QED BY <1>7, <1>8

LEMMA FileMade ==
    ASSUME Moves, NEW u \in LogWorkers \union Cleaners, CreateFile(u), u \in Cleaners => Alone(u),
           torn' = torn \cup {File(u)}, files' = files \ {File(u)},
           writer' = [writer EXCEPT ![u].pc = "write"]
    PROVE  FileInv'
<1>. DEFINE U == {u}
<1>. PICK day : day = writer[u].dir
  OBVIOUS
<1>1. /\ UNCHANGED <<tick, logRow>> /\ writer[u].pc = "store" /\ writer[u].todo # {}
      /\ \A v \in (LogWorkers \union Cleaners) \ U : writer'[v] = writer[v]
      /\ Storing(u) /\ Busy(u)
  BY DEF CreateFile, Moves, LogTypes, Storing, Busy
<1>2. writer[u] \in Jobs /\ day \in Nat
  BY DEF Moves, LogTypes, Jobs
<1>3. /\ writer'[u].pc = "write" /\ writer'[u].dir = day /\ writer'[u].log = writer[u].log
      /\ writer'[u].todo = writer[u].todo /\ writer'[u].moved = writer[u].moved
      /\ writer'[u].rows = writer[u].rows
  BY <1>2 DEF Moves, LogTypes, Jobs
<1>. PICK l, k0, f0 : l = writer[u].log /\ k0 = NextKind(writer[u].todo) /\ f0 = <<l, k0, day>>
  OBVIOUS
<1>4. l \in LogIds /\ k0 \in writer[u].todo /\ k0 \in Kinds /\ f0 \in Files /\ l = writer'[u].log
  BY <1>1, <1>2, <1>3, NextKindIn, OtherLogs DEF Jobs, Files
<1>5. f0 = File(u) /\ f0 = File(u)' /\ f0 \in torn'
  BY <1>3, <1>4 DEF File
<1>6. part' = part /\ Old' = Old
  BY <1>1, SameUntouched
<1>7. Somewhere(File(u))'
  BY <1>5 DEF Somewhere
\* Only the file it truncates is not to be relied on any more.
<1>8. \A f \in Files : Sure(f) => Sure(f)' \/ (f = f0 /\ ~(u \in Cleaners /\ Overlap))
  <2>1. ASSUME NEW f \in Files, Sure(f), f # f0 PROVE Sure(f)'
    <3>1. f \in files => f \in files'
      BY <1>2, <1>5, <2>1
    <3>2. \A c \in Cleaners : writer[c].pc = "write" => writer'[c] = writer[c]
      BY <1>1
    <3>. QED BY <2>1, <3>1, <3>2, SureStays DEF Moves, Mono
  <2>2. u \in Cleaners /\ Overlap => Sure(f0)'
    BY <1>3, <1>5, <1>6 DEF Sure, Overlap
  <2>. QED BY <2>1, <2>2
<1>9. \A x \in LogIds : x # l \/ (u \in Cleaners /\ Overlap) => SureKept(x)
  BY <1>8 DEF SureKept, Files
<1>10. \A w \in LogWorkers \ U : Storing(w) => RowKept(writer[w].log) /\ SureKept(writer[w].log)
  BY <1>1, <1>9, OtherLogs DEF RowKept
<1>11. \A c \in Cleaners \ U : Storing(c) => SureKept(writer[c].log)
  BY <1>1, <1>9, OtherLogs
<1>12. \A x \in Old : RowKept(x)
  BY <1>1 DEF RowKept
<1>13. \A x \in LogIds : RowInv(x)'
  <2>1. ASSUME NEW x \in LogIds, NEW k \in Kinds, NEW p \in Nat, logRow[x] # Nothing,
               logRow[x].body[k].path = p, Sure(<<x, k, p>>)
        PROVE  Sure(<<x, k, p>>)'
    <3>1. <<x, k, p>> \in Files
      BY <2>1 DEF Files
    <3>2. CASE <<x, k, p>> # f0 \/ (u \in Cleaners /\ Overlap)
      BY <1>8, <2>1, <3>1, <3>2
    <3>3. CASE x = l /\ k = k0 /\ u \in Cleaners /\ ~Overlap
      <4>1. Untouched(l, writer[u].dir)
        BY <1>1, <1>4, <3>3 DEF Moves, FileInv, CleanInv
      <4>. QED BY <2>1, <3>3, <4>1, LogStoreAssumption DEF Untouched
    <3>4. CASE x = l /\ k = k0 /\ u \in LogWorkers
      <4>1. logRow[l].body[k0].path = Empty
        BY <1>1, <1>4, <2>1, <3>4 DEF Moves, FileInv, WorkInv
      <4>. QED BY <2>1, <3>4, <4>1, LogStoreAssumption
    <3>. QED BY <3>2, <3>3, <3>4
  <2>2. \A x \in LogIds : RowKept(x)
    BY <1>1 DEF RowKept
  <2>. QED BY <2>1, <2>2, RowStays DEF Moves, FileInv
<1>14. CASE u \in LogWorkers
  <2>1. u \notin Cleaners
    BY <1>14, LogStoreAssumption
  <2>2. WorkInv(u)
    BY <1>14 DEF Moves, FileInv
  <2>3. writer[u].moved = {} /\ l \notin Old /\ day \in Days
    BY <1>1, <2>2 DEF WorkInv
  <2>4. logRow[l] # Nothing =>
          /\ Earliest(logRow[l].created) <= day
          /\ \A k \in writer[u].todo \union writer[u].moved : logRow[l].body[k].path = Empty
    BY <1>1, <2>2 DEF WorkInv
  <2>6. WorkInv(u)'
    <3>1. writer'[u].log \notin Old' /\ writer'[u].moved = {} /\ writer'[u].todo # {}
      <4>1. writer'[u].moved = {}
        BY <1>3, <2>3
      <4>2. writer'[u].todo # {}
        BY <1>1, <1>3
      <4>3. Old' = Old
        BY <1>6
      <4>4. writer'[u].log \notin Old
        BY <1>4, <2>3
      <4>. QED BY <4>1, <4>2, <4>3, <4>4
    <3>2. logRow'[writer'[u].log] # Nothing =>
            /\ \A k \in writer'[u].todo \union writer'[u].moved :
                 logRow'[writer'[u].log].body[k].path = Empty
            /\ Earliest(logRow'[writer'[u].log].created) <= writer'[u].dir
      BY <1>1, <1>3, <1>4, <2>4
    <3>3. writer'[u].dir \in Days
      BY <1>3, <2>3
    <3>. QED BY <1>3, <1>7, <3>1, <3>2, <3>3 DEF WorkInv
  <2>7. Stepping(U)
    BY <1>1, <2>1, <2>6 DEF Stepping
  <2>. QED BY <1>10, <1>11, <1>12, <1>13, <2>7, Combine
<1>15. CASE u \in Cleaners
  <2>1. u \notin LogWorkers
    BY <1>15, LogStoreAssumption
  <2>2. CleanInv(u) /\ l \in Old /\ day \in Days /\ Untouched(l, day)
        /\ writer[u].todo \cap writer[u].moved = {}
    BY <1>1, <1>4, <1>15, <2>1 DEF Moves, FileInv, CleanInv
  <2>3. \A k \in writer[u].moved : Sure(<<l, k, day>>)'
    <3>1. ASSUME NEW k \in writer[u].moved PROVE Sure(<<l, k, day>>)'
      <4>1. Sure(<<l, k, day>>)
        BY <1>1, <2>1, <2>2 DEF CleanInv
      <4>2. <<l, k, day>> \in Files /\ k # k0
        BY <1>2, <1>4, <2>2 DEF Files, Jobs
      <4>. QED BY <1>8, <4>1, <4>2
    <3>. QED BY <3>1
  <2>4. Untouched(l, day)' /\ day \in Days
    BY <1>1, <1>2, <1>6, <2>2, SameUntouched
  <2>5. /\ \A r \in writer[u].rows : r[1] \in Old' /\ Untouched(r[1], r[2])' /\ r[2] \in Days
        /\ \A r, s \in writer[u].rows : r[1] = s[1] => r = s
        /\ \A r \in writer[u].rows : r[1] # l
    BY <1>1, <1>15, <2>2, RowsRead DEF CleanInv
  <2>6. CleanInv(u)'
    <3>1. \A r \in writer'[u].rows : r[1] \in Old' /\ Untouched(r[1], r[2])' /\ r[2] \in Days
      BY <1>3, <2>5
    <3>2. /\ \A r, s \in writer'[u].rows : r[1] = s[1] => r = s
          /\ \A r \in writer'[u].rows : r[1] # writer'[u].log
      BY <1>3, <1>4, <2>5
    <3>3. /\ writer'[u].log \in Old' /\ writer'[u].dir \in Days
          /\ writer'[u].todo \cap writer'[u].moved = {} /\ writer'[u].todo # {}
      <4>1. writer'[u].todo # {} /\ writer'[u].todo \cap writer'[u].moved = {}
        BY <1>1, <1>3, <2>2
      <4>3. Old' = Old
        BY <1>6
      <4>4. writer'[u].log \in Old
        BY <1>4, <2>2
      <4>5. writer'[u].dir \in Days
        BY <1>3, <2>4
      <4>. QED BY <4>1, <4>3, <4>4, <4>5
    <3>4. Untouched(writer[u].log, writer[u].dir)'
      BY <1>3, <1>4, <2>4
    <3>5. \A k \in writer'[u].moved : Sure(<<writer[u].log, k, writer[u].dir>>)'
      BY <1>3, <1>4, <2>3
    <3>. QED BY <1>3, <1>7, <3>1, <3>2, <3>3, <3>4, <3>5 DEF CleanInv
  <2>7. Stepping(U)
    BY <1>1, <2>1, <2>6 DEF Stepping
  <2>. QED BY <1>10, <1>11, <1>12, <1>13, <2>7, Combine
<1>. QED BY <1>14, <1>15

LEMMA FileCreate ==
    ASSUME Moves, NEW u \in LogWorkers \union Cleaners, CreateFile(u), u \in Cleaners => Alone(u)
    PROVE  FileInv'
<1>1. CASE /\ torn' = torn \cup {File(u)} /\ files' = files \ {File(u)}
           /\ writer' = [writer EXCEPT ![u].pc = "write"]
  BY <1>1, FileMade
<1>2. CASE writer' = [writer EXCEPT ![u].todo = @ \ {File(u)[2]}] /\ UNCHANGED <<torn, files>>
  BY <1>2, FileNotMade
<1>. QED BY <1>1, <1>2 DEF CreateFile, Goes

\* What PointRow leaves, whether it updated the row or failed to.
LEMMA PointKnows ==
    ASSUME Moves, NEW u \in LogWorkers \union Cleaners, PointRow(u)
    PROVE  /\ UNCHANGED <<tick, files, torn>> /\ writer[u] \in Jobs
           /\ writer[u].pc = "point" /\ Storing(u) /\ Busy(u)
           /\ \A v \in (LogWorkers \union Cleaners) \ {u} : writer'[v] = writer[v]
           /\ writer'[u].pc = "store" /\ writer'[u].moved = {}
           /\ writer'[u].log = writer[u].log /\ writer'[u].dir = writer[u].dir
           /\ writer'[u].todo = writer[u].todo /\ writer'[u].rows = writer[u].rows
           /\ \A f \in Files : Sure(f) => Sure(f)'
           /\ part' = part /\ Old' = Old
<1>1. /\ UNCHANGED <<tick, files, torn>> /\ writer[u].pc = "point" /\ Storing(u) /\ Busy(u)
      /\ writer' = [writer EXCEPT ![u].pc = "store", ![u].moved = {}]
  BY DEF PointRow, Storing, Busy
<1>2. writer[u] \in Jobs
  BY DEF Moves, LogTypes
<1>3. /\ \A v \in (LogWorkers \union Cleaners) \ {u} : writer'[v] = writer[v]
      /\ writer'[u].pc = "store" /\ writer'[u].moved = {}
      /\ writer'[u].log = writer[u].log /\ writer'[u].dir = writer[u].dir
      /\ writer'[u].todo = writer[u].todo /\ writer'[u].rows = writer[u].rows
  BY <1>1, <1>2 DEF Moves, LogTypes, Jobs
<1>4. \A f \in Files : Sure(f) => Sure(f)'
  BY <1>1, <1>3, NoneWriting
<1>5. part' = part /\ Old' = Old
  BY Times, OldIds DEF Moves, Mono, LogTypes
<1>. QED BY <1>1, <1>2, <1>3, <1>4, <1>5

\* The row that PointRow has updated.
LEMMA PointedInv ==
    ASSUME Moves, NEW u \in LogWorkers \union Cleaners, PointRow(u), logRow' # logRow
    PROVE  RowInv(writer[u].log)'
<1>. PICK l, d : l = writer[u].log /\ d = writer[u].dir
  OBVIOUS
<1>1. /\ l \in LogIds /\ logRow[l] \in LogRows /\ logRow[l] # Nothing
      /\ logRow'[l].created = logRow[l].created
      /\ \A k \in Kinds :
           logRow'[l].body[k] = IF k \in writer[u].moved THEN [inline |-> FALSE, path |-> d]
                                ELSE IF u \in Cleaners /\ logRow[l].body[k].path = Null
                                THEN [logRow[l].body[k] EXCEPT !.path = Empty]
                                ELSE logRow[l].body[k]
  BY PointedRow DEF Moves
<1>2. /\ logRow[l].created <= tick /\ tick' = tick
      /\ \A k \in Kinds : logRow[l].body[k] \in Bodies
  BY <1>1, PointKnows DEF Moves, FileInv, RowInv, LogRows
<1>3. d \in Nat /\ d \in Days
  <2>1. d \in Nat
    BY PointKnows DEF Jobs
  <2>2. CASE u \in LogWorkers
    BY <2>1, <2>2, PointKnows DEF Moves, FileInv, WorkInv
  <2>3. CASE u \in Cleaners
    BY <2>1, <2>3, PointKnows DEF Moves, FileInv, CleanInv
  <2>. QED BY <2>1, <2>2, <2>3
\* The files it points at now are there, in a directory of its day or later.
<1>4. ASSUME NEW k \in writer[u].moved
      PROVE  k \in Kinds /\ Sure(<<l, k, d>>)' /\ Earliest(logRow[l].created) <= d
  <2>1. k \in Kinds /\ <<l, k, d>> \in Files
    BY <1>1, <1>3, PointKnows DEF Jobs, Files
  <2>2. CASE u \in LogWorkers
    BY <1>1, <2>1, <2>2, PointKnows DEF Moves, FileInv, WorkInv
  <2>3. CASE u \in Cleaners
    <3>1. Untouched(l, d) /\ Sure(<<l, k, d>>)
      BY <2>3, PointKnows DEF Moves, FileInv, CleanInv
    <3>2. Day(logRow[l].created) \in Nat /\ Earliest(logRow[l].created) <= Day(logRow[l].created)
      BY <1>1, DayGrows DEF LogRows
    <3>. QED BY <1>1, <1>3, <2>1, <3>1, <3>2, PointKnows DEF Untouched
  <2>. QED BY <2>1, <2>2, <2>3
<1>5. RowInv(l)
  BY <1>1 DEF Moves, FileInv
<1>6. ASSUME NEW k \in Kinds, k \in writer[u].moved
      PROVE  logRow'[l].body[k].path = d
  <2>1. logRow'[l].body[k] = [inline |-> FALSE, path |-> d]
    BY <1>1, <1>6
  <2>2. [inline |-> FALSE, path |-> d].path = d
    OBVIOUS
  <2>. QED BY <2>1, <2>2
<1>7. ASSUME NEW k \in Kinds, k \notin writer[u].moved
      PROVE  /\ logRow'[l].body[k].inline = logRow[l].body[k].inline
             /\ \/ logRow'[l].body[k].path = logRow[l].body[k].path
                     /\ ~(u \in Cleaners /\ logRow[l].body[k].path = Null)
                \/ logRow'[l].body[k].path = Empty /\ logRow[l].body[k].path = Null
  <2>1. logRow[l].body[k] \in Bodies
    BY <1>2
  <2>2. CASE u \in Cleaners /\ logRow[l].body[k].path = Null
    <3>1. logRow'[l].body[k] = [logRow[l].body[k] EXCEPT !.path = Empty]
      BY <1>1, <1>7, <2>2
    <3>. QED BY <2>1, <2>2, <3>1 DEF Bodies
  <2>3. CASE ~(u \in Cleaners /\ logRow[l].body[k].path = Null)
    <3>1. logRow'[l].body[k] = logRow[l].body[k]
      BY <1>1, <1>7, <2>3
    <3>. QED BY <2>3, <3>1
  <2>. QED BY <2>2, <2>3
<1>8. Null \notin Nat /\ Empty \notin Nat /\ Null # Empty
  BY LogStoreAssumption
<1>9. ASSUME NEW k \in Kinds
      PROVE  /\ logRow'[l].body[k].path \notin Nat => logRow'[l].body[k].inline
             /\ \A p \in Nat : logRow'[l].body[k].path = p =>
                  /\ Earliest(logRow'[l].created) <= p /\ p \in Days
                  /\ Sure(<<l, k, p>>)'
             /\ logRow'[l].body[k].path # Null
  <2>1. CASE k \in writer[u].moved
    BY <1>1, <1>3, <1>4, <1>6, <1>8, <2>1, PointKnows
  <2>2. CASE k \notin writer[u].moved
    <3>1. ASSUME NEW p \in Nat, logRow'[l].body[k].path = p
          PROVE  Earliest(logRow'[l].created) <= p /\ p \in Days /\ Sure(<<l, k, p>>)'
      <4>1. logRow[l].body[k].path = p
        BY <1>7, <1>8, <2>2, <3>1
      <4>2. Earliest(logRow[l].created) <= p /\ p \in Days /\ Sure(<<l, k, p>>)
        BY <1>1, <1>5, <4>1 DEF RowInv
      <4>3. <<l, k, p>> \in Files
        BY <1>1 DEF Files
      <4>. QED BY <1>1, <4>2, <4>3, PointKnows
    <3>2. logRow'[l].body[k].path # Null
      <4>1. ASSUME logRow'[l].body[k].path = Null PROVE FALSE
        <5>1. logRow[l].body[k].path = Null /\ u \notin Cleaners
          BY <1>7, <1>8, <2>2, <4>1
        <5>2. l \in Old
          BY <1>1, <1>5, <5>1 DEF RowInv
        <5>3. u \in LogWorkers
          BY <5>1
        <5>. QED BY <5>2, <5>3, PointKnows DEF Moves, FileInv, WorkInv
      <4>. QED BY <4>1
    <3>3. logRow'[l].body[k].path \notin Nat => logRow'[l].body[k].inline
      <4>1. logRow[l].body[k].path \notin Nat => logRow[l].body[k].inline
        BY <1>1, <1>5 DEF RowInv
      <4>. QED BY <1>7, <1>8, <2>2, <4>1
    <3>. QED BY <3>1, <3>2, <3>3
  <2>. QED BY <2>1, <2>2
<1>10. logRow'[l].created <= tick'
  BY <1>1, <1>2
<1>11. RowInv(l)'
  BY <1>9, <1>10 DEF RowInv
<1>12. l = writer'[u].log
  BY PointKnows
<1>. QED BY <1>11, <1>12, Zenon

LEMMA FilePointed ==
    ASSUME Moves, NEW u \in LogWorkers \union Cleaners, PointRow(u), u \in Cleaners => Alone(u)
    PROVE  FileInv'
<1>. PICK l, d : l = writer[u].log /\ d = writer[u].dir
  OBVIOUS
<1>1. l \in LogIds /\ l = writer'[u].log
  BY PointKnows, OtherLogs
<1>2. \A x \in LogIds : x # l => logRow'[x] = logRow[x]
  BY PointedRow DEF Moves
<1>3. logRow' # logRow => logRow[l] # Nothing /\ logRow'[l].created = logRow[l].created
  BY PointedRow DEF Moves
<1>4. \A x \in LogIds : SureKept(x)
  BY PointKnows DEF SureKept, Files
<1>5. \A x \in LogIds : RowInv(x)'
  <2>1. ASSUME NEW x \in LogIds, logRow'[x] = logRow[x] PROVE RowInv(x)'
    BY <1>4, <2>1, RowStays DEF Moves, FileInv, RowKept, SureKept
  <2>2. CASE logRow' # logRow
    <3>1. RowInv(l)'
      BY <1>1, <2>2, PointedInv
    <3>. QED BY <1>2, <2>1, <3>1
  <2>. QED BY <2>1, <2>2
<1>6. \A w \in LogWorkers \ {u} : Storing(w) => RowKept(writer[w].log) /\ SureKept(writer[w].log)
  BY <1>2, <1>4, PointKnows, OtherLogs DEF RowKept
<1>7. \A c \in Cleaners \ {u} : Storing(c) => SureKept(writer[c].log)
  BY <1>4, PointKnows, OtherLogs
<1>8. CASE u \in LogWorkers
  <2>. DEFINE U == {u}
  <2>1. u \notin Cleaners
    BY <1>8, LogStoreAssumption
  <2>2. WorkInv(u) /\ l \notin Old
    BY <1>8, PointKnows DEF Moves, FileInv, WorkInv
  <2>3. logRow'[l] # Nothing => \A k \in writer[u].todo : logRow'[l].body[k].path = Empty
    <3>1. CASE logRow' = logRow
      BY <2>2, <3>1, PointKnows DEF WorkInv
    <3>2. CASE logRow' # logRow
      <4>1. \A k \in writer[u].todo : k \notin writer[u].moved /\ k \in Kinds
        BY <2>2, PointKnows DEF WorkInv, Jobs
      <4>2. \A k \in writer[u].todo : logRow'[l].body[k] = logRow[l].body[k]
        BY <2>1, <3>2, <4>1, PointedRow DEF Moves
      <4>. QED BY <1>3, <2>2, <3>2, <4>2, PointKnows DEF WorkInv
    <3>. QED BY <3>1, <3>2
  <2>4. WorkInv(u)'
    <3>1. writer'[u].log \notin Old' /\ writer'[u].moved = {}
      BY <1>1, <2>2, PointKnows
    <3>2. logRow'[writer'[u].log] # Nothing =>
            \A k \in writer'[u].todo \union writer'[u].moved :
               logRow'[writer'[u].log].body[k].path = Empty
      BY <1>1, <2>3, PointKnows
    <3>3. writer'[u].dir \in Days
      BY <2>2, PointKnows DEF WorkInv
    <3>4. logRow'[writer'[u].log] # Nothing =>
            Earliest(logRow'[writer'[u].log].created) <= writer'[u].dir
      BY <1>1, <1>3, <2>2, PointKnows DEF WorkInv
    <3>5. writer'[u].pc = "store" /\ Storing(u)'
      BY PointKnows DEF Storing
    <3>. QED BY <3>1, <3>2, <3>3, <3>4, <3>5 DEF WorkInv
  <2>5. \A x \in Old : RowKept(x)
    BY <1>2, <2>2, OldIds DEF RowKept
  <2>6. Stepping(U)
    BY <2>1, <2>4, PointKnows DEF Stepping
  <2>7. (\A w \in LogWorkers \ U : Storing(w) => RowKept(writer[w].log) /\ SureKept(writer[w].log))
        /\ \A c \in Cleaners \ U : Storing(c) => SureKept(writer[c].log)
    BY <1>6, <1>7
  <2>. HIDE DEF U
  <2>. QED BY <1>5, <2>5, <2>6, <2>7, Combine
<1>9. CASE u \in Cleaners
  <2>1. u \notin LogWorkers
    BY <1>9, LogStoreAssumption
  <2>2. CleanInv(u) /\ l \in Old /\ d \in Days /\ d \in Nat /\ writer[u].todo = {}
    BY <1>9, PointKnows DEF Moves, FileInv, CleanInv, Jobs
  <2>3. \A r \in writer[u].rows : /\ r[1] \in Old /\ Untouched(r[1], r[2]) /\ r[2] \in Days
                                  /\ r[1] # l
    BY <2>2, PointKnows DEF CleanInv
  <2>4. \A r \in writer[u].rows : r[1] \in Old' /\ Untouched(r[1], r[2])' /\ r[2] \in Days
    <3>1. ASSUME NEW r \in writer[u].rows PROVE Untouched(r[1], r[2])'
      <4>1. RowKept(r[1])
        BY <1>2, <2>3, OldIds DEF RowKept
      <4>. QED BY <2>3, <4>1, UntouchedStays, PointKnows
    <3>2. \A r \in writer[u].rows : r[2] \in Nat
      BY PointKnows DEF Jobs
    <3>. QED BY <2>3, <3>1, <3>2, PointKnows
  <2>5. CleanInv(u)'
    <3>1. \A r \in writer'[u].rows : r[1] \in Old' /\ Untouched(r[1], r[2])' /\ r[2] \in Days
      BY <2>4, PointKnows
    <3>2. /\ \A r, s \in writer'[u].rows : r[1] = s[1] => r = s
          /\ \A r \in writer'[u].rows : r[1] # writer'[u].log
      BY <1>1, <2>2, <2>3, PointKnows DEF CleanInv
    <3>3. writer'[u].log \in Old' /\ writer'[u].dir \in Days
      BY <1>1, <2>2, PointKnows
    <3>. QED BY <2>2, <3>1, <3>2, <3>3, PointKnows DEF CleanInv
  <2>6. CASE part = "retention"
    <3>. DEFINE U == Cleaners
    <3>1. \A c \in Cleaners \ {u} : writer'[c].pc = "idle"
      BY <1>9, <2>6, PointKnows DEF Alone
    <3>2. \A c \in Cleaners : CleanInv(c)'
      BY <2>5, <3>1, NoRowLeft
    <3>3. Stepping(U)
      BY <1>9, <3>2, PointKnows, LogStoreAssumption DEF Stepping
    <3>4. \A w \in LogWorkers \ U : Storing(w) => RowKept(writer[w].log) /\ SureKept(writer[w].log)
      BY <1>6, <2>1
    <3>. QED BY <1>5, <3>3, <3>4, Combine
  <2>7. CASE part = "cleanups overlap"
    <3>. DEFINE U == {u}
    <3>1. Stepping(U)
      BY <2>1, <2>5, PointKnows DEF Stepping
    <3>2. \A x \in Old : RowKept(x) \/ RowMoved(x)
      BY <1>2, <1>3, <2>7, OldIds DEF RowKept, RowMoved, Overlap
    <3>3. (\A w \in LogWorkers \ U : Storing(w) => RowKept(writer[w].log) /\ SureKept(writer[w].log))
          /\ \A c \in Cleaners \ U : Storing(c) => SureKept(writer[c].log)
      BY <1>6, <1>7
    <3>. HIDE DEF U
    <3>. QED BY <1>5, <3>1, <3>2, <3>3, Combine
  <2>. QED BY <1>9, <2>6, <2>7 DEF Alone
<1>. QED BY <1>8, <1>9

LEMMA FileInvInit == ASSUME PersistenceInit PROVE FileInv
<1>1. LogInit(Old, part \in {"logging", "retention", "cleanups overlap"})
  BY DEF PersistenceInit, Old
<1>2. tick = FirstTick /\ writer = [w \in LogWorkers \cup Cleaners |-> Idling] /\ Old \subseteq logged
  BY <1>1, OldIds DEF LogInit
<1>3. \A u \in LogWorkers \union Cleaners : writer[u].pc = "idle"
  BY <1>2, IdlingJob
<1>4. \A w \in LogWorkers : WorkInv(w)
  BY <1>3 DEF WorkInv, Storing, Busy
<1>5. \A c \in Cleaners : CleanInv(c)
  BY <1>3 DEF CleanInv, Storing
<1>6. ASSUME NEW l \in LogIds PROVE RowInv(l)
  <2>1. CASE l \in Old
    <3>1. /\ logRow[l].created = FirstTick
          /\ \A k \in Kinds : logRow[l].body[k].path = Null /\ logRow[l].body[k].inline
      BY <1>1, <1>6, <2>1 DEF LogInit
    <3>. QED BY <1>2, <2>1, <3>1, LogStoreAssumption DEF RowInv, FirstTick
  <2>2. CASE l \notin Old
    BY <1>1, <1>6, <2>2 DEF LogInit, RowInv
  <2>. QED BY <2>1, <2>2
<1>. QED BY <1>2, <1>4, <1>5, <1>6, LogStoreAssumption DEF FileInv

LEMMA FileInvSame == ASSUME FileInv, UNCHANGED logVars, part' = part PROVE FileInv'
<1>1. Old' = Old /\ (Overlap' <=> Overlap) /\ Today' = Today
  BY OldIds DEF Overlap, Today, logVars
<1>2. \A f : (There(f)' <=> There(f)) /\ (Somewhere(f)' <=> Somewhere(f))
  BY <1>1 DEF There, Somewhere, OldDirectory, logVars
<1>3. \A f : Sure(f) => Sure(f)'
  BY <1>1, <1>2 DEF Sure, File, logVars
<1>4. \A w \in LogWorkers : WorkInv(w)'
  BY <1>1, <1>2, <1>3 DEF FileInv, WorkInv, Storing, Busy, File, logVars
<1>5. \A c \in Cleaners : CleanInv(c)'
  <2>1. \A l, d : Untouched(l, d) => Untouched(l, d)'
    BY <1>1 DEF Untouched, logVars
  <2>. QED BY <1>1, <1>2, <1>3, <2>1 DEF FileInv, CleanInv, Storing, File, logVars
<1>6. \A l \in LogIds : RowInv(l)'
  BY <1>1, <1>3 DEF FileInv, RowInv, logVars
<1>. QED BY <1>1, <1>4, <1>5, <1>6 DEF FileInv, logVars

LEMMA FileInvStep ==
    ASSUME LogTypes, StatInv, FileInv, [PersistenceNext]_persistenceVars
    PROVE  FileInv'
<1>1. Moves
  BY MonoStep DEF Moves
<1>2. CASE UNCHANGED logVars
  BY <1>2, FileInvSame, LogSteps
<1>3. ASSUME NEW w \in LogWorkers, NEW toFile \in BOOLEAN, LogWorker(w, toFile)
      PROVE  FileInv'
  <2>1. w \notin Cleaners
    BY LogStoreAssumption
  <2>. QED BY <1>1, <1>3, <2>1, FileInsert, FileCreate, FileWrite, FilePointed, FileDone, FileFind
           DEF LogWorker
<1>4. ASSUME NEW c \in Cleaners, Cleaner(c), Alone(c)
      PROVE  FileInv'
  BY <1>1, <1>4, FileDelete, FileSelect, FileMigrate, FileCreate, FileWrite, FilePointed, FileDone
  DEF Cleaner
<1>5. CASE LogTick \/ DeleteConfigLogs \/ LogCrash
  BY <1>1, <1>5, FileAside
<1>6. (part \in {"retention", "cleanups overlap"} /\ \E c \in Cleaners :
         /\ part = "retention" => \A d \in Cleaners \ {c} : writer[d].pc = "idle"
         /\ Cleaner(c))
      => \E c \in Cleaners : Cleaner(c) /\ Alone(c)
  BY DEF Alone
<1>. QED BY <1>2, <1>3, <1>4, <1>5, <1>6, LogSteps

LEMMA FileInvKeeps == ASSUME LogTypes, FileInv PROVE BodiesKept
<1>1. ASSUME NEW l \in LogIds, Kept(l), NEW k \in Kinds
      PROVE  \/ Readable(l, k)
             \/ Overlap /\ (logFaults = 0 => Rewritten(l, k))
  <2>1. logRow[l] # Nothing /\ logRow[l] \in LogRows /\ RowInv(l)
    BY <1>1 DEF Kept, LogTypes, FileInv
  <2>2. logRow[l].body[k] \in Bodies
    BY <2>1 DEF LogRows
  <2>3. CASE logRow[l].body[k].path \notin Nat
    <3>1. logRow[l].body[k].inline /\ logRow[l].body[k].path \notin Days
      BY <2>1, <2>3 DEF RowInv, Days
    <3>. QED BY <3>1 DEF Readable
  <2>4. CASE logRow[l].body[k].path \in Nat
    <3>1. PICK p \in Nat : logRow[l].body[k].path = p
      BY <2>4
    <3>2. Earliest(logRow[l].created) <= p /\ p \in Days /\ Sure(<<l, k, p>>)
      BY <2>1, <3>1 DEF RowInv
    <3>3. ~OldDirectory(p)
      <4>1. logRow[l].created \in Nat /\ tick \in Nat /\ RetentionDays \in Nat /\ Behind \in {0, 1}
        BY <2>1, LogStoreAssumption DEF LogRows, LogTypes, Behind
      <4>2. tick - logRow[l].created <= 2 * (RetentionDays - 1) - Behind
        BY <1>1 DEF Kept
      <4>3. (logRow[l].created - Behind) \div 2 > tick \div 2 - RetentionDays
        BY <4>1, <4>2
      <4>. QED BY <3>2, <4>1, <4>3 DEF OldDirectory, Earliest, Today, Day
    <3>4. p \in Days
      BY <3>2
    <3>5. CASE <<l, k, p>> \in files
      BY <3>1, <3>4, <3>5 DEF Readable
    <3>6. CASE <<l, k, p>> \notin files
      <4>1. Overlap /\ (logFaults > 0 \/ \E c \in Cleaners :
                          writer[c].pc = "write" /\ File(c) = <<l, k, p>>)
        BY <3>2, <3>3, <3>6 DEF Sure, There
      <4>. QED BY <3>1, <4>1 DEF Rewritten
    <3>. QED BY <3>5, <3>6
  <2>. QED BY <2>3, <2>4
<1>. QED BY <1>1 DEF BodiesKept, KeptBodiesReadable, KeptUnlessRewritten, Overlap

\* A row one day younger than the retention - and one half day more where the
\* clock that names the directories is behind UTC - has its bodies, inline or in
\* complete files, at every hour of the day and whatever the order of insert,
\* store, update, cleanup, migration and crash; while cleanups overlap and no
\* statement fails, a body that cannot be read is just being written again
\* (LogRequestSync, CleanupOldData,
\* MigrateInlineBodiesToFiles).
THEOREM BodiesAreKept == Spec => []BodiesKept
<1>1. PersistenceInit => LogTypes /\ StatInv /\ FileInv
  BY LogTypesInit, StatInvInit, FileInvInit
<1>2. (LogTypes /\ StatInv /\ FileInv) /\ [PersistenceNext]_persistenceVars
        => (LogTypes /\ StatInv /\ FileInv)'
  BY LogTypesStep, StatInvStep, FileInvStep
<1>3. LogTypes /\ StatInv /\ FileInv => BodiesKept
  BY FileInvKeeps
<1>. QED BY <1>1, <1>2, <1>3, PTL DEF Spec

-----------------------------------------------------------------------------
(* The statistics of a load balancer's nodes                               *)

LEMMA SummingSteps ==
    ASSUME [PersistenceNext]_persistenceVars
    PROVE  /\ part' = part
           /\ \/ UNCHANGED supervisionVars
              \/ part = "alerts" /\ UNCHANGED nodeStats
              \/ part = "statistics" /\ Summing
<1>1. CASE UNCHANGED persistenceVars
  BY <1>1 DEF persistenceVars
<1>2. CASE Logging \/ Retention \/ Keyed \/ Conversing
  BY <1>2 DEF Logging, Retention, Keyed, Conversing
<1>3. CASE Alerting
  <2>1. UNCHANGED nodeStats
    <3>1. ASSUME NEW g, Registry(g) PROVE UNCHANGED nodeStats
      BY <3>1 DEF Registry, FindManager, MakeManager, rowVars
    <3>2. ASSUME AlertChecks PROVE UNCHANGED nodeStats
      BY <3>2 DEF AlertChecks, CheckAlerts, CheckCondition, ListAlerts, CreateAlert,
                  AcknowledgeAlert, DeleteOldAlerts, alertFrame, supervisionVars
    <3>3. ASSUME ClockTick \/ Lifecycle PROVE UNCHANGED nodeStats
      BY <3>3 DEF ClockTick, Lifecycle, StopAll, Restart, Stopped, rowVars
    <3>. QED BY <1>3, <3>1, <3>2, <3>3 DEF Alerting
  <2>. QED BY <1>3, <2>1 DEF Alerting
<1>4. CASE Summing
  BY <1>4 DEF Summing
<1>. QED BY <1>1, <1>2, <1>3, <1>4 DEF PersistenceNext

States   == {"unmade", "running", "stopping", "stopped", "gone"}
LbLogs   == Nat \X Nodes \X Nat
Spots    == DOMAIN ConfigNodes
Monitors == [state : States, checked : Nat, todo : {<<>>, Round}, pc : {"wait", "check"},
             queue : Seq(LbLogs), summed : Nat, minute : Nat, nodes : SUBSET Spots,
             node : Spots \union {0}, count : Nat]
NodeRows == [node : Nodes, place : Spots, minute : Nat, count : Nat, by : Managers, at : Nat]

SumTypes ==
    /\ clock \in Nat /\ begun \in Nat
    /\ manager \in [Managers -> Monitors]
    /\ registered \in Managers \union {NoManager}
    /\ getter \in [Getters -> [pc : {"idle", "missed", "has"},
                               manager : Managers \union {NoManager}]]
    /\ \A g \in Getters : getter[g].pc = "has" => getter[g].manager \in Managers
    /\ nodeStats \subseteq NodeRows
    /\ IsFiniteSet(lbLogs)

\* At most the registered manager sums, one tick after the other; a place that
\* it still has to sum has no row of this tick yet.
SumManager(m) ==
    /\ m # registered => manager[m].state \in {"unmade", "gone"}
    /\ manager[m].state \in {"unmade", "gone"} => manager[m].nodes = {} /\ manager[m].node = 0
    /\ manager[m].node # 0 =>
         /\ manager[m].node \in manager[m].nodes
         /\ manager[m].count <= Cardinality(Logged(ConfigNodes[manager[m].node], manager[m].minute))
    /\ m = registered =>
         /\ manager[m].summed <= clock
         /\ \A s \in nodeStats :
              /\ s.at <= manager[m].summed
              /\ manager[m].nodes # {} =>
                   s.at + 2 <= manager[m].summed \/ s.place \notin manager[m].nodes

SumRow(s) == s.at <= clock /\ s.count <= Cardinality(Logged(s.node, s.minute))

SumInv ==
    /\ part # "statistics" => nodeStats = {}
    /\ part = "statistics" =>
         /\ SumTypes
         /\ \A m \in Managers : SumManager(m)
         /\ \A s \in nodeStats : SumRow(s)
         /\ \A s, o \in nodeStats :
              InTime(s) /\ InTime(o) /\ o.place = s.place /\ o.minute = s.minute => o = s

LEMMA ListedNodes ==
    /\ \A p \in Spots : ConfigNodes[p] \in Nodes
    /\ 0 \notin Spots /\ Spots \subseteq Nat
BY SupervisionAssumption DEF Spots

LEMMA UnmadeMonitor ==
    /\ Unmade \in Monitors /\ [Unmade EXCEPT !.state = "gone"] \in Monitors
    /\ Unmade.state = "unmade" /\ Unmade.nodes = {} /\ Unmade.node = 0
    /\ [Unmade EXCEPT !.state = "gone"].state = "gone"
    /\ [Unmade EXCEPT !.state = "gone"].nodes = {}
    /\ [Unmade EXCEPT !.state = "gone"].node = 0
<1>1. <<>> \in Seq(LbLogs)
  OBVIOUS
<1>2. Unmade \in Monitors
  BY <1>1 DEF Unmade, Monitors, States
<1>3. [Unmade EXCEPT !.state = "gone"] \in Monitors
  BY <1>2 DEF Monitors, States
<1>. QED BY <1>2, <1>3 DEF Unmade

LEMMA LoggedGrows ==
    ASSUME SumTypes, lbLogs \subseteq lbLogs', IsFiniteSet(lbLogs'), NEW n, NEW minute
    PROVE  /\ Cardinality(Logged(n, minute)) \in Nat
           /\ Cardinality(Logged(n, minute)') \in Nat
           /\ \A k \in Nat : k <= Cardinality(Logged(n, minute)) => k <= Cardinality(Logged(n, minute)')
<1>1. Logged(n, minute) \subseteq Logged(n, minute)'
  BY DEF Logged
<1>2. Logged(n, minute) \subseteq lbLogs /\ Logged(n, minute)' \subseteq lbLogs'
  BY DEF Logged
<1>3. IsFiniteSet(Logged(n, minute)) /\ IsFiniteSet(Logged(n, minute)')
  BY <1>2, FS_Subset DEF SumTypes
<1>4. Cardinality(Logged(n, minute)) <= Cardinality(Logged(n, minute)')
  BY <1>1, <1>3, FS_Subset
<1>5. Cardinality(Logged(n, minute)) \in Nat /\ Cardinality(Logged(n, minute)') \in Nat
  BY <1>3, FS_CardinalityType
<1>6. PICK a \in Nat, b \in Nat : a = Cardinality(Logged(n, minute)) /\ b = Cardinality(Logged(n, minute)')
  BY <1>5
<1>. QED BY <1>4, <1>5, <1>6

\* What a step leaves of a manager's sums.
Sums(m) == <<manager[m].state, manager[m].summed, manager[m].nodes, manager[m].node,
             manager[m].count, manager[m].minute>>

LEMMA SumManagerStays ==
    ASSUME SumTypes, NEW m \in Managers, SumManager(m), Sums(m)' = Sums(m),
           registered' = registered, clock' \in Nat, clock <= clock',
           lbLogs \subseteq lbLogs', IsFiniteSet(lbLogs'), nodeStats' = nodeStats
    PROVE  SumManager(m)'
<1>1. manager[m] \in Monitors
  BY DEF SumTypes
<1>2. /\ manager'[m].state = manager[m].state /\ manager'[m].summed = manager[m].summed
      /\ manager'[m].nodes = manager[m].nodes /\ manager'[m].node = manager[m].node
      /\ manager'[m].count = manager[m].count /\ manager'[m].minute = manager[m].minute
  BY DEF Sums
<1>3. manager[m].count \in Nat
  BY <1>1 DEF Monitors
<1>4. manager'[m].node # 0 =>
         /\ manager'[m].node \in manager'[m].nodes
         /\ manager'[m].count <=
               Cardinality(Logged(ConfigNodes[manager[m].node], manager[m].minute)')
  BY <1>2, <1>3, LoggedGrows DEF SumManager
<1>4a. Logged(ConfigNodes[manager[m].node], manager[m].minute)'
         = {l \in lbLogs' : l[2] = ConfigNodes[manager[m].node] /\ Minute(l[3]) = manager[m].minute}
  BY <1>2 DEF Logged
<1>5. \A k \in Nat : k <= clock => k <= clock'
  <2>1. PICK k \in Nat : k = clock'
    OBVIOUS
  <2>. QED BY <2>1 DEF SumTypes
<1>6. manager[m].summed \in Nat
  BY <1>1 DEF Monitors
<1>. QED BY <1>2, <1>4, <1>5, <1>6 DEF SumManager

LEMMA SumRowStays ==
    ASSUME SumTypes, NEW s \in NodeRows, SumRow(s), clock' \in Nat, clock <= clock',
           lbLogs \subseteq lbLogs', IsFiniteSet(lbLogs')
    PROVE  SumRow(s)'
<1>1. s.at \in Nat /\ s.count \in Nat
  BY DEF NodeRows
<1>2. s.count <= Cardinality(Logged(s.node, s.minute)')
  BY <1>1, LoggedGrows DEF SumRow
<1>3. \A k \in Nat : k <= clock => k <= clock'
  <2>1. PICK k \in Nat : k = clock'
    OBVIOUS
  <2>. QED BY <2>1 DEF SumTypes
<1>. QED BY <1>1, <1>2, <1>3 DEF SumRow

\* A step that leaves all sums alone.
LEMMA SumStays ==
    ASSUME SumInv, part = "statistics", part' = part, SumTypes',
           \A m \in Managers : Sums(m)' = Sums(m),
           registered' = registered, clock <= clock', lbLogs \subseteq lbLogs',
           nodeStats' = nodeStats
    PROVE  SumInv'
<1>1. SumTypes /\ clock' \in Nat /\ IsFiniteSet(lbLogs')
  BY DEF SumInv, SumTypes
<1>2. \A m \in Managers : SumManager(m)'
  BY <1>1, SumManagerStays DEF SumInv
<1>3. \A s \in nodeStats' : SumRow(s)'
  BY <1>1, SumRowStays DEF SumInv, SumTypes
<1>. QED BY <1>2, <1>3 DEF SumInv

LEMMA Minutes ==
    /\ \A t \in Nat : Minute(t) \in Nat
    /\ \A s, t \in Nat : s + 2 <= t => Minute(s) < Minute(t)
BY DEF Minute

\* Requests get, use and stop the manager; logs come and are stored.
LEMMA SumQuietSteps ==
    ASSUME SumInv, part = "statistics", part' = part,
           \/ ClockTick
           \/ \E g \in Getters : FindManager(g)
           \/ \E g \in Getters, n \in Nodes, t \in 0 .. MaxClock : RecordRequest(g, n, t)
           \/ \E m \in Managers : ProcessLog(m)
    PROVE  SumInv'
<1>1. SumTypes
  BY DEF SumInv
<1>2. CASE ClockTick
  <2>1. /\ clock' = clock + 1
        /\ UNCHANGED <<manager, registered, getter, lbLogs, nodeStats, begun>>
    BY <1>2 DEF ClockTick, rowVars
  <2>2. SumTypes'
    BY <1>1, <2>1 DEF SumTypes
  <2>3. clock <= clock' /\ \A m \in Managers : Sums(m)' = Sums(m)
    BY <1>1, <2>1 DEF SumTypes, Sums
  <2>. QED BY <2>1, <2>2, <2>3, SumStays
<1>3. ASSUME NEW g \in Getters, FindManager(g) PROVE SumInv'
  <2>1. /\ UNCHANGED <<clock, manager, registered, lbLogs, nodeStats, begun>>
        /\ getter' = [getter EXCEPT ![g] =
             IF registered # NoManager THEN [pc |-> "has", manager |-> registered]
             ELSE [pc |-> "missed", manager |-> NoManager]]
    BY <1>3 DEF FindManager, rowVars
  <2>2. getter' \in [Getters -> [pc : {"idle", "missed", "has"},
                                 manager : Managers \union {NoManager}]]
        /\ \A h \in Getters : getter'[h].pc = "has" => getter'[h].manager \in Managers
    BY <1>1, <2>1 DEF SumTypes
  <2>3. SumTypes'
    BY <1>1, <2>1, <2>2 DEF SumTypes
  <2>4. clock <= clock' /\ \A m \in Managers : Sums(m)' = Sums(m)
    BY <1>1, <2>1 DEF SumTypes, Sums
  <2>. QED BY <2>1, <2>3, <2>4, SumStays
<1>4. ASSUME NEW g \in Getters, NEW n \in Nodes, NEW t \in 0 .. MaxClock, RecordRequest(g, n, t)
      PROVE  SumInv'
  <2>1. /\ UNCHANGED <<clock, registered, lbLogs, nodeStats>> /\ begun' = begun + 1
        /\ getter' = [getter EXCEPT ![g] = [pc |-> "idle", manager |-> NoManager]]
        /\ getter[g].pc = "has"
    BY <1>4 DEF RecordRequest, rowVars
  <2>2. PICK m \in Managers : m = getter[g].manager /\ manager[m] \in Monitors
    BY <1>1, <2>1 DEF SumTypes
  <2>3. <<begun, n, t>> \in LbLogs
    BY <1>1, SupervisionAssumption DEF LbLogs, SumTypes
  <2>4. PICK q \in Seq(LbLogs) : manager' = [manager EXCEPT ![m] = [manager[m] EXCEPT !.queue = q]]
    <3>1. manager[m].queue \in Seq(LbLogs)
      BY <2>2 DEF Monitors
    <3>2. Append(manager[m].queue, <<begun, n, t>>) \in Seq(LbLogs)
      BY <2>3, <3>1, AppendProperties
    <3>3. CASE manager' = manager
      <4>1. manager[m] = [manager[m] EXCEPT !.queue = manager[m].queue]
        BY <2>2 DEF Monitors
      <4>2. manager' = [manager EXCEPT ![m] = [manager[m] EXCEPT !.queue = manager[m].queue]]
        BY <1>1, <2>2, <3>3, <4>1 DEF SumTypes
      <4>. QED BY <3>1, <4>2
    <3>4. CASE manager' = [manager EXCEPT ![m].queue = Append(@, <<begun, n, t>>)]
      BY <3>2, <3>4
    <3>. QED BY <1>4, <2>2, <3>3, <3>4 DEF RecordRequest
  <2>5. [manager[m] EXCEPT !.queue = q] \in Monitors
    BY <2>2 DEF Monitors
  <2>6. manager' \in [Managers -> Monitors]
    BY <1>1, <2>4, <2>5 DEF SumTypes
  <2>7. getter' \in [Getters -> [pc : {"idle", "missed", "has"},
                                 manager : Managers \union {NoManager}]]
        /\ \A h \in Getters : getter'[h].pc = "has" => getter'[h].manager \in Managers
    BY <1>1, <2>1 DEF SumTypes
  <2>8. SumTypes'
    BY <1>1, <2>1, <2>6, <2>7 DEF SumTypes
  <2>9. clock <= clock' /\ \A x \in Managers : Sums(x)' = Sums(x)
    <3>. DEFINE w == [manager[m] EXCEPT !.queue = q]
    <3>1. clock <= clock' /\ \A x \in Managers : x # m => manager'[x] = manager[x]
      BY <1>1, <2>1, <2>4 DEF SumTypes
    <3>2. manager'[m] = w
      BY <1>1, <2>2, <2>4 DEF SumTypes
    <3>3. /\ w.state = manager[m].state /\ w.summed = manager[m].summed
          /\ w.nodes = manager[m].nodes /\ w.node = manager[m].node
          /\ w.count = manager[m].count /\ w.minute = manager[m].minute
      BY <2>2 DEF Monitors
    <3>. HIDE DEF w
    <3>4. Sums(m)' = Sums(m)
      BY <3>2, <3>3 DEF Sums
    <3>. QED BY <3>1, <3>4 DEF Sums
  <2>. QED BY <2>1, <2>8, <2>9, SumStays
<1>5. ASSUME NEW m \in Managers, ProcessLog(m) PROVE SumInv'
  <2>1. /\ UNCHANGED <<clock, registered, getter, begun, nodeStats>>
        /\ manager' = [manager EXCEPT ![m].queue = Tail(@)] /\ manager[m].queue # <<>>
        /\ lbLogs' = lbLogs \/ lbLogs' = lbLogs \union {Head(manager[m].queue)}
    BY <1>5 DEF ProcessLog, monitorFrame
  <2>2. manager[m] \in Monitors
    BY <1>1 DEF SumTypes
  <2>3. Tail(manager[m].queue) \in Seq(LbLogs)
    BY <2>1, <2>2 DEF Monitors
  <2>4. manager' = [manager EXCEPT ![m] = [manager[m] EXCEPT !.queue = Tail(manager[m].queue)]]
    BY <2>1
  <2>5. [manager[m] EXCEPT !.queue = Tail(manager[m].queue)] \in Monitors
    BY <2>2, <2>3 DEF Monitors
  <2>6. manager' \in [Managers -> Monitors]
    BY <1>1, <2>4, <2>5 DEF SumTypes
  <2>7. IsFiniteSet(lbLogs') /\ lbLogs \subseteq lbLogs'
    BY <1>1, <2>1, FS_AddElement DEF SumTypes
  <2>8. SumTypes'
    BY <1>1, <2>1, <2>6, <2>7 DEF SumTypes
  <2>9. clock <= clock' /\ \A x \in Managers : Sums(x)' = Sums(x)
    <3>1. clock <= clock' /\ \A x \in Managers : x # m => manager'[x] = manager[x]
      BY <1>1, <2>1, <2>4 DEF SumTypes
    <3>2. Sums(m)' = Sums(m)
      <4>. DEFINE w == [manager[m] EXCEPT !.queue = Tail(manager[m].queue)]
      <4>1. manager'[m] = w
        BY <1>1, <2>4 DEF SumTypes
      <4>2. /\ w.state = manager[m].state /\ w.summed = manager[m].summed
            /\ w.nodes = manager[m].nodes /\ w.node = manager[m].node
            /\ w.count = manager[m].count /\ w.minute = manager[m].minute
        BY <2>2 DEF Monitors
      <4>. HIDE DEF w
      <4>. QED BY <4>1, <4>2 DEF Sums
    <3>. QED BY <3>1, <3>2 DEF Sums
  <2>. QED BY <2>1, <2>7, <2>8, <2>9, SumStays
<1>. QED BY <1>2, <1>3, <1>4, <1>5

\* The manager is made, stopped, or ends with the process.
LEMMA SumLifecycle ==
    ASSUME SumInv, part = "statistics", part' = part,
           (\E g \in Getters : MakeManager(g)) \/ Lifecycle
    PROVE  SumInv'
<1>1. SumTypes /\ \A m \in Managers : SumManager(m) /\ manager[m] \in Monitors
  BY DEF SumInv, SumTypes
<1>2. UNCHANGED <<clock, lbLogs, nodeStats, begun>>
  BY DEF MakeManager, Lifecycle, StopAll, Restart, Stopped, rowVars
<1>3. IsFiniteSet(lbLogs) /\ clock \in Nat
  BY <1>1 DEF SumTypes
<1>4. ASSUME SumTypes', \A m \in Managers : SumManager(m)' PROVE SumInv'
  <2>1. \A s \in nodeStats : SumRow(s)'
    BY <1>2 DEF SumInv, SumRow, Logged
  <2>. QED BY <1>2, <1>4, <2>1 DEF SumInv
<1>5. ASSUME NEW g \in Getters, MakeManager(g) PROVE SumInv'
  <2>1. CASE UNCHANGED <<manager, registered>>
    <3>1. PICK j \in [pc : {"has", "idle"}, manager : Managers \union {NoManager}] :
             getter' = [getter EXCEPT ![g] = j] /\ (j.pc = "has" => j.manager \in Managers)
      <4>1. CASE /\ registered # NoManager
                 /\ getter' = [getter EXCEPT ![g] = [pc |-> "has", manager |-> registered]]
        <5>1. registered \in Managers
          BY <1>1, <4>1 DEF SumTypes
        <5>2. /\ [pc |-> "has", manager |-> registered]
                   \in [pc : {"has", "idle"}, manager : Managers \union {NoManager}]
              /\ [pc |-> "has", manager |-> registered].manager \in Managers
          BY <5>1
        <5>. QED BY <4>1, <5>2
      <4>2. CASE getter' = [getter EXCEPT ![g] = [pc |-> "idle", manager |-> NoManager]]
        <5>1. /\ [pc |-> "idle", manager |-> NoManager]
                   \in [pc : {"has", "idle"}, manager : Managers \union {NoManager}]
              /\ [pc |-> "idle", manager |-> NoManager].pc # "has"
          OBVIOUS
        <5>. QED BY <4>2, <5>1
      <4>3. CASE \E m \in New : registered = NoManager /\ registered' = m
        <5>1. New \subseteq Managers
          BY DEF New
        <5>. QED BY <2>1, <4>3, <5>1, SupervisionAssumption
      <4>. QED BY <1>5, <4>1, <4>2, <4>3 DEF MakeManager
    <3>2. SumTypes'
      BY <1>1, <1>2, <2>1, <3>1 DEF SumTypes
    <3>3. clock <= clock' /\ \A m \in Managers : Sums(m)' = Sums(m)
      BY <1>2, <1>3, <2>1 DEF Sums
    <3>. QED BY <1>2, <2>1, <3>2, <3>3, SumStays
  <2>2. CASE ~UNCHANGED <<manager, registered>>
    <3>1. PICK m \in New :
             /\ registered = NoManager /\ registered' = m
             /\ manager' = [manager EXCEPT ![m] = Started]
             /\ getter' = [getter EXCEPT ![g] = [pc |-> "has", manager |-> m]]
      BY <1>5, <2>2 DEF MakeManager
    <3>2. m \in Managers /\ m # NoManager
      BY <3>1, SupervisionAssumption DEF New
    <3>3. Started \in Monitors
      BY <1>3, UnmadeMonitor DEF Started, Monitors, States
    <3>4. /\ Started.state = "running" /\ Started.summed = clock /\ Started.nodes = {}
          /\ Started.node = 0
      BY UnmadeMonitor DEF Started, Unmade
    <3>5. getter' \in [Getters -> [pc : {"idle", "missed", "has"},
                                   manager : Managers \union {NoManager}]]
          /\ \A h \in Getters : getter'[h].pc = "has" => getter'[h].manager \in Managers
      BY <1>1, <3>1, <3>2 DEF SumTypes
    <3>6. SumTypes'
      BY <1>1, <1>2, <3>1, <3>2, <3>3, <3>5 DEF SumTypes
    <3>7. manager'[m] = Started /\ \A x \in Managers : x # m => manager'[x] = manager[x]
      BY <1>1, <3>1, <3>2 DEF SumTypes
    <3>8. SumManager(m)'
      <4>1. \A s \in nodeStats : s.at <= clock
        BY DEF SumInv, SumRow
      <4>2. /\ manager'[m].state = "running" /\ manager'[m].summed = clock
            /\ manager'[m].nodes = {} /\ manager'[m].node = 0
        BY <3>4, <3>7
      <4>3. /\ manager'[m].summed <= clock'
            /\ \A s \in nodeStats' : s.at <= manager'[m].summed
        BY <1>2, <1>3, <4>1, <4>2
      <4>. QED BY <3>1, <4>2, <4>3 DEF SumManager
    <3>9. ASSUME NEW x \in Managers, x # m PROVE SumManager(x)'
      <4>1. /\ manager[x].state \in {"unmade", "gone"} /\ manager[x].nodes = {}
            /\ manager[x].node = 0
        BY <1>1, <3>1, <3>9, SupervisionAssumption DEF SumManager
      <4>. QED BY <3>1, <3>7, <3>9, <4>1 DEF SumManager
    <3>. QED BY <1>4, <3>6, <3>8, <3>9
  <2>. QED BY <2>1, <2>2
<1>6. ASSUME NEW m \in Managers, NEW state \in States, m = registered \/ ~(manager[m].state \in {"unmade", "gone"}),
             state \notin {"unmade", "gone"},
             manager' = [manager EXCEPT ![m].state = state], UNCHANGED <<registered, getter>>
      PROVE  SumInv'
  <2>1. m = registered
    BY <1>1, <1>6 DEF SumManager
  <2>2. /\ manager'[m].state = state
        /\ manager'[m].summed = manager[m].summed /\ manager'[m].nodes = manager[m].nodes
        /\ manager'[m].node = manager[m].node /\ manager'[m].count = manager[m].count
        /\ manager'[m].minute = manager[m].minute
        /\ \A x \in Managers : x # m => manager'[x] = manager[x]
    BY <1>1, <1>6 DEF SumTypes, Monitors
  <2>3. SumTypes'
    <3>1. [manager[m] EXCEPT !.state = state] \in Monitors
      BY <1>1 DEF Monitors
    <3>2. manager' = [manager EXCEPT ![m] = [manager[m] EXCEPT !.state = state]]
      BY <1>6
    <3>3. manager' \in [Managers -> Monitors]
      BY <1>1, <3>1, <3>2 DEF SumTypes
    <3>. QED BY <1>1, <1>2, <1>6, <3>3 DEF SumTypes
  <2>4. \A n, t : Logged(n, t)' = Logged(n, t)
    BY <1>2 DEF Logged
  <2>5. \A x \in Managers : SumManager(x)'
    BY <1>1, <1>2, <1>6, <2>1, <2>2, <2>4 DEF SumManager
  <2>. QED BY <1>4, <2>3, <2>5
<1>7. CASE StopAll
  BY <1>1, <1>6, <1>7 DEF StopAll, SumTypes, States
<1>8. ASSUME NEW m \in Managers, Stopped(m) PROVE SumInv'
  BY <1>6, <1>8 DEF Stopped, States
<1>9. CASE Restart
  <2>1. /\ registered' = NoManager
        /\ manager' = [m \in Managers |->
             IF manager[m].state = "unmade" THEN Unmade ELSE [Unmade EXCEPT !.state = "gone"]]
        /\ getter' = [g \in Getters |-> [pc |-> "idle", manager |-> NoManager]]
    BY <1>9 DEF Restart
  <2>2. SumTypes'
    <3>1. manager' \in [Managers -> Monitors]
      BY <2>1, UnmadeMonitor
    <3>. QED BY <1>1, <1>2, <2>1, <3>1 DEF SumTypes
  <2>3. ASSUME NEW m \in Managers PROVE SumManager(m)'
    <3>1. /\ manager'[m].state \in {"unmade", "gone"} /\ manager'[m].nodes = {}
          /\ manager'[m].node = 0
      BY <2>1, UnmadeMonitor
    <3>2. m # registered'
      BY <2>1, SupervisionAssumption
    <3>. QED BY <3>1, <3>2 DEF SumManager
  <2>. QED BY <1>4, <2>2, <2>3
<1>. QED BY <1>5, <1>7, <1>8, <1>9 DEF Lifecycle

\* The monitor's sums, one step at a time.
LEMMA SumMonitor ==
    ASSUME SumInv, part = "statistics", part' = part, NEW m \in Managers,
           PerformAggregation(m) \/ SumNode(m) \/ CreateNodeStats(m)
    PROVE  SumInv'
<1>1. SumTypes /\ manager[m] \in Monitors /\ SumManager(m)
  BY DEF SumInv, SumTypes
<1>2. UNCHANGED <<clock, registered, getter, begun, lbLogs>>
  BY DEF PerformAggregation, SumNode, CreateNodeStats, monitorFrame
<1>3. \A n, t : Logged(n, t)' = Logged(n, t)
  BY <1>2 DEF Logged
<1>4. m = registered
  <2>1. manager[m].state \notin {"unmade", "gone"}
    <3>1. CASE PerformAggregation(m)
      BY <3>1 DEF PerformAggregation, Due
    <3>2. CASE SumNode(m)
      BY <1>1, <3>2 DEF SumNode, SumManager
    <3>3. CASE CreateNodeStats(m)
      BY <1>1, <3>3 DEF CreateNodeStats, SumManager
    <3>. QED BY <3>1, <3>2, <3>3
  <2>. QED BY <1>1, <2>1 DEF SumManager
<1>5. ASSUME NEW one \in Monitors, manager' = [manager EXCEPT ![m] = one],
             nodeStats' \subseteq NodeRows, SumManager(m)',
             \A x \in Managers : x # m => manager[x].state \in {"unmade", "gone"},
             \A s \in nodeStats' : SumRow(s)',
             \A s, o \in nodeStats' :
               InTime(s) /\ InTime(o) /\ o.place = s.place /\ o.minute = s.minute => o = s
      PROVE  SumInv'
  <2>1. manager' \in [Managers -> Monitors] /\ \A x \in Managers : x # m => manager'[x] = manager[x]
    BY <1>1, <1>5 DEF SumTypes
  <2>2. SumTypes'
    BY <1>1, <1>2, <1>5, <2>1 DEF SumTypes
  <2>3. ASSUME NEW x \in Managers, x # m PROVE SumManager(x)'
    <3>1. /\ manager[x].state \in {"unmade", "gone"} /\ manager[x].nodes = {}
          /\ manager[x].node = 0 /\ SumManager(x)
      BY <1>5, <2>3 DEF SumInv, SumManager
    <3>. QED BY <1>2, <1>4, <2>1, <2>3, <3>1 DEF SumManager
  <2>. QED BY <1>5, <2>2, <2>3 DEF SumInv
<1>6. \A x \in Managers : x # m => manager[x].state \in {"unmade", "gone"}
  BY <1>4 DEF SumInv, SumManager
<1>7. /\ \A s \in nodeStats : SumRow(s) /\ s \in NodeRows
      /\ \A s, o \in nodeStats :
           InTime(s) /\ InTime(o) /\ o.place = s.place /\ o.minute = s.minute => o = s
  BY DEF SumInv, SumTypes
<1>8. \A s \in nodeStats : SumRow(s)'
  BY <1>2, <1>3, <1>7 DEF SumRow
<1>9. /\ clock \in Nat /\ manager[m].summed \in Nat /\ manager[m].minute \in Nat
      /\ \A s \in nodeStats : s.at \in Nat
  BY <1>1, <1>7 DEF SumTypes, Monitors, NodeRows
<1>10. CASE PerformAggregation(m)
  <2>1. PICK t \in Due(m, manager[m].summed), nodes \in {Spots, {}} :
           manager' = [manager EXCEPT ![m].summed = t, ![m].minute = Minute(clock),
                                      ![m].nodes = nodes]
    BY <1>10 DEF PerformAggregation, Spots
  <2>2. nodeStats' = nodeStats /\ manager[m].nodes = {} /\ manager[m].state = "running"
    BY <1>10 DEF PerformAggregation, Due
  <2>3. t \in manager[m].summed + 2 .. clock
    BY <2>1, <2>2 DEF Due
  <2>4. t \in Nat /\ manager[m].summed + 2 <= t /\ t <= clock /\ Minute(clock) \in Nat
    BY <1>9, <2>3, Minutes
  <2>. DEFINE one == [manager[m] EXCEPT !.summed = t, !.minute = Minute(clock), !.nodes = nodes]
  <2>5. manager' = [manager EXCEPT ![m] = one]
    BY <2>1
  <2>6. one \in Monitors
    BY <1>1, <2>4 DEF Monitors
  <2>7. /\ one.state = "running" /\ one.summed = t /\ one.node = manager[m].node
        /\ one.nodes = nodes
    BY <1>1, <2>2 DEF Monitors
  <2>8. manager'[m] = one
    BY <1>1, <2>5 DEF SumTypes
  <2>9. manager[m].node = 0
    BY <1>1, <2>2 DEF SumManager
  <2>10. ASSUME NEW s \in nodeStats PROVE s.at + 2 <= t /\ s.at <= t
    <3>1. s.at <= manager[m].summed
      BY <1>1, <1>4 DEF SumManager
    <3>. QED BY <1>9, <2>4, <3>1
  <2>11. SumManager(m)'
    <3>. HIDE DEF one
    <3>1. /\ manager'[m].summed <= clock' /\ manager'[m].node = 0
          /\ manager'[m].state \notin {"unmade", "gone"}
      BY <1>2, <2>4, <2>7, <2>8, <2>9
    <3>2. \A s \in nodeStats' : s.at <= manager'[m].summed /\ s.at + 2 <= manager'[m].summed
      BY <2>2, <2>7, <2>8, <2>10
    <3>. QED BY <1>2, <1>4, <3>1, <3>2 DEF SumManager
  <2>. QED BY <1>5, <1>6, <1>7, <1>8, <2>2, <2>5, <2>6, <2>11
<1>11. CASE SumNode(m)
  <2>1. PICK p \in manager[m].nodes :
          \/ manager' = [manager EXCEPT ![m].nodes = @ \ {p}]
          \/ manager' = [manager EXCEPT ![m].node = p,
                ![m].count = Cardinality(Logged(ConfigNodes[p], manager[m].minute))]
    BY <1>11 DEF SumNode
  <2>2. nodeStats' = nodeStats /\ manager[m].nodes # {} /\ manager[m].node = 0
    BY <1>11 DEF SumNode
  <2>3. p \in Spots /\ p # 0 /\ manager[m].state \notin {"unmade", "gone"}
    BY <1>1, <2>2, ListedNodes DEF Monitors, SumManager
  <2>4. PICK c \in Nat : c = Cardinality(Logged(ConfigNodes[p], manager[m].minute))
    <3>1. Logged(ConfigNodes[p], manager[m].minute) \subseteq lbLogs
      BY DEF Logged
    <3>. QED BY <1>1, <3>1, FS_Subset, FS_CardinalityType DEF SumTypes
  <2>5. /\ manager[m].summed <= clock
        /\ \A s \in nodeStats :
             /\ s.at <= manager[m].summed
             /\ s.at + 2 <= manager[m].summed \/ s.place \notin manager[m].nodes
    BY <1>1, <1>4, <2>2 DEF SumManager
  <2>6. CASE manager' = [manager EXCEPT ![m].nodes = @ \ {p}]
    <3>. DEFINE one == [manager[m] EXCEPT !.nodes = manager[m].nodes \ {p}]
    <3>1. manager' = [manager EXCEPT ![m] = one]
      BY <2>6
    <3>2. one \in Monitors
      BY <1>1 DEF Monitors
    <3>3. /\ one.state = manager[m].state /\ one.summed = manager[m].summed
          /\ one.node = manager[m].node /\ one.nodes \subseteq manager[m].nodes
      BY <1>1 DEF Monitors
    <3>4. manager'[m] = one
      BY <1>1, <3>1 DEF SumTypes
    <3>5. SumManager(m)'
      <4>. HIDE DEF one
      <4>1. manager'[m].node = 0 /\ manager'[m].state \notin {"unmade", "gone"}
        BY <2>2, <2>3, <3>3, <3>4
      <4>2. /\ manager'[m].summed <= clock'
            /\ \A s \in nodeStats' :
                 /\ s.at <= manager'[m].summed
                 /\ s.at + 2 <= manager'[m].summed \/ s.place \notin manager'[m].nodes
        BY <1>2, <2>2, <2>5, <3>3, <3>4
      <4>. QED BY <1>2, <1>4, <4>1, <4>2 DEF SumManager
    <3>. QED BY <1>5, <1>6, <1>7, <1>8, <2>2, <3>1, <3>2, <3>5
  <2>7. CASE manager' = [manager EXCEPT ![m].node = p,
                ![m].count = Cardinality(Logged(ConfigNodes[p], manager[m].minute))]
    <3>. DEFINE one == [manager[m] EXCEPT !.node = p, !.count = c]
    <3>1. manager' = [manager EXCEPT ![m] = one]
      BY <2>4, <2>7
    <3>2. one \in Monitors
      BY <1>1, <2>3 DEF Monitors
    <3>3. /\ one.state = manager[m].state /\ one.summed = manager[m].summed
          /\ one.node = p /\ one.nodes = manager[m].nodes /\ one.count = c
          /\ one.minute = manager[m].minute
      BY <1>1 DEF Monitors
    <3>4. manager'[m] = one
      BY <1>1, <3>1 DEF SumTypes
    <3>5. SumManager(m)'
      <4>. HIDE DEF one
      <4>1. manager'[m].state \notin {"unmade", "gone"}
        BY <2>3, <3>3, <3>4
      <4>2. /\ manager'[m].summed <= clock'
            /\ \A s \in nodeStats' :
                 /\ s.at <= manager'[m].summed
                 /\ s.at + 2 <= manager'[m].summed \/ s.place \notin manager'[m].nodes
        BY <1>2, <2>2, <2>5, <3>3, <3>4
      <4>4. /\ manager'[m].node \in manager'[m].nodes
            /\ manager'[m].count <= Cardinality(Logged(ConfigNodes[manager[m].node], manager[m].minute)')
        <5>1. c <= Cardinality(Logged(ConfigNodes[p], manager[m].minute))
          BY <2>4
        <5>2. Logged(ConfigNodes[manager[m].node], manager[m].minute)'
                = Logged(ConfigNodes[p], manager[m].minute)
          BY <1>2, <3>3, <3>4 DEF Logged
        <5>. QED BY <3>3, <3>4, <5>1, <5>2
      <4>. QED BY <1>2, <1>4, <4>1, <4>2, <4>4 DEF SumManager
    <3>. QED BY <1>5, <1>6, <1>7, <1>8, <2>2, <3>1, <3>2, <3>5
  <2>. QED BY <2>1, <2>6, <2>7
<1>12. CASE CreateNodeStats(m)
  <2>. DEFINE p == manager[m].node
  <2>1. p # 0
    BY <1>12 DEF CreateNodeStats
  <2>2. p \in Spots /\ ConfigNodes[p] \in Nodes /\ manager[m].count \in Nat
    BY <1>1, <2>1, ListedNodes DEF Monitors
  <2>3. /\ p \in manager[m].nodes
        /\ manager[m].count <= Cardinality(Logged(ConfigNodes[p], manager[m].minute))
    BY <1>1, <2>1 DEF SumManager
  <2>4. /\ manager[m].summed <= clock
        /\ \A s \in nodeStats :
             /\ s.at <= manager[m].summed
             /\ s.at + 2 <= manager[m].summed \/ s.place \notin manager[m].nodes
    BY <1>1, <1>4, <2>3 DEF SumManager
  <2>5. manager[m].state \notin {"unmade", "gone"}
    BY <1>1, <2>1 DEF SumManager
  <2>6. PICK row \in NodeRows :
          /\ row = [node |-> ConfigNodes[p], place |-> p, minute |-> manager[m].minute,
                    count |-> manager[m].count, by |-> m, at |-> manager[m].summed]
          /\ row.node = ConfigNodes[p] /\ row.place = p /\ row.minute = manager[m].minute
          /\ row.at = manager[m].summed /\ row.count = manager[m].count
    <3>. DEFINE r == [node |-> ConfigNodes[p], place |-> p, minute |-> manager[m].minute,
                    count |-> manager[m].count, by |-> m, at |-> manager[m].summed]
    <3>1. r \in NodeRows
      BY <1>9, <2>2 DEF NodeRows
    <3>2. /\ r.node = ConfigNodes[p] /\ r.place = p /\ r.minute = manager[m].minute
          /\ r.at = manager[m].summed /\ r.count = manager[m].count
      OBVIOUS
    <3>. QED BY <3>1, <3>2
  <2>7. PICK rest \in SUBSET manager[m].nodes :
          /\ manager' = [manager EXCEPT ![m].nodes = rest, ![m].node = 0]
          /\ \/ nodeStats' = nodeStats \union {row} /\ p \notin rest
             \/ nodeStats' = nodeStats
    <3>1. \/ /\ nodeStats' = nodeStats \union {row}
             /\ manager' = [manager EXCEPT ![m].nodes = @ \ {p}, ![m].node = 0]
          \/ /\ nodeStats' = nodeStats
             /\ manager' = [manager EXCEPT ![m].nodes = {}, ![m].node = 0]
      BY <1>12, <2>6 DEF CreateNodeStats
    <3>2. CASE /\ nodeStats' = nodeStats \union {row}
               /\ manager' = [manager EXCEPT ![m].nodes = @ \ {p}, ![m].node = 0]
      <4>1. manager[m].nodes \ {p} \in SUBSET manager[m].nodes
        OBVIOUS
      <4>. QED BY <3>2, <4>1
    <3>3. CASE /\ nodeStats' = nodeStats
               /\ manager' = [manager EXCEPT ![m].nodes = {}, ![m].node = 0]
      <4>1. {} \in SUBSET manager[m].nodes
        OBVIOUS
      <4>. QED BY <3>3, <4>1
    <3>. QED BY <3>1, <3>2, <3>3
  <2>8. SumRow(row)'
    <3>1. row.count <= Cardinality(Logged(row.node, row.minute)')
      BY <1>3, <2>3, <2>6
    <3>2. row.at <= clock'
      BY <1>2, <2>4, <2>6
    <3>. QED BY <3>1, <3>2 DEF SumRow
  <2>. DEFINE one == [manager[m] EXCEPT !.nodes = rest, !.node = 0]
  <2>9. manager' = [manager EXCEPT ![m] = one]
    BY <2>7
  <2>10. one \in Monitors
    BY <1>1 DEF Monitors
  <2>11. /\ one.state = manager[m].state /\ one.summed = manager[m].summed
         /\ one.node = 0 /\ one.nodes = rest
    BY <1>1 DEF Monitors
  <2>12. manager'[m] = one
    BY <1>1, <2>9 DEF SumTypes
  <2>. HIDE DEF one
  <2>13. SumManager(m)'
    <3>1. manager'[m].state \notin {"unmade", "gone"} /\ manager'[m].node = 0
      BY <2>5, <2>11, <2>12
    <3>2. \A s \in nodeStats' :
            /\ s.at <= manager[m].summed
            /\ s.at + 2 <= manager[m].summed \/ s.place \notin rest
      <4>1. row.at <= manager[m].summed
        BY <1>9, <2>6
      <4>. HIDE DEF p
      <4>. QED BY <2>4, <2>6, <2>7, <4>1
    <3>3. /\ manager'[m].summed <= clock'
          /\ \A s \in nodeStats' :
               /\ s.at <= manager'[m].summed
               /\ s.at + 2 <= manager'[m].summed \/ s.place \notin manager'[m].nodes
      BY <1>2, <2>4, <2>11, <2>12, <3>2
    <3>. QED BY <1>2, <1>4, <3>1, <3>3 DEF SumManager
  <2>14. \A s \in nodeStats' : SumRow(s)' /\ s \in NodeRows
    BY <1>7, <1>8, <2>6, <2>7, <2>8
  <2>15. ASSUME NEW s \in nodeStats, InTime(s), InTime(row), s.place = row.place, s.minute = row.minute
         PROVE  FALSE
    <3>1. s.at + 2 <= manager[m].summed
      BY <2>3, <2>4, <2>6, <2>15
    <3>2. Minute(s.at) < Minute(manager[m].summed)
      BY <1>9, <3>1, Minutes
    <3>3. Minute(s.at) = Minute(manager[m].summed)
      BY <2>6, <2>15 DEF InTime
    <3>4. Minute(s.at) \in Nat
      BY <1>9, Minutes
    <3>. QED BY <3>2, <3>3, <3>4
  <2>16. \A s, o \in nodeStats' :
           InTime(s) /\ InTime(o) /\ o.place = s.place /\ o.minute = s.minute => o = s
    BY <1>7, <2>7, <2>15
  <2>. QED BY <1>5, <1>6, <2>9, <2>10, <2>13, <2>14, <2>16
<1>. QED BY <1>10, <1>11, <1>12

LEMMA SumStart == PersistenceInit => SumInv
<1>. SUFFICES ASSUME PersistenceInit PROVE SumInv
  OBVIOUS
<1>1. SupervisionInit
  BY DEF PersistenceInit
<1>2. SumTypes
  BY <1>1, UnmadeMonitor, FS_EmptySet DEF SupervisionInit, SumTypes
<1>3. \A m \in Managers : SumManager(m)
  BY <1>1, UnmadeMonitor, SupervisionAssumption DEF SupervisionInit, SumManager
<1>. QED BY <1>1, <1>2, <1>3 DEF SupervisionInit, SumInv

LEMMA SumStep ==
    ASSUME SumInv, [PersistenceNext]_persistenceVars
    PROVE  SumInv'
<1>1. CASE part # "statistics"
  <2>1. part' # "statistics" /\ nodeStats' = nodeStats
    BY <1>1, SummingSteps DEF supervisionVars
  <2>. QED BY <1>1, <2>1 DEF SumInv
<1>2. CASE part = "statistics"
  <2>1. part' = part /\ SumTypes
    BY <1>2, SummingSteps DEF SumInv
  <2>2. CASE UNCHANGED supervisionVars
    <3>1. UNCHANGED <<clock, manager, registered, getter, lbLogs, nodeStats, begun>>
      BY <2>2 DEF supervisionVars
    <3>2. SumTypes' /\ clock <= clock' /\ \A m \in Managers : Sums(m)' = Sums(m)
      BY <2>1, <3>1 DEF SumTypes, Sums
    <3>. QED BY <1>2, <2>1, <3>1, <3>2, SumStays
  <2>3. CASE Summing
    <3>1. \/ ClockTick
          \/ \E g \in Getters : FindManager(g)
          \/ \E g \in Getters, n \in Nodes, t \in 0 .. MaxClock : RecordRequest(g, n, t)
          \/ \E m \in Managers : ProcessLog(m)
          \/ (\E g \in Getters : MakeManager(g)) \/ Lifecycle
          \/ \E m \in Managers : PerformAggregation(m) \/ SumNode(m) \/ CreateNodeStats(m)
      BY <2>3 DEF Summing, Registry, Monitoring
    <3>. QED BY <1>2, <2>1, <3>1, SumQuietSteps, SumLifecycle, SumMonitor
  <2>. QED BY <1>2, <2>2, <2>3, SummingSteps
<1>. QED BY <1>1, <1>2

\* GetManager, performAggregation: however
\* requests race for the manager, and however often the process or the manager is
\* stopped and made again, no row counts more requests than were logged in its
\* minute, and one place of the list gets at most one row of a minute from ticks
\* that are taken in time.
THEOREM OneRowPerMinute == Spec => []MinutesSummedOnce
<1>1. PersistenceInit => SumInv
  BY SumStart
<1>2. SumInv /\ [PersistenceNext]_persistenceVars => SumInv'
  BY SumStep
<1>3. SumInv => MinutesSummedOnce
  BY DEF SumInv, SumRow, MinutesSummedOnce
<1>. QED BY <1>1, <1>2, <1>3, PTL DEF Spec

-----------------------------------------------------------------------------
(* The managers of a load balancer: types                                  *)

LEMMA WatchSteps ==
    ASSUME [PersistenceNext]_persistenceVars
    PROVE  /\ part' = part
           /\ \/ UNCHANGED supervisionVars
              \/ ClockTick \/ AlertChecks \/ Monitoring \/ Lifecycle
              \/ \E g \in Getters : Registry(g)
<1>1. CASE UNCHANGED persistenceVars
  BY <1>1 DEF persistenceVars
<1>2. CASE Logging \/ Retention \/ Keyed \/ Conversing
  BY <1>2 DEF Logging, Retention, Keyed, Conversing
<1>3. CASE Alerting \/ Summing
  BY <1>3 DEF Alerting, Summing
<1>. QED BY <1>1, <1>2, <1>3 DEF PersistenceNext

Conditions == {"all_nodes_down", "low_healthy_nodes", "high_error_rate"} \union Nodes
Watchers == [state : States, checked : Nat, todo : Seq(Conditions),
             pc : {"wait", "check", "list", "insert"},
             queue : Seq(LbLogs), summed : Nat, minute : Nat, nodes : SUBSET Spots,
             node : Spots \union {0}, count : Nat]
Alerts   == [type : Conditions, acknowledged : BOOLEAN]

WatchTypes ==
    /\ clock \in Nat /\ clock <= MaxClock /\ begun \in Nat
    /\ manager \in [Managers -> Watchers]
    /\ \A m \in Managers : /\ Len(manager[m].queue) <= QueueSize
                           /\ manager[m].pc \in {"list", "insert"} => manager[m].todo # <<>>
    /\ registered \in Managers \union {NoManager}
    /\ getter \in [Getters -> [pc : {"idle", "missed", "has"},
                               manager : Managers \union {NoManager}]]
    /\ \A g \in Getters : getter[g].pc = "has" => getter[g].manager \in Managers
    /\ alerts \in Seq(Alerts)
    /\ IsFiniteSet(lbLogs)

LEMMA RoundConditions == Round \in Seq(Conditions)
<1>1. ConfigNodes \in Seq(Conditions)
  BY SupervisionAssumption DEF Conditions
<1>2. <<"all_nodes_down", "low_healthy_nodes", "high_error_rate">> \in Seq(Conditions)
  BY DEF Conditions
<1>. QED BY <1>1, <1>2, ConcatProperties DEF Round

LEMMA UnmadeWatcher ==
    /\ Unmade \in Watchers /\ [Unmade EXCEPT !.state = "gone"] \in Watchers
    /\ Unmade.queue = <<>> /\ [Unmade EXCEPT !.state = "gone"].queue = <<>>
    /\ Unmade.pc = "wait" /\ [Unmade EXCEPT !.state = "gone"].pc = "wait"
    /\ Unmade.todo = <<>> /\ [Unmade EXCEPT !.state = "gone"].todo = <<>>
<1>1. <<>> \in Seq(LbLogs) /\ <<>> \in Seq(Conditions)
  OBVIOUS
<1>2. Unmade \in Watchers
  BY <1>1 DEF Unmade, Watchers, States
<1>3. [Unmade EXCEPT !.state = "gone"] \in Watchers
  BY <1>2 DEF Watchers, States
<1>. QED BY <1>2, <1>3 DEF Unmade

LEMMA WatchTypesInit == ASSUME PersistenceInit PROVE WatchTypes
<1>1. SupervisionInit
  BY DEF PersistenceInit
<1>2. manager = [m \in Managers |-> Unmade]
  BY <1>1 DEF SupervisionInit
<1>3. /\ manager \in [Managers -> Watchers]
      /\ \A m \in Managers : manager[m].queue = <<>> /\ manager[m].pc = "wait"
  BY <1>2, UnmadeWatcher
<1>4. \A m \in Managers : /\ Len(manager[m].queue) <= QueueSize
                           /\ manager[m].pc \in {"list", "insert"} => manager[m].todo # <<>>
  BY <1>3, SupervisionAssumption
<1>5. alerts \in Seq(Alerts) /\ IsFiniteSet(lbLogs)
  BY <1>1, FS_EmptySet DEF SupervisionInit
<1>. QED BY <1>1, <1>3, <1>4, <1>5, SupervisionAssumption DEF SupervisionInit, WatchTypes

\* A step of one manager.
LEMMA ManagerTypes ==
    ASSUME WatchTypes, NEW m \in Managers, NEW w \in Watchers, Len(w.queue) <= QueueSize,
           w.pc \in {"list", "insert"} => w.todo # <<>>,
           manager' = [manager EXCEPT ![m] = w]
    PROVE  /\ manager' \in [Managers -> Watchers]
           /\ \A x \in Managers : /\ Len(manager'[x].queue) <= QueueSize
                                   /\ manager'[x].pc \in {"list", "insert"} => manager'[x].todo # <<>>
BY DEF WatchTypes

LEMMA LifeTypes ==
    ASSUME WatchTypes,
           ClockTick \/ Lifecycle \/ \E g \in Getters : Registry(g)
    PROVE  WatchTypes'
<1>1. UNCHANGED <<alerts, lbLogs, begun>>
  BY DEF ClockTick, Lifecycle, StopAll, Stopped, Restart, Registry, FindManager, MakeManager, rowVars
<1>2. \A g \in Getters, x \in [pc : {"idle", "missed", "has"}, manager : Managers \union {NoManager}] :
        (x.pc = "has" => x.manager \in Managers) /\ getter' = [getter EXCEPT ![g] = x]
        => /\ getter' \in [Getters -> [pc : {"idle", "missed", "has"},
                                       manager : Managers \union {NoManager}]]
           /\ \A h \in Getters : getter'[h].pc = "has" => getter'[h].manager \in Managers
  BY DEF WatchTypes
<1>3. CASE ClockTick
  <2>1. clock' \in Nat /\ clock' <= MaxClock /\ UNCHANGED <<manager, registered, getter>>
    BY <1>3, SupervisionAssumption DEF ClockTick, WatchTypes
  <2>. QED BY <1>1, <2>1 DEF WatchTypes
<1>4. ASSUME NEW g \in Getters, FindManager(g) PROVE WatchTypes'
  <2>. DEFINE x == IF registered # NoManager THEN [pc |-> "has", manager |-> registered]
                   ELSE [pc |-> "missed", manager |-> NoManager]
  <2>1. /\ x \in [pc : {"idle", "missed", "has"}, manager : Managers \union {NoManager}]
        /\ x.pc = "has" => x.manager \in Managers
    BY DEF WatchTypes
  <2>2. getter' = [getter EXCEPT ![g] = x] /\ UNCHANGED <<clock, manager, registered>>
    BY <1>4 DEF FindManager
  <2>. HIDE DEF x
  <2>. QED BY <1>1, <1>2, <2>1, <2>2 DEF WatchTypes
<1>5. ASSUME NEW g \in Getters, MakeManager(g) PROVE WatchTypes'
  <2>1. clock' = clock
    BY <1>5 DEF MakeManager
  <2>2. PICK x \in [pc : {"idle", "missed", "has"}, manager : Managers \union {NoManager}] :
          /\ getter' = [getter EXCEPT ![g] = x]
          /\ x.pc = "has" => x.manager \in Managers
    <3>1. \/ /\ registered # NoManager
             /\ getter' = [getter EXCEPT ![g] = [pc |-> "has", manager |-> registered]]
          \/ \E m \in New : getter' = [getter EXCEPT ![g] = [pc |-> "has", manager |-> m]]
          \/ getter' = [getter EXCEPT ![g] = [pc |-> "idle", manager |-> NoManager]]
      BY <1>5 DEF MakeManager
    <3>2. New \subseteq Managers
      BY DEF New
    <3>3. \A m \in Managers :
            /\ [pc |-> "has", manager |-> m] \in
                 [pc : {"idle", "missed", "has"}, manager : Managers \union {NoManager}]
            /\ [pc |-> "has", manager |-> m].manager = m
      OBVIOUS
    <3>4. CASE \E m \in Managers : getter' = [getter EXCEPT ![g] = [pc |-> "has", manager |-> m]]
      BY <3>3, <3>4
    <3>5. CASE getter' = [getter EXCEPT ![g] = [pc |-> "idle", manager |-> NoManager]]
      <4>1. /\ [pc |-> "idle", manager |-> NoManager] \in
                 [pc : {"idle", "missed", "has"}, manager : Managers \union {NoManager}]
            /\ [pc |-> "idle", manager |-> NoManager].pc # "has"
        OBVIOUS
      <4>. QED BY <3>5, <4>1
    <3>. QED BY <3>1, <3>2, <3>4, <3>5 DEF WatchTypes
  <2>3. CASE UNCHANGED <<manager, registered>>
    BY <1>1, <1>2, <2>1, <2>2, <2>3 DEF WatchTypes
  <2>4. ASSUME NEW m \in New, manager' = [manager EXCEPT ![m] = Started], registered' = m
        PROVE  WatchTypes'
    <3>1. m \in Managers
      BY DEF New
    <3>2. /\ Started \in Watchers /\ Started.queue = <<>> /\ Started.pc = "check"
      BY UnmadeWatcher, RoundConditions DEF Started, Watchers, States, WatchTypes
    <3>3. Len(Started.queue) <= QueueSize
          /\ (Started.pc \in {"list", "insert"} => Started.todo # <<>>)
      BY <3>2, SupervisionAssumption
    <3>4. /\ manager' \in [Managers -> Watchers]
          /\ \A y \in Managers : /\ Len(manager'[y].queue) <= QueueSize
                                 /\ manager'[y].pc \in {"list", "insert"} => manager'[y].todo # <<>>
      <4>1. PICK w \in Watchers : w = Started
        BY <3>2
      <4>2. manager' = [manager EXCEPT ![m] = w]
        BY <2>4, <4>1
      <4>3. Len(w.queue) <= QueueSize /\ (w.pc \in {"list", "insert"} => w.todo # <<>>)
        BY <3>3, <4>1
      <4>. QED BY <3>1, <4>2, <4>3 DEF WatchTypes
    <3>. QED BY <1>1, <1>2, <2>1, <2>2, <2>4, <3>1, <3>4 DEF WatchTypes
  <2>. QED BY <1>5, <2>3, <2>4 DEF MakeManager
<1>6. ASSUME NEW m \in Managers, NEW state \in States,
             manager' = [manager EXCEPT ![m].state = state], UNCHANGED <<clock, registered, getter>>
      PROVE  WatchTypes'
  <2>1. manager[m] \in Watchers
    BY DEF WatchTypes
  <2>2. /\ [manager[m] EXCEPT !.state = state] \in Watchers
        /\ [manager[m] EXCEPT !.state = state].queue = manager[m].queue
        /\ [manager[m] EXCEPT !.state = state].pc = manager[m].pc
        /\ [manager[m] EXCEPT !.state = state].todo = manager[m].todo
    BY <2>1 DEF Watchers
  <2>3. manager' = [manager EXCEPT ![m] = [manager[m] EXCEPT !.state = state]]
    BY <1>6
  <2>4. /\ manager' \in [Managers -> Watchers]
        /\ \A x \in Managers : /\ Len(manager'[x].queue) <= QueueSize
                               /\ manager'[x].pc \in {"list", "insert"} => manager'[x].todo # <<>>
    BY <2>2, <2>3, ManagerTypes DEF WatchTypes
  <2>. QED BY <1>1, <1>6, <2>4 DEF WatchTypes
<1>7. CASE StopAll
  <2>1. registered \in Managers
    BY <1>7 DEF StopAll, WatchTypes
  <2>. QED BY <1>6, <1>7, <2>1 DEF StopAll, States
<1>8. ASSUME NEW m \in Managers, Stopped(m) PROVE WatchTypes'
  BY <1>6, <1>8 DEF Stopped, States
<1>9. CASE Restart
  <2>1. /\ registered' = NoManager /\ clock' = clock
        /\ manager' = [m \in Managers |->
             IF manager[m].state = "unmade" THEN Unmade ELSE [Unmade EXCEPT !.state = "gone"]]
        /\ getter' = [g \in Getters |-> [pc |-> "idle", manager |-> NoManager]]
    BY <1>9 DEF Restart
  <2>2. /\ manager' \in [Managers -> Watchers]
        /\ \A m \in Managers : manager'[m].queue = <<>> /\ manager'[m].pc = "wait"
    BY <2>1, UnmadeWatcher
  <2>3. \A m \in Managers : /\ Len(manager'[m].queue) <= QueueSize
                            /\ manager'[m].pc \in {"list", "insert"} => manager'[m].todo # <<>>
    BY <2>2, SupervisionAssumption
  <2>. QED BY <1>1, <2>1, <2>2, <2>3 DEF WatchTypes
<1>. QED BY <1>3, <1>4, <1>5, <1>7, <1>8, <1>9 DEF Lifecycle, Registry

LEMMA MonitoringTypes ==
    ASSUME WatchTypes, Monitoring
    PROVE  WatchTypes'
<1>1. UNCHANGED <<clock, registered, alerts>>
  BY DEF Monitoring, RecordRequest, ProcessLog, PerformAggregation, SumNode, CreateNodeStats,
         monitorFrame, rowVars
<1>2. ASSUME NEW m \in Managers, NEW w \in Watchers, manager' = [manager EXCEPT ![m] = w],
             Len(w.queue) <= QueueSize, w.pc = manager[m].pc, w.todo = manager[m].todo,
             UNCHANGED <<begun, getter>>, IsFiniteSet(lbLogs')
      PROVE  WatchTypes'
  BY <1>1, <1>2, ManagerTypes DEF WatchTypes
<1>3. ASSUME NEW g \in Getters, NEW n \in Nodes, NEW t \in 0 .. MaxClock, RecordRequest(g, n, t)
      PROVE  WatchTypes'
  <2>. DEFINE m == getter[g].manager
  <2>1. /\ UNCHANGED lbLogs /\ begun' = begun + 1 /\ getter[g].pc = "has"
        /\ getter' = [getter EXCEPT ![g] = [pc |-> "idle", manager |-> NoManager]]
        /\ manager' = IF Len(manager[m].queue) >= QueueSize THEN manager
                      ELSE [manager EXCEPT ![m].queue = Append(@, <<begun, n, t>>)]
    BY <1>3 DEF RecordRequest, rowVars
  <2>2. m \in Managers /\ manager[m] \in Watchers
    BY <2>1 DEF WatchTypes
  <2>3. /\ getter' \in [Getters -> [pc : {"idle", "missed", "has"},
                                    manager : Managers \union {NoManager}]]
        /\ \A h \in Getters : getter'[h].pc = "has" => getter'[h].manager \in Managers
    BY <2>1 DEF WatchTypes
  <2>4. <<begun, n, t>> \in LbLogs
    BY SupervisionAssumption DEF LbLogs, WatchTypes
  <2>. begun' \in Nat
    BY <2>1 DEF WatchTypes
  <2>5. CASE manager' = manager
    BY <1>1, <2>1, <2>3, <2>5 DEF WatchTypes
  <2>6. CASE manager' # manager
    <3>. DEFINE w == [manager[m] EXCEPT !.queue = Append(manager[m].queue, <<begun, n, t>>)]
    <3>1. manager' = [manager EXCEPT ![m] = w] /\ ~(Len(manager[m].queue) >= QueueSize)
      BY <2>1, <2>6
    <3>2. manager[m].queue \in Seq(LbLogs)
      BY <2>2 DEF Watchers
    <3>3. /\ Append(manager[m].queue, <<begun, n, t>>) \in Seq(LbLogs)
          /\ Len(Append(manager[m].queue, <<begun, n, t>>)) = Len(manager[m].queue) + 1
      BY <2>4, <3>2, AppendProperties
    <3>4. /\ w \in Watchers /\ w.queue = Append(manager[m].queue, <<begun, n, t>>)
          /\ w.pc = manager[m].pc /\ w.todo = manager[m].todo
      BY <2>2, <3>3 DEF Watchers
    <3>. HIDE DEF w
    <3>5. Len(w.queue) <= QueueSize
      <4>1. Len(w.queue) = Len(manager[m].queue) + 1
        BY <3>3, <3>4
      <4>2. PICK k \in Nat : k = Len(manager[m].queue)
        BY <3>2
      <4>. QED BY <3>1, <4>1, <4>2, SupervisionAssumption
    <3>6. /\ manager' \in [Managers -> Watchers]
          /\ \A x \in Managers : /\ Len(manager'[x].queue) <= QueueSize
                                 /\ manager'[x].pc \in {"list", "insert"} => manager'[x].todo # <<>>
      BY <2>2, <3>1, <3>4, <3>5, ManagerTypes DEF WatchTypes
    <3>. QED BY <1>1, <2>1, <2>3, <3>6 DEF WatchTypes
  <2>. QED BY <2>5, <2>6
<1>4. ASSUME NEW m \in Managers, ProcessLog(m) PROVE WatchTypes'
  <2>. DEFINE w == [manager[m] EXCEPT !.queue = Tail(manager[m].queue)]
  <2>1. /\ UNCHANGED <<getter, begun>>
        /\ manager' = [manager EXCEPT ![m] = w] /\ manager[m].queue # <<>>
        /\ lbLogs' = lbLogs \/ lbLogs' = lbLogs \union {Head(manager[m].queue)}
    BY <1>4 DEF ProcessLog, monitorFrame
  <2>2. manager[m] \in Watchers /\ manager[m].queue \in Seq(LbLogs)
        /\ Len(manager[m].queue) <= QueueSize
    BY DEF WatchTypes, Watchers
  <2>3. /\ Tail(manager[m].queue) \in Seq(LbLogs)
        /\ Len(Tail(manager[m].queue)) <= QueueSize
    BY <2>1, <2>2, HeadTailProperties, SupervisionAssumption
  <2>4. /\ w \in Watchers /\ w.queue = Tail(manager[m].queue)
        /\ w.pc = manager[m].pc /\ w.todo = manager[m].todo
    BY <2>2, <2>3 DEF Watchers
  <2>. HIDE DEF w
  <2>5. IsFiniteSet(lbLogs')
    <3>1. IsFiniteSet(lbLogs) /\ IsFiniteSet(lbLogs \union {Head(manager[m].queue)})
      BY FS_AddElement DEF WatchTypes
    <3>. QED BY <2>1, <3>1
  <2>. QED BY <1>2, <2>1, <2>3, <2>4, <2>5
<1>5. ASSUME NEW m \in Managers, PerformAggregation(m) \/ SumNode(m) \/ CreateNodeStats(m)
      PROVE  WatchTypes'
  <2>1. UNCHANGED <<getter, begun, lbLogs>>
    BY <1>5 DEF PerformAggregation, SumNode, CreateNodeStats, monitorFrame
  <2>2. manager[m] \in Watchers /\ Len(manager[m].queue) <= QueueSize
    BY DEF WatchTypes
  <2>3. ASSUME NEW w \in Watchers, manager' = [manager EXCEPT ![m] = w],
               w.queue = manager[m].queue, w.pc = manager[m].pc, w.todo = manager[m].todo
        PROVE  WatchTypes'
    BY <1>2, <2>1, <2>2, <2>3 DEF WatchTypes
  <2>4. ASSUME NEW nodes \in SUBSET Spots, NEW summed \in Nat, NEW minute \in Nat,
               manager' = [manager EXCEPT ![m].summed = summed, ![m].minute = minute,
                                          ![m].nodes = nodes]
        PROVE  WatchTypes'
    <3>. DEFINE w == [manager[m] EXCEPT !.summed = summed, !.minute = minute, !.nodes = nodes]
    <3>1. w \in Watchers /\ w.queue = manager[m].queue /\ w.pc = manager[m].pc
          /\ w.todo = manager[m].todo
      BY <2>2 DEF Watchers
    <3>2. manager' = [manager EXCEPT ![m] = w]
      BY <2>4
    <3>. HIDE DEF w
    <3>. QED BY <2>3, <3>1, <3>2
  <2>5. ASSUME NEW nodes \in SUBSET Spots,
               manager' = [manager EXCEPT ![m].nodes = nodes, ![m].node = 0]
        PROVE  WatchTypes'
    <3>. DEFINE w == [manager[m] EXCEPT !.nodes = nodes, !.node = 0]
    <3>1. w \in Watchers /\ w.queue = manager[m].queue /\ w.pc = manager[m].pc
          /\ w.todo = manager[m].todo
      BY <2>2 DEF Watchers
    <3>2. manager' = [manager EXCEPT ![m] = w]
      BY <2>5
    <3>. HIDE DEF w
    <3>. QED BY <2>3, <3>1, <3>2
  <2>6. ASSUME NEW q \in Spots, NEW c \in Nat,
               manager' = [manager EXCEPT ![m].node = q, ![m].count = c]
        PROVE  WatchTypes'
    <3>. DEFINE w == [manager[m] EXCEPT !.node = q, !.count = c]
    <3>1. w \in Watchers /\ w.queue = manager[m].queue /\ w.pc = manager[m].pc
          /\ w.todo = manager[m].todo
      BY <2>2 DEF Watchers
    <3>2. manager' = [manager EXCEPT ![m] = w]
      BY <2>6
    <3>. HIDE DEF w
    <3>. QED BY <2>3, <3>1, <3>2
  <2>7. manager[m].nodes \in SUBSET Spots /\ clock \in Nat /\ manager[m].summed \in Nat
    BY <2>2 DEF Watchers, WatchTypes
  <2>8. CASE PerformAggregation(m)
    <3>1. PICK t \in Due(m, manager[m].summed), nodes \in {Spots, {}} :
             manager' = [manager EXCEPT ![m].summed = t, ![m].minute = Minute(clock),
                                        ![m].nodes = nodes]
      BY <2>8 DEF PerformAggregation, Spots
    <3>2. t \in Nat /\ Minute(clock) \in Nat
      BY <2>7, <3>1, Minutes DEF Due
    <3>. QED BY <2>4, <3>1, <3>2
  <2>9. CASE SumNode(m)
    <3>1. PICK q \in manager[m].nodes :
            \/ manager' = [manager EXCEPT ![m].nodes = @ \ {q}]
            \/ manager' = [manager EXCEPT ![m].node = q,
                  ![m].count = Cardinality(Logged(ConfigNodes[q], manager[m].minute))]
      BY <2>9 DEF SumNode
    <3>2. CASE manager' = [manager EXCEPT ![m].nodes = @ \ {q}]
      <4>1. /\ [manager[m] EXCEPT !.nodes = manager[m].nodes \ {q}] \in Watchers
            /\ [manager[m] EXCEPT !.nodes = manager[m].nodes \ {q}].queue = manager[m].queue
            /\ [manager[m] EXCEPT !.nodes = manager[m].nodes \ {q}].pc = manager[m].pc
            /\ [manager[m] EXCEPT !.nodes = manager[m].nodes \ {q}].todo = manager[m].todo
        BY <2>2 DEF Watchers
      <4>. QED BY <2>3, <3>2, <4>1
    <3>3. CASE manager' = [manager EXCEPT ![m].node = q,
                  ![m].count = Cardinality(Logged(ConfigNodes[q], manager[m].minute))]
      <4>1. Logged(ConfigNodes[q], manager[m].minute) \subseteq lbLogs
        BY DEF Logged
      <4>2. Cardinality(Logged(ConfigNodes[q], manager[m].minute)) \in Nat
        BY <4>1, FS_Subset, FS_CardinalityType DEF WatchTypes
      <4>. QED BY <2>6, <2>7, <3>1, <3>3, <4>2
    <3>. QED BY <3>1, <3>2, <3>3
  <2>10. CASE CreateNodeStats(m)
    <3>1. PICK nodes \in SUBSET Spots :
            manager' = [manager EXCEPT ![m].nodes = nodes, ![m].node = 0]
      <4>1. \/ manager' = [manager EXCEPT ![m].nodes = @ \ {manager[m].node}, ![m].node = 0]
            \/ manager' = [manager EXCEPT ![m].nodes = {}, ![m].node = 0]
        BY <2>10 DEF CreateNodeStats
      <4>2. manager[m].nodes \ {manager[m].node} \in SUBSET Spots
        BY <2>7
      <4>3. {} \in SUBSET Spots
        OBVIOUS
      <4>. QED BY <4>1, <4>2, <4>3
    <3>. QED BY <2>5, <3>1
  <2>. QED BY <1>5, <2>8, <2>9, <2>10
<1>. QED BY <1>3, <1>4, <1>5 DEF Monitoring

\* What is left of a sequence without its first i elements.
LEMMA Remaining ==
    ASSUME NEW S, NEW s \in Seq(S), NEW i \in DOMAIN s
    PROVE  /\ SubSeq(s, i + 1, Len(s)) \in Seq(S)
           /\ Len(SubSeq(s, i + 1, Len(s))) = Len(s) - i
           /\ \A k \in 1 .. Len(s) - i : SubSeq(s, i + 1, Len(s))[k] = s[i + k]
<1>1. i \in 1 .. Len(s) /\ Len(s) \in Nat
  OBVIOUS
<1>2. CASE i = Len(s)
  <2>1. SubSeq(s, i + 1, Len(s)) = <<>>
    BY <1>1, <1>2, SubSeqEmpty
  <2>. QED BY <1>1, <1>2, <2>1
<1>3. CASE i # Len(s)
  <2>1. i + 1 \in 1 .. Len(s) /\ Len(s) \in 1 .. Len(s)
    BY <1>1, <1>3
  <2>. DEFINE b == SubSeq(s, i + 1, Len(s))
  <2>2. /\ b \in Seq(S) /\ Len(b) = IF i + 1 <= Len(s) THEN Len(s) - (i + 1) + 1 ELSE 0
        /\ \A k \in 1 .. Len(s) - (i + 1) + 1 : b[k] = s[(i + 1) + k - 1]
    BY <2>1, SubSeqProperties
  <2>. QED BY <1>1, <2>1, <2>2
<1>. QED BY <1>2, <1>3

LEMMA CheckTypes ==
    ASSUME WatchTypes, AlertChecks
    PROVE  WatchTypes'
<1>1. UNCHANGED <<clock, registered, getter, lbLogs, begun>>
  BY DEF AlertChecks, CheckAlerts, CheckCondition, ListAlerts, CreateAlert, AcknowledgeAlert,
         DeleteOldAlerts, alertFrame, supervisionVars
<1>2. ASSUME NEW m \in Managers, NEW w \in Watchers, manager' = [manager EXCEPT ![m] = w],
             w.queue = manager[m].queue, w.pc \in {"list", "insert"} => w.todo # <<>>,
             alerts' \in Seq(Alerts)
      PROVE  WatchTypes'
  BY <1>1, <1>2, ManagerTypes DEF WatchTypes
<1>3. ASSUME manager' = manager, alerts' \in Seq(Alerts) PROVE WatchTypes'
  BY <1>1, <1>3 DEF WatchTypes
<1>4. ASSUME NEW m \in Managers, NextCheck(m), manager[m].todo # <<>>, alerts' \in Seq(Alerts)
      PROVE  WatchTypes'
  <2>1. manager[m] \in Watchers
    BY DEF WatchTypes
  <2>2. Tail(manager[m].todo) \in Seq(Conditions)
    BY <1>4, <2>1, HeadTailProperties DEF Watchers
  <2>. DEFINE w == [manager[m] EXCEPT !.todo = Tail(manager[m].todo), !.pc = "check"]
  <2>3. w \in Watchers /\ w.queue = manager[m].queue /\ w.pc = "check"
    BY <2>1, <2>2 DEF Watchers
  <2>4. manager' = [manager EXCEPT ![m] = w]
    BY <1>4 DEF NextCheck
  <2>. HIDE DEF w
  <2>. QED BY <1>2, <1>4, <2>3, <2>4
<1>5. ASSUME NEW m \in Managers, NEW pc \in {"list", "insert"}, manager[m].todo # <<>>,
             manager' = [manager EXCEPT ![m].pc = pc], alerts' = alerts
      PROVE  WatchTypes'
  <2>1. manager[m] \in Watchers
    BY DEF WatchTypes
  <2>. DEFINE w == [manager[m] EXCEPT !.pc = pc]
  <2>2. w \in Watchers /\ w.queue = manager[m].queue /\ w.todo = manager[m].todo
    BY <2>1 DEF Watchers
  <2>3. manager' = [manager EXCEPT ![m] = w]
    BY <1>5
  <2>4. alerts' \in Seq(Alerts)
    BY <1>5 DEF WatchTypes
  <2>. HIDE DEF w
  <2>. QED BY <1>2, <1>5, <2>2, <2>3, <2>4
<1>6. alerts \in Seq(Alerts)
  BY DEF WatchTypes
<1>7. ASSUME NEW m \in Managers, CheckAlerts(m) PROVE WatchTypes'
  <2>1. manager[m] \in Watchers /\ clock \in Nat
    BY DEF WatchTypes
  <2>2. PICK t \in Due(m, manager[m].checked) :
           manager' = [manager EXCEPT ![m].todo = Round, ![m].checked = t, ![m].pc = "check"]
    BY <1>7 DEF CheckAlerts
  <2>3. t \in Nat
    BY <2>1, <2>2 DEF Due, Watchers
  <2>. DEFINE w == [manager[m] EXCEPT !.todo = Round, !.checked = t, !.pc = "check"]
  <2>4. w \in Watchers /\ w.queue = manager[m].queue /\ w.pc = "check"
    BY <2>1, <2>3, RoundConditions DEF Watchers
  <2>5. manager' = [manager EXCEPT ![m] = w] /\ alerts' = alerts
    BY <1>7, <2>2 DEF CheckAlerts
  <2>. HIDE DEF w
  <2>. QED BY <1>2, <1>6, <2>4, <2>5
<1>8. ASSUME NEW m \in Managers, CheckCondition(m) PROVE WatchTypes'
  BY <1>4, <1>5, <1>6, <1>8 DEF CheckCondition
<1>9. ASSUME NEW m \in Managers, ListAlerts(m) PROVE WatchTypes'
  <2>1. manager[m].todo # <<>> /\ alerts' = alerts
    BY <1>9 DEF ListAlerts, WatchTypes
  <2>2. NextCheck(m) \/ manager' = [manager EXCEPT ![m].pc = "insert"]
    BY <1>9 DEF ListAlerts
  <2>. QED BY <1>4, <1>5, <1>6, <2>1, <2>2
<1>10. ASSUME NEW m \in Managers, CreateAlert(m) PROVE WatchTypes'
  <2>1. manager[m].todo # <<>> /\ manager[m] \in Watchers
    BY <1>10 DEF CreateAlert, WatchTypes
  <2>2. Type(m) \in Conditions
    BY <2>1, HeadTailProperties DEF Type, Watchers
  <2>3. [type |-> Type(m), acknowledged |-> FALSE] \in Alerts
    BY <2>2 DEF Alerts
  <2>4. Append(alerts, [type |-> Type(m), acknowledged |-> FALSE]) \in Seq(Alerts)
    BY <1>6, <2>3, AppendProperties
  <2>5. alerts' \in Seq(Alerts) /\ NextCheck(m)
    BY <1>6, <1>10, <2>4 DEF CreateAlert
  <2>. QED BY <1>4, <2>1, <2>5
<1>11. CASE AcknowledgeAlert
  <2>1. manager' = manager /\ alerts' = alerts
    BY <1>11 DEF AcknowledgeAlert, supervisionVars
  <2>. QED BY <1>3, <1>6, <2>1
<1>12. ASSUME NEW old \in DOMAIN alerts, DeleteOldAlerts(old) PROVE WatchTypes'
  <2>1. manager' = manager /\ alerts' \in Seq(Alerts)
    BY <1>6, <1>12, Remaining DEF DeleteOldAlerts
  <2>. QED BY <1>3, <2>1
<1>. QED BY <1>7, <1>8, <1>9, <1>10, <1>11, <1>12 DEF AlertChecks

LEMMA WatchTypesStep ==
    ASSUME WatchTypes, [PersistenceNext]_persistenceVars
    PROVE  WatchTypes'
<1>1. CASE UNCHANGED supervisionVars
  BY <1>1 DEF supervisionVars, WatchTypes
<1>. QED BY <1>1, WatchSteps, LifeTypes, MonitoringTypes, CheckTypes

-----------------------------------------------------------------------------
(* Alerts                                                                  *)

\* Only the registered manager checks; what it is about to raise is not open.
Raising(m) ==
    /\ m # registered => manager[m].state \in {"unmade", "gone"} /\ manager[m].todo = <<>>
    /\ supervisionFaults = 0 /\ Cardinality(Nodes) + 3 <= AlertLimit /\ manager[m].pc = "insert" =>
         \A i \in Unacknowledged : alerts[i].type # Type(m)

AlertInv ==
    /\ supervisionFaults \in Nat
    /\ \A m \in Managers : Raising(m)
    /\ AlertsDistinct

LEMMA AlertInit == ASSUME PersistenceInit PROVE AlertInv
<1>1. SupervisionInit
  BY DEF PersistenceInit
<1>2. \A m \in Managers : manager[m] = Unmade
  BY <1>1 DEF SupervisionInit
<1>3. Unacknowledged = {}
  BY <1>1 DEF SupervisionInit, Unacknowledged
<1>4. \A m \in Managers : Raising(m)
  BY <1>2, UnmadeWatcher, UnmadeMonitor DEF Raising
<1>. QED BY <1>1, <1>3, <1>4 DEF SupervisionInit, AlertInv, AlertsDistinct

LEMMA OneMore ==
    ASSUME NEW S, IsFiniteSet(S), NEW e
    PROVE  /\ IsFiniteSet(S \union {e}) /\ Cardinality(S \union {e}) \in Nat
           /\ Cardinality(S \union {e}) <= Cardinality(S) + 1
<1>1. Cardinality(S) \in Nat
  BY FS_CardinalityType
<1>. QED BY <1>1, FS_AddElement

LEMMA ConditionsCounted ==
    /\ IsFiniteSet(Conditions)
    /\ Cardinality(Conditions) \in Nat
    /\ Cardinality(Nodes) + 3 <= AlertLimit => Cardinality(Conditions) <= AlertLimit
<1>. DEFINE a == Nodes \union {"all_nodes_down"}
            b == a \union {"low_healthy_nodes"}
            c == b \union {"high_error_rate"}
<1>1. IsFiniteSet(Nodes) /\ Cardinality(Nodes) \in Nat
  BY SupervisionAssumption, FS_CardinalityType
<1>2. IsFiniteSet(a) /\ Cardinality(a) \in Nat /\ Cardinality(a) <= Cardinality(Nodes) + 1
  BY <1>1, OneMore
<1>. HIDE DEF a
<1>3. IsFiniteSet(b) /\ Cardinality(b) \in Nat /\ Cardinality(b) <= Cardinality(a) + 1
  BY <1>2, OneMore
<1>. HIDE DEF b
<1>4. IsFiniteSet(c) /\ Cardinality(c) \in Nat /\ Cardinality(c) <= Cardinality(b) + 1
  BY <1>3, OneMore
<1>5. Conditions = c
  BY DEF Conditions, a, b
<1>. HIDE DEF c
<1>. QED BY <1>1, <1>2, <1>3, <1>4, <1>5, SupervisionAssumption

\* While open alerts are of different types, a check sees all of them.
LEMMA AllLatest ==
    ASSUME WatchTypes, AlertsDistinct, supervisionFaults = 0, Cardinality(Nodes) + 3 <= AlertLimit
    PROVE  Latest = Unacknowledged
<1>. SUFFICES ASSUME NEW i \in Unacknowledged
              PROVE  Cardinality({j \in Unacknowledged : j > i}) < AlertLimit
  BY DEF Latest
<1>1. \A j \in Unacknowledged : j \in 1 .. Len(alerts) /\ alerts[j].type \in Conditions
  <2>1. \A j \in DOMAIN alerts : j \in 1 .. Len(alerts) /\ alerts[j] \in Alerts
    BY DEF WatchTypes
  <2>2. \A a \in Alerts : a.type \in Conditions
    BY DEF Alerts
  <2>. QED BY <2>1, <2>2 DEF Unacknowledged
<1>2. \A j, k \in Unacknowledged : alerts[j].type = alerts[k].type => j = k
  BY DEF AlertsDistinct
<1>. DEFINE f == [j \in Unacknowledged |-> alerts[j].type]
<1>3. f \in [Unacknowledged -> Conditions] /\ \A j, k \in Unacknowledged : f[j] = f[k] => j = k
  BY <1>1, <1>2
<1>. HIDE DEF f
<1>4. f \in Injection(Unacknowledged, Conditions)
  BY <1>3 DEF Injection, IsInjective
<1>5. /\ IsFiniteSet(Unacknowledged) /\ Cardinality(Unacknowledged) <= Cardinality(Conditions)
      /\ Cardinality(Unacknowledged) \in Nat
  BY <1>4, ConditionsCounted, FS_Injection, FS_CardinalityType
<1>6. {j \in Unacknowledged : j > i} \subseteq Unacknowledged \ {i}
  BY <1>1
<1>7. IsFiniteSet(Unacknowledged \ {i}) /\ Cardinality(Unacknowledged \ {i}) = Cardinality(Unacknowledged) - 1
  BY <1>5, FS_RemoveElement
<1>8. /\ Cardinality({j \in Unacknowledged : j > i}) <= Cardinality(Unacknowledged \ {i})
      /\ Cardinality({j \in Unacknowledged : j > i}) \in Nat
  BY <1>6, <1>7, FS_Subset, FS_CardinalityType
<1>. QED BY <1>5, <1>7, <1>8, ConditionsCounted, SupervisionAssumption

\* A step that raises no alert.
LEMMA AlertsFewer ==
    ASSUME AlertInv, WatchTypes, supervisionFaults' \in Nat,
           supervisionFaults' = 0 => supervisionFaults = 0,
           NEW f, \A i \in Unacknowledged' : f[i] \in Unacknowledged /\ alerts'[i].type = alerts[f[i]].type,
           \A i, j \in Unacknowledged' : f[i] = f[j] => i = j
    PROVE  /\ AlertsDistinct'
           /\ (\A m \in Managers :
                 /\ m # registered' =>
                      manager'[m].state \in {"unmade", "gone"} /\ manager'[m].todo = <<>>
                 /\ \/ manager'[m].pc # "insert"
                    \/ manager'[m].todo = manager[m].todo /\ manager[m].pc = "insert")
              => AlertInv'
<1>1. AlertsDistinct'
  BY DEF AlertInv, AlertsDistinct
<1>2. ASSUME \A m \in Managers :
                 /\ m # registered' =>
                      manager'[m].state \in {"unmade", "gone"} /\ manager'[m].todo = <<>>
                 /\ \/ manager'[m].pc # "insert"
                    \/ manager'[m].todo = manager[m].todo /\ manager[m].pc = "insert"
      PROVE  AlertInv'
  <2>1. ASSUME NEW m \in Managers PROVE Raising(m)'
    BY <1>2 DEF AlertInv, Raising, Type
  <2>. QED BY <1>1, <2>1 DEF AlertInv
<1>. QED BY <1>1, <1>2

LEMMA AlertsRest ==
    ASSUME AlertInv, WatchTypes, supervisionFaults' \in Nat,
           supervisionFaults' = 0 => supervisionFaults = 0, alerts' = alerts,
           \A m \in Managers :
             /\ m # registered' =>
                  manager'[m].state \in {"unmade", "gone"} /\ manager'[m].todo = <<>>
             /\ \/ manager'[m].pc # "insert"
                \/ manager'[m].todo = manager[m].todo /\ manager[m].pc = "insert"
    PROVE  AlertInv'
<1>1. Unacknowledged' = Unacknowledged
  BY DEF Unacknowledged
<1>. DEFINE f == [i \in Unacknowledged |-> i]
<1>2. /\ \A i \in Unacknowledged' : f[i] \in Unacknowledged /\ alerts'[i].type = alerts[f[i]].type
      /\ \A i, j \in Unacknowledged' : f[i] = f[j] => i = j
  BY <1>1
<1>. HIDE DEF f
<1>. QED BY <1>2, AlertsFewer

LEMMA FaultsGrow ==
    ASSUME supervisionFaults \in Nat, SupervisionFault \/ UNCHANGED supervisionFaults
    PROVE  supervisionFaults' \in Nat /\ (supervisionFaults' = 0 => UNCHANGED supervisionFaults)
BY DEF SupervisionFault

\* Managers come and go, and monitor.
LEMMA AlertsAside ==
    ASSUME AlertInv, WatchTypes,
           ClockTick \/ Lifecycle \/ Monitoring \/ \E g \in Getters : Registry(g)
    PROVE  AlertInv'
<1>1. alerts' = alerts /\ (SupervisionFault \/ UNCHANGED supervisionFaults)
  BY DEF ClockTick, Lifecycle, StopAll, Stopped, Restart, Registry, FindManager, MakeManager,
         Monitoring, RecordRequest, ProcessLog, PerformAggregation, SumNode, CreateNodeStats,
         monitorFrame, rowVars
<1>2. supervisionFaults' \in Nat /\ (supervisionFaults' = 0 => supervisionFaults = 0)
  BY <1>1, FaultsGrow DEF AlertInv
<1>3. \A m \in Managers : /\ manager[m] \in Watchers
                          /\ m # registered => /\ manager[m].state \in {"unmade", "gone"}
                                               /\ manager[m].todo = <<>>
  BY DEF AlertInv, Raising, WatchTypes
<1>4. ASSUME registered' = registered,
             \A m \in Managers : /\ manager'[m].todo = manager[m].todo /\ manager'[m].pc = manager[m].pc
                                 /\ manager'[m].state = manager[m].state \/ m = registered
      PROVE  AlertInv'
  BY <1>1, <1>2, <1>3, <1>4, AlertsRest
<1>5. CASE ClockTick \/ \E g \in Getters : FindManager(g)
  BY <1>4, <1>5 DEF ClockTick, FindManager
<1>6. ASSUME NEW g \in Getters, MakeManager(g) PROVE AlertInv'
  <2>1. CASE UNCHANGED <<manager, registered>>
    BY <1>4, <2>1
  <2>2. CASE ~UNCHANGED <<manager, registered>>
    <3>1. PICK m \in New : /\ registered = NoManager /\ registered' = m
                           /\ manager' = [manager EXCEPT ![m] = Started]
      BY <1>6, <2>2 DEF MakeManager
    <3>2. m \in Managers
      BY <3>1 DEF New
    <3>3. Started.pc = "check"
      BY UnmadeWatcher DEF Started, Watchers
    <3>4. manager'[m] = Started /\ \A x \in Managers : x # m => manager'[x] = manager[x]
      BY <3>1, <3>2 DEF WatchTypes
    <3>5. \A x \in Managers : x # registered
      BY <3>1, SupervisionAssumption
    <3>6. \A x \in Managers :
             /\ x # registered' =>
                  manager'[x].state \in {"unmade", "gone"} /\ manager'[x].todo = <<>>
             /\ \/ manager'[x].pc # "insert"
                \/ manager'[x].todo = manager[x].todo /\ manager[x].pc = "insert"
      BY <1>3, <3>1, <3>3, <3>4, <3>5
    <3>. QED BY <1>1, <1>2, <3>6, AlertsRest
  <2>. QED BY <2>1, <2>2
<1>7. ASSUME NEW m \in Managers, NEW state, m = registered,
             manager' = [manager EXCEPT ![m].state = state], registered' = registered
      PROVE  AlertInv'
  <2>1. /\ manager'[m].todo = manager[m].todo /\ manager'[m].pc = manager[m].pc
        /\ \A x \in Managers : x # m => manager'[x] = manager[x]
    BY <1>7 DEF WatchTypes, Watchers
  <2>. QED BY <1>4, <1>7, <2>1
<1>8. CASE StopAll
  <2>1. registered \in Managers
    BY <1>8 DEF StopAll, WatchTypes
  <2>. QED BY <1>7, <1>8, <2>1 DEF StopAll
<1>9. ASSUME NEW m \in Managers, Stopped(m) PROVE AlertInv'
  <2>1. m = registered
    BY <1>3, <1>9 DEF Stopped
  <2>. QED BY <1>7, <1>9, <2>1 DEF Stopped
<1>10. CASE Restart
  <2>1. \A m \in Managers : /\ manager'[m].state \in {"unmade", "gone"} /\ manager'[m].todo = <<>>
                            /\ manager'[m].pc = "wait"
    BY <1>10, UnmadeWatcher, UnmadeMonitor DEF Restart
  <2>. QED BY <1>1, <1>2, <2>1, AlertsRest
<1>11. CASE Monitoring
  <2>1. registered' = registered
    BY <1>11 DEF Monitoring, RecordRequest, ProcessLog, PerformAggregation, SumNode, CreateNodeStats,
                 monitorFrame
  <2>2. ASSUME NEW m \in Managers, NEW w,
               manager' = [manager EXCEPT ![m] = w], w.todo = manager[m].todo,
               w.pc = manager[m].pc, w.state = manager[m].state
        PROVE  AlertInv'
    <3>1. manager'[m] = w /\ \A x \in Managers : x # m => manager'[x] = manager[x]
      BY <2>2 DEF WatchTypes
    <3>. QED BY <1>4, <2>1, <2>2, <3>1
  <2>3. ASSUME NEW m \in Managers, NEW q,
               manager' = [manager EXCEPT ![m] = [manager[m] EXCEPT !.queue = q]]
        PROVE  AlertInv'
    <3>1. /\ [manager[m] EXCEPT !.queue = q].todo = manager[m].todo
          /\ [manager[m] EXCEPT !.queue = q].pc = manager[m].pc
          /\ [manager[m] EXCEPT !.queue = q].state = manager[m].state
      BY <1>3 DEF Watchers
    <3>. QED BY <2>2, <2>3, <3>1
  <2>4. ASSUME NEW g \in Getters, NEW n \in Nodes, NEW t \in 0 .. MaxClock, RecordRequest(g, n, t)
        PROVE  AlertInv'
    <3>1. CASE manager' = manager
      BY <1>4, <2>1, <3>1
    <3>2. CASE manager' # manager
      <4>1. /\ manager' = [manager EXCEPT ![getter[g].manager] =
                 [manager[getter[g].manager] EXCEPT
                    !.queue = Append(manager[getter[g].manager].queue, <<begun, n, t>>)]]
            /\ getter[g].manager \in Managers
        BY <2>4, <3>2 DEF RecordRequest, WatchTypes
      <4>. QED BY <2>3, <4>1
    <3>. QED BY <3>1, <3>2
  <2>5. ASSUME NEW m \in Managers, ProcessLog(m) PROVE AlertInv'
    BY <2>3, <2>5 DEF ProcessLog
  <2>6. ASSUME NEW m \in Managers, PerformAggregation(m) \/ SumNode(m) \/ CreateNodeStats(m)
        PROVE  AlertInv'
    <3>2. \A a, d, b :
            /\ [manager[m] EXCEPT !.summed = a, !.minute = d, !.nodes = b].todo = manager[m].todo
            /\ [manager[m] EXCEPT !.summed = a, !.minute = d, !.nodes = b].pc = manager[m].pc
            /\ [manager[m] EXCEPT !.summed = a, !.minute = d, !.nodes = b].state = manager[m].state
      BY <1>3 DEF Watchers
    <3>3. \A b :
            /\ [manager[m] EXCEPT !.nodes = b].todo = manager[m].todo
            /\ [manager[m] EXCEPT !.nodes = b].pc = manager[m].pc
            /\ [manager[m] EXCEPT !.nodes = b].state = manager[m].state
      BY <1>3 DEF Watchers
    <3>4. \A d, e :
            /\ [manager[m] EXCEPT !.node = d, !.count = e].todo = manager[m].todo
            /\ [manager[m] EXCEPT !.node = d, !.count = e].pc = manager[m].pc
            /\ [manager[m] EXCEPT !.node = d, !.count = e].state = manager[m].state
      BY <1>3 DEF Watchers
    <3>5. \A b, d :
            /\ [manager[m] EXCEPT !.nodes = b, !.node = d].todo = manager[m].todo
            /\ [manager[m] EXCEPT !.nodes = b, !.node = d].pc = manager[m].pc
            /\ [manager[m] EXCEPT !.nodes = b, !.node = d].state = manager[m].state
      BY <1>3 DEF Watchers
    <3>6. CASE PerformAggregation(m)
      <4>1. PICK t, n : manager' = [manager EXCEPT ![m].summed = t, ![m].minute = Minute(clock),
                                                   ![m].nodes = n]
        BY <3>6 DEF PerformAggregation
      <4>2. manager' = [manager EXCEPT ![m] =
                          [manager[m] EXCEPT !.summed = t, !.minute = Minute(clock), !.nodes = n]]
        BY <4>1
      <4>. DEFINE w == [manager[m] EXCEPT !.summed = t, !.minute = Minute(clock), !.nodes = n]
      <4>3. /\ w.todo = manager[m].todo /\ w.pc = manager[m].pc /\ w.state = manager[m].state
            /\ manager' = [manager EXCEPT ![m] = w]
        BY <3>2, <4>2
      <4>. HIDE DEF w
      <4>. QED BY <2>2, <4>3
    <3>7. CASE SumNode(m)
      <4>1. PICK n, c : \/ manager' = [manager EXCEPT ![m].nodes = @ \ {n}]
                        \/ manager' = [manager EXCEPT ![m].node = n, ![m].count = c]
        BY <3>7 DEF SumNode
      <4>2. \/ manager' = [manager EXCEPT ![m] = [manager[m] EXCEPT !.nodes = manager[m].nodes \ {n}]]
            \/ manager' = [manager EXCEPT ![m] = [manager[m] EXCEPT !.node = n, !.count = c]]
        BY <4>1
      <4>. QED BY <2>2, <3>3, <3>4, <4>2
    <3>8. CASE CreateNodeStats(m)
      <4>1. PICK n : manager' = [manager EXCEPT ![m].nodes = n, ![m].node = 0]
        BY <3>8 DEF CreateNodeStats
      <4>2. manager' = [manager EXCEPT ![m] = [manager[m] EXCEPT !.nodes = n, !.node = 0]]
        BY <4>1
      <4>. QED BY <2>2, <3>5, <4>2
    <3>. QED BY <2>6, <3>6, <3>7, <3>8
  <2>. QED BY <1>11, <2>4, <2>5, <2>6 DEF Monitoring
<1>. QED BY <1>5, <1>6, <1>8, <1>9, <1>10, <1>11 DEF Lifecycle, Registry

LEMMA AlertsChecked ==
    ASSUME AlertInv, WatchTypes, AlertChecks
    PROVE  AlertInv'
<1>1. registered' = registered /\ (SupervisionFault \/ UNCHANGED supervisionFaults)
  BY DEF AlertChecks, CheckAlerts, CheckCondition, ListAlerts, CreateAlert, AcknowledgeAlert,
         DeleteOldAlerts, alertFrame, supervisionVars
<1>2. supervisionFaults' \in Nat /\ (supervisionFaults' = 0 => UNCHANGED supervisionFaults)
  BY <1>1, FaultsGrow DEF AlertInv
<1>3. \A m \in Managers : /\ manager[m] \in Watchers
                          /\ m # registered => /\ manager[m].state \in {"unmade", "gone"}
                                               /\ manager[m].todo = <<>>
  BY DEF AlertInv, Raising, WatchTypes
<1>4. ASSUME NEW m \in Managers, m = registered, NEW w, manager' = [manager EXCEPT ![m] = w],
             w.pc # "insert", alerts' = alerts
      PROVE  AlertInv'
  <2>1. manager'[m] = w /\ \A x \in Managers : x # m => manager'[x] = manager[x]
    BY <1>4 DEF WatchTypes
  <2>. QED BY <1>1, <1>2, <1>3, <1>4, <2>1, AlertsRest
<1>5. ASSUME NEW m \in Managers, m = registered, alerts' = alerts,
             NextCheck(m) \/ manager' = [manager EXCEPT ![m].pc = "list"]
      PROVE  AlertInv'
  <2>1. [manager[m] EXCEPT !.todo = Tail(manager[m].todo), !.pc = "check"].pc = "check"
    BY <1>3 DEF Watchers
  <2>2. [manager[m] EXCEPT !.pc = "list"].pc = "list"
    BY <1>3 DEF Watchers
  <2>3. CASE NextCheck(m)
    <3>1. manager' = [manager EXCEPT ![m] =
                       [manager[m] EXCEPT !.todo = Tail(manager[m].todo), !.pc = "check"]]
      BY <2>3 DEF NextCheck
    <3>. QED BY <1>4, <1>5, <2>1, <3>1
  <2>4. CASE manager' = [manager EXCEPT ![m].pc = "list"]
    <3>1. manager' = [manager EXCEPT ![m] = [manager[m] EXCEPT !.pc = "list"]]
      BY <2>4
    <3>. QED BY <1>4, <1>5, <2>2, <3>1
  <2>. QED BY <1>5, <2>3, <2>4
<1>6. ASSUME NEW m \in Managers, CheckAlerts(m) PROVE AlertInv'
  <2>1. m = registered /\ alerts' = alerts
    BY <1>3, <1>6 DEF CheckAlerts, Due
  <2>2. PICK t : manager' = [manager EXCEPT ![m].todo = Round, ![m].checked = t, ![m].pc = "check"]
    BY <1>6 DEF CheckAlerts
  <2>3. /\ manager' = [manager EXCEPT ![m] =
              [manager[m] EXCEPT !.todo = Round, !.checked = t, !.pc = "check"]]
        /\ [manager[m] EXCEPT !.todo = Round, !.checked = t, !.pc = "check"].pc = "check"
    BY <1>3, <2>2 DEF Watchers
  <2>. QED BY <1>4, <2>1, <2>3
<1>7. ASSUME NEW m \in Managers, CheckCondition(m) PROVE AlertInv'
  <2>1. m = registered
    BY <1>3, <1>7 DEF CheckCondition
  <2>. QED BY <1>5, <1>7, <2>1 DEF CheckCondition
<1>8. ASSUME NEW m \in Managers, ListAlerts(m) PROVE AlertInv'
  <2>1. m = registered /\ alerts' = alerts
    BY <1>3, <1>8 DEF ListAlerts, WatchTypes
  <2>2. CASE NextCheck(m)
    BY <1>5, <2>1, <2>2
  <2>3. CASE manager' = [manager EXCEPT ![m].pc = "insert"]
    <3>1. manager' = [manager EXCEPT ![m] = [manager[m] EXCEPT !.pc = "insert"]]
      BY <2>3
    <3>2. /\ manager'[m].todo = manager[m].todo /\ manager'[m].pc = "insert"
          /\ manager'[m].pc # "check"
      BY <1>3, <3>1 DEF WatchTypes, Watchers
    <3>3. \A x \in Managers : x # m => manager'[x] = manager[x]
      BY <3>1 DEF WatchTypes
    <3>4. Unacknowledged' = Unacknowledged
      BY <2>1 DEF Unacknowledged
    <3>5. AlertsDistinct'
      BY <1>2, <2>1, <3>4 DEF AlertInv, AlertsDistinct
    <3>6. ~NextCheck(m)
      BY <1>3, <3>2 DEF NextCheck, WatchTypes, Watchers
    <3>7. ASSUME supervisionFaults' = 0, Cardinality(Nodes) + 3 <= AlertLimit,
                 NEW i \in Unacknowledged
          PROVE  alerts[i].type # Type(m)
      <4>1. ~SupervisionFault /\ supervisionFaults = 0
        BY <1>2, <3>7 DEF SupervisionFault, AlertInv
      <4>2. \A l \in Latest : alerts[l].type # Type(m)
        BY <1>8, <3>6, <4>1 DEF ListAlerts
      <4>3. Latest = Unacknowledged
        BY <3>7, <4>1, AllLatest DEF AlertInv
      <4>. QED BY <4>2, <4>3
    <3>8. Raising(m)'
      BY <1>1, <2>1, <3>2, <3>4, <3>7 DEF Raising, Type
    <3>9. ASSUME NEW x \in Managers, x # m PROVE Raising(x)'
      BY <1>1, <1>2, <2>1, <3>3, <3>4, <3>9 DEF AlertInv, Raising, Type
    <3>. QED BY <1>2, <3>5, <3>8, <3>9 DEF AlertInv
  <2>. QED BY <1>8, <2>2, <2>3 DEF ListAlerts
<1>9. ASSUME NEW m \in Managers, CreateAlert(m) PROVE AlertInv'
  <2>1. m = registered /\ NextCheck(m) /\ manager[m].pc = "insert" /\ manager[m].todo # <<>>
    BY <1>3, <1>9 DEF CreateAlert, WatchTypes
  <2>2. CASE alerts' = alerts
    BY <1>5, <2>1, <2>2
  <2>3. CASE alerts' = Append(alerts, [type |-> Type(m), acknowledged |-> FALSE])
    <3>1. PICK a : a = [type |-> Type(m), acknowledged |-> FALSE]
      OBVIOUS
    <3>2. alerts \in Seq(Alerts) /\ Len(alerts) \in Nat
      BY DEF WatchTypes
    <3>3. Type(m) \in Conditions
      BY <1>3, <2>1, HeadTailProperties DEF Type, Watchers
    <3>4. a \in Alerts /\ a.type = Type(m)
      BY <3>1, <3>3 DEF Alerts
    <3>5. /\ DOMAIN alerts' = DOMAIN alerts \union {Len(alerts) + 1}
          /\ \A i \in DOMAIN alerts : alerts'[i] = alerts[i]
          /\ alerts'[Len(alerts) + 1] = a
      BY <2>3, <3>1, <3>2, <3>4
    <3>6. Unacknowledged' \subseteq Unacknowledged \union {Len(alerts) + 1}
          /\ \A i \in Unacknowledged : i \in DOMAIN alerts
      BY <3>5 DEF Unacknowledged
    <3>7. AlertsDistinct'
      <4>. SUFFICES ASSUME supervisionFaults' = 0, Cardinality(Nodes) + 3 <= AlertLimit,
                           NEW i \in Unacknowledged', NEW j \in Unacknowledged', i # j
                    PROVE  alerts'[i].type # alerts'[j].type
        BY DEF AlertsDistinct
      <4>1. supervisionFaults = 0
        BY <1>2
      <4>2. \A k \in Unacknowledged : alerts[k].type # Type(m)
        BY <2>1, <4>1 DEF AlertInv, Raising
      <4>3. CASE i \in Unacknowledged /\ j \in Unacknowledged
        BY <3>5, <3>6, <4>1, <4>3 DEF AlertInv, AlertsDistinct
      <4>4. CASE i \in Unacknowledged /\ j = Len(alerts) + 1
        BY <3>4, <3>5, <3>6, <4>2, <4>4
      <4>5. CASE i = Len(alerts) + 1 /\ j \in Unacknowledged
        BY <3>4, <3>5, <3>6, <4>2, <4>5
      <4>. QED BY <3>6, <4>3, <4>4, <4>5
    <3>8. \A x \in Managers : Raising(x)'
      <4>1. manager'[m].pc = "check" /\ \A x \in Managers : x # m => manager'[x] = manager[x]
        BY <1>3, <2>1 DEF NextCheck, WatchTypes, Watchers
      <4>2. \A x \in Managers : x # m => manager'[x].pc # "insert"
        BY <1>3, <2>1, <4>1 DEF WatchTypes
      <4>. QED BY <1>1, <1>3, <2>1, <4>1, <4>2 DEF Raising
    <3>. QED BY <1>2, <3>7, <3>8 DEF AlertInv
  <2>. QED BY <1>9, <2>2, <2>3 DEF CreateAlert
<1>10. CASE AcknowledgeAlert
  <2>1. UNCHANGED <<alerts, manager, registered, supervisionFaults>>
    BY <1>10 DEF AcknowledgeAlert, supervisionVars
  <2>. QED BY <2>1, AlertsRest DEF AlertInv, Raising
<1>11. ASSUME NEW old \in DOMAIN alerts, DeleteOldAlerts(old) PROVE AlertInv'
  <2>1. manager' = manager /\ alerts' = SubSeq(alerts, old + 1, Len(alerts))
    BY <1>11 DEF DeleteOldAlerts
  <2>2. alerts \in Seq(Alerts) /\ Len(alerts) \in Nat /\ old \in 1 .. Len(alerts)
    BY DEF WatchTypes
  <2>3. /\ alerts' \in Seq(Alerts) /\ Len(alerts') = Len(alerts) - old
        /\ \A k \in 1 .. Len(alerts) - old : alerts'[k] = alerts[old + k]
    BY <2>1, <2>2, Remaining
  <2>. DEFINE f == [k \in 1 .. Len(alerts) |-> old + k]
  <2>4. DOMAIN alerts' = 1 .. Len(alerts) - old
    BY <2>2, <2>3
  <2>5. \A k \in 1 .. Len(alerts) - old : f[k] \in DOMAIN alerts /\ alerts'[k] = alerts[f[k]]
    BY <2>2, <2>3
  <2>6. \A k, l \in 1 .. Len(alerts) - old : f[k] = f[l] => k = l
    BY <2>2
  <2>. HIDE DEF f
  <2>7. \A k \in Unacknowledged' : /\ k \in 1 .. Len(alerts) - old /\ f[k] \in Unacknowledged
                                  /\ alerts'[k].type = alerts[f[k]].type
    BY <2>4, <2>5 DEF Unacknowledged
  <2>8. \A k, l \in Unacknowledged' : f[k] = f[l] => k = l
    BY <2>6, <2>7
  <2>. QED BY <1>1, <1>2, <1>3, <2>1, <2>7, <2>8, AlertsFewer
<1>. QED BY <1>6, <1>7, <1>8, <1>9, <1>10, <1>11 DEF AlertChecks

LEMMA AlertStep ==
    ASSUME AlertInv, WatchTypes, [PersistenceNext]_persistenceVars
    PROVE  AlertInv'
<1>1. CASE UNCHANGED supervisionVars
  <2>1. UNCHANGED <<alerts, manager, registered, supervisionFaults>>
    BY <1>1 DEF supervisionVars
  <2>. QED BY <2>1, AlertsRest DEF AlertInv, Raising
<1>. QED BY <1>1, WatchSteps, AlertsAside, AlertsChecked

\* CheckAndCreateAlerts: with no statement failing, and no more conditions
\* than the newest alerts that are looked at, two open alerts never say the same,
\* whichever requests make the manager and however often it is made anew.
THEOREM AlertsStayDistinct == Spec => []AlertsDistinct
<1>1. PersistenceInit => WatchTypes /\ AlertInv
  BY WatchTypesInit, AlertInit
<1>2. WatchTypes /\ AlertInv /\ [PersistenceNext]_persistenceVars => WatchTypes' /\ AlertInv'
  BY WatchTypesStep, AlertStep
<1>3. AlertInv => AlertsDistinct
  BY DEF AlertInv
<1>. QED BY <1>1, <1>2, <1>3, PTL DEF Spec

-----------------------------------------------------------------------------
(* The configurations and their keys: steps and types                      *)

LEMMA ConfigSteps ==
    ASSUME [PersistenceNext]_persistenceVars
    PROVE  /\ part' = part
           /\ \/ UNCHANGED configVars
              \/ ConfigTick
              \/ cleanupExpired
              \/ \E c \in Clients : Client(c)
              \/ \E u \in Administrators : Begins(u, Configs, Balancers)
              \/ \E u \in Administrators : GoesOn(u)
<1>1. CASE UNCHANGED persistenceVars
  BY <1>1 DEF persistenceVars
<1>2. CASE Logging \/ Retention \/ Conversing \/ Alerting \/ Summing
  BY <1>2 DEF Logging, Retention, Conversing, Alerting, Summing
<1>3. CASE Keyed
  <2>1. Subjects \subseteq Configs /\ InFront \subseteq Balancers
    BY ConfigStoreAssumption DEF Subjects, AConfig, InFront
  <2>2. ASSUME NEW u \in Administrators, Begins(u, Subjects, InFront)
        PROVE  Begins(u, Configs, Balancers)
    BY <2>1, <2>2 DEF Begins
  <2>. QED BY <1>3, <2>2 DEF Keyed
<1>. QED BY <1>1, <1>2, <1>3 DEF PersistenceNext

ConfigRows == [key : Keys, enabled : BOOLEAN, version : Versions]
Entries    == [found : Configs \X Versions, expires : Nat]
CallPcs    == {"create", "renew", "read", "invalidate", "delete"}
Holds      == [pc : {"idle", "get", "set", "answered"} \union CallPcs,
               op : {"", "update", "rekey", "delete"}, id : Configs \union {Absent},
               key : Keys \union {NoKey},
               found : (Configs \X Versions) \union {Absent}, since : Nat]
Calls      == {j \in Holds :
                 /\ j.pc \in {"get", "set", "read"} => j.key \in Keys
                 /\ j.pc \in {"set", "answered"} => j.found \in Configs \X Versions
                 /\ j.pc \in CallPcs => j.id \in Configs}

ConfigTypes ==
    /\ time \in Nat /\ time <= MaxTime
    /\ config \in [Configs -> ConfigRows \union {Absent}]
    /\ until \in [Configs -> [Versions -> Nat \union {Absent}]]
    /\ cache \in [Keys -> Entries \union {Absent}]
    /\ handed \in [Configs -> Keys \union {NoKey}]
    /\ made \subseteq Generated /\ dropped \subseteq Keys
    /\ job \in [Clients \union Administrators -> Calls]

LEMMA WaitingCall == Waiting \in Calls /\ Waiting.pc = "idle"
BY DEF Waiting, Calls, Holds, CallPcs

LEMMA ConfigTypesInit == ASSUME PersistenceInit PROVE ConfigTypes
<1>1. ConfigInit
  BY DEF PersistenceInit
<1>2. job \in [Clients \union Administrators -> Calls]
  BY <1>1, WaitingCall DEF ConfigInit
<1>3. time \in Nat /\ time <= MaxTime
  BY <1>1, ConfigStoreAssumption DEF ConfigInit
<1>4. until \in [Configs -> [Versions -> Nat \union {Absent}]]
  BY <1>1 DEF ConfigInit
<1>5. /\ config \in [Configs -> ConfigRows \union {Absent}]
      /\ cache \in [Keys -> Entries \union {Absent}]
      /\ handed \in [Configs -> Keys \union {NoKey}]
      /\ made \subseteq Generated /\ dropped \subseteq Keys
  BY <1>1 DEF ConfigInit
<1>. QED BY <1>2, <1>3, <1>4, <1>5 DEF ConfigTypes

LEMMA ClientTypes ==
    ASSUME ConfigTypes, NEW c \in Clients, Client(c)
    PROVE  ConfigTypes'
<1>1. UNCHANGED <<time, config, until, handed, made, dropped>>
  BY DEF Client, FindBalancer, GetCached, SelectConfig, SetCache, Answered, clientFrame
<1>2. job[c] \in Calls
  BY DEF ConfigTypes
<1>3. ASSUME NEW j \in Calls, Becomes(c, j) PROVE job' \in [Clients \union Administrators -> Calls]
  BY <1>3 DEF ConfigTypes, Becomes
<1>4. ASSUME NEW k \in Keys, FindBalancer(c, k) PROVE ConfigTypes'
  <2>1. [Waiting EXCEPT !.pc = "get", !.key = k] \in Calls
    BY WaitingCall DEF Calls, Holds, CallPcs
  <2>2. job' = job \/ Becomes(c, [Waiting EXCEPT !.pc = "get", !.key = k])
    BY <1>4 DEF FindBalancer
  <2>3. job' \in [Clients \union Administrators -> Calls]
    BY <1>3, <2>1, <2>2 DEF ConfigTypes
  <2>. QED BY <1>1, <1>4, <2>3 DEF FindBalancer, ConfigTypes
<1>5. CASE GetCached(c)
  <2>1. job[c].pc = "get" /\ cache[job[c].key] # Absent /\ cache' = cache
    BY <1>5 DEF GetCached, Fresh
  <2>2. job[c].key \in Keys
    BY <1>2, <2>1 DEF Calls
  <2>3. cache[job[c].key].found \in Configs \X Versions
    BY <2>1, <2>2 DEF ConfigTypes, Entries
  <2>4. [job[c] EXCEPT !.pc = "answered", !.since = time,
                          !.found = cache[job[c].key].found] \in Calls
    BY <1>2, <2>3 DEF Calls, Holds, CallPcs, ConfigTypes
  <2>5. job' \in [Clients \union Administrators -> Calls]
    BY <1>3, <1>5, <2>4 DEF GetCached
  <2>. QED BY <1>1, <2>1, <2>5 DEF ConfigTypes
<1>6. CASE SelectConfig(c)
  <2>1. ASSUME NEW i \in Configs, config[i] # Absent
        PROVE  [job[c] EXCEPT !.pc = "set", !.since = time, !.found = <<i, config[i].version>>] \in Calls
    <3>1. <<i, config[i].version>> \in Configs \X Versions
      BY <2>1 DEF ConfigTypes, ConfigRows
    <3>2. job[c].pc = "get" /\ time \in Nat
      BY <1>6 DEF SelectConfig, ConfigTypes
    <3>. QED BY <1>2, <3>1, <3>2 DEF Calls, Holds, CallPcs
  <2>2. \/ Becomes(c, Waiting)
        \/ \E i \in Configs : config[i] # Absent /\
             Becomes(c, [job[c] EXCEPT !.pc = "set", !.since = time, !.found = <<i, config[i].version>>])
    BY <1>6 DEF SelectConfig, Ends
  <2>3. job' \in [Clients \union Administrators -> Calls]
    BY <1>3, <2>1, <2>2, WaitingCall
  <2>. QED BY <1>1, <1>6, <2>3 DEF SelectConfig, ConfigTypes
<1>7. CASE SetCache(c)
  <2>1. PICK out \in SUBSET Cached :
          cache' = [k \in Keys |->
            IF k = job[c].key THEN [found |-> job[c].found, expires |-> time + TTL]
            ELSE IF k \in out THEN Absent ELSE cache[k]]
    BY <1>7 DEF SetCache
  <2>2. job[c].pc = "set" /\ job' = [job EXCEPT ![c] = [job[c] EXCEPT !.pc = "answered"]]
    BY <1>7 DEF SetCache, Becomes
  <2>3. [job[c] EXCEPT !.pc = "answered"] \in Calls
    BY <1>2, <2>2 DEF Calls, Holds, CallPcs
  <2>4. job' \in [Clients \union Administrators -> Calls]
    BY <2>2, <2>3 DEF ConfigTypes
  <2>5. [found |-> job[c].found, expires |-> time + TTL] \in Entries
    BY <1>2, <2>2, ConfigStoreAssumption DEF Calls, Entries, ConfigTypes
  <2>6. cache' \in [Keys -> Entries \union {Absent}]
    BY <2>1, <2>5 DEF ConfigTypes
  <2>. QED BY <1>1, <2>4, <2>6 DEF ConfigTypes
<1>8. CASE Answered(c)
  <2>1. Becomes(c, Waiting) /\ cache' = cache
    BY <1>8 DEF Answered, Ends
  <2>. QED BY <1>1, <1>3, <2>1, WaitingCall DEF ConfigTypes
<1>. QED BY <1>4, <1>5, <1>6, <1>7, <1>8 DEF Client

LEMMA ChosenKeys ==
    ASSUME NEW custom \in Keys \union {NoKey}
    PROVE  Chosen(custom) \subseteq Keys
BY DEF Chosen, Keys

LEMMA ReplacedRow ==
    ASSUME ConfigTypes, NEW i \in Configs, config[i] # Absent, NEW row \in ConfigRows,
           row.version = config[i].version, Replaces(i, row)
    PROVE  /\ config' \in [Configs -> ConfigRows \union {Absent}]
           /\ until' \in [Configs -> [Versions -> Nat \union {Absent}]]
<1>1. config[i].version \in Nat /\ config[i].version + 1 \in Versions
  BY ConfigStoreAssumption DEF Replaces, ConfigTypes, ConfigRows, Versions
<1>2. [row EXCEPT !.version = row.version + 1] \in ConfigRows
  BY <1>1 DEF ConfigRows
<1>3. config' = [config EXCEPT ![i] = [row EXCEPT !.version = row.version + 1]]
  BY DEF Replaces
<1>4. [until[i] EXCEPT ![config[i].version] = time] \in [Versions -> Nat \union {Absent}]
  BY DEF ConfigTypes
<1>5. until' = [until EXCEPT ![i] = [until[i] EXCEPT ![config[i].version] = time]]
  BY DEF Replaces
<1>. QED BY <1>2, <1>3, <1>4, <1>5 DEF ConfigTypes

LEMMA CallTypes ==
    ASSUME ConfigTypes, NEW u \in Administrators,
           Begins(u, Configs, Balancers) \/ GoesOn(u)
    PROVE  ConfigTypes'
<1>1. job[u] \in Calls
  BY DEF ConfigTypes
<1>2. ASSUME NEW j \in Calls, Becomes(u, j) PROVE job' \in [Clients \union Administrators -> Calls]
  BY <1>2 DEF ConfigTypes, Becomes
<1>3. ASSUME NEW i \in Configs, NEW custom \in ConfigTokens \union {NoKey},
             NEW op \in {"create", "renew"}, CheckToken(u, op, i, custom)
      PROVE  ConfigTypes'
  <2>1. [Waiting EXCEPT !.pc = op, !.id = i, !.key = custom] \in Calls
    BY WaitingCall DEF Calls, Holds, CallPcs, Keys
  <2>2. job' = job \/ Becomes(u, [Waiting EXCEPT !.pc = op, !.id = i, !.key = custom])
    BY <1>3 DEF CheckToken
  <2>3. job' \in [Clients \union Administrators -> Calls]
    BY <1>2, <2>1, <2>2 DEF ConfigTypes
  <2>. QED BY <1>3, <2>3 DEF CheckToken, ConfigTypes
<1>4. ASSUME NEW i \in Configs, NEW op \in {"update", "delete"}, ReadConfig(u, op, i)
      PROVE  ConfigTypes'
  <2>. DEFINE read == [Waiting EXCEPT !.pc = "read", !.op = op, !.id = i, !.key = config[i].key]
  <2>1. config[i].key \in Keys
    BY <1>4 DEF ReadConfig, ConfigTypes, ConfigRows
  <2>2. read \in Calls
    BY <2>1, WaitingCall DEF Calls, Holds, CallPcs
  <2>3. [read EXCEPT !.pc = "delete", !.key = NoKey] \in Calls
    <3>. HIDE DEF read
    <3>1. read.id = i
      BY DEF read, Waiting
    <3>. QED BY <2>2, <3>1 DEF Calls, Holds, CallPcs
  <2>4. \/ Becomes(u, read) \/ Becomes(u, [read EXCEPT !.pc = "delete", !.key = NoKey])
        \/ \E k \in BodyKeys : Becomes(u, [read EXCEPT !.op = "rekey", !.key = k])
    BY <1>4 DEF ReadConfig
  <2>5. ASSUME NEW k \in BodyKeys PROVE [read EXCEPT !.op = "rekey", !.key = k] \in Calls
    <3>. HIDE DEF read
    <3>1. read.pc = "read" /\ read.id = i
      BY DEF read, Waiting
    <3>2. k \in Keys
      BY ConfigStoreAssumption DEF Keys
    <3>. QED BY <2>2, <3>1, <3>2 DEF Calls, Holds, CallPcs
  <2>. HIDE DEF read
  <2>6. job' \in [Clients \union Administrators -> Calls]
    BY <1>2, <2>2, <2>3, <2>4, <2>5
  <2>. QED BY <1>4, <2>6 DEF ReadConfig, ConfigTypes
<1>5. ASSUME NEW b \in Balancers, NEW custom \in BalancerTokens \union {NoKey}, KeyBalancer(u, b, custom)
      PROVE  ConfigTypes'
  BY <1>5 DEF KeyBalancer, PutBalancer, ConfigTypes
<1>6. ASSUME NEW b \in Balancers, NEW enabled \in BOOLEAN,
             UpdateBalancer(u, b, enabled) \/ DeleteBalancer(u, b)
      PROVE  ConfigTypes'
  BY <1>6 DEF UpdateBalancer, DeleteBalancer, PutBalancer, ConfigTypes
<1>7. Ends(u) => job' \in [Clients \union Administrators -> Calls]
  BY <1>2, WaitingCall DEF Ends
<1>8. CASE InsertConfig(u)
  <2>1. PICK k \in Chosen(job[u].key) :
          /\ config' = [config EXCEPT ![job[u].id] = [key |-> k, enabled |-> TRUE, version |-> 1]]
          /\ handed' = [handed EXCEPT ![job[u].id] = k]
          /\ made' = made \union ({k} \intersect Generated)
    BY <1>8 DEF InsertConfig
  <2>2. k \in Keys
    BY <1>1, <2>1, ChosenKeys DEF Calls, Holds
  <2>3. [key |-> k, enabled |-> TRUE, version |-> 1] \in ConfigRows
    BY <2>2, ConfigStoreAssumption DEF ConfigRows, Versions
  <2>4. UNCHANGED <<time, until, cache, dropped>>
    BY <1>8 DEF InsertConfig
  <2>5. /\ config' \in [Configs -> ConfigRows \union {Absent}]
        /\ handed' \in [Configs -> Keys \union {NoKey}]
    BY <2>1, <2>2, <2>3 DEF ConfigTypes
  <2>. QED BY <1>7, <1>8, <2>1, <2>4, <2>5 DEF InsertConfig, ConfigTypes
<1>9. CASE RenewKey(u)
  <2>. DEFINE i == job[u].id
  <2>1. i \in Configs
    BY <1>1, <1>9 DEF RenewKey, Calls, CallPcs
  <2>2. UNCHANGED <<time, cache>> /\ Ends(u)
    BY <1>9 DEF RenewKey
  <2>3. CASE config[i] = Absent
    BY <1>7, <1>9, <2>2, <2>3 DEF RenewKey, ConfigTypes
  <2>4. CASE config[i] # Absent
    <3>1. PICK k \in Chosen(job[u].key) :
              /\ IF k = config[i].key THEN UNCHANGED <<config, until>>
                 ELSE Replaces(i, [config[i] EXCEPT !.key = k])
              /\ handed' = [handed EXCEPT ![i] = k]
              /\ made' = made \union ({k} \intersect Generated)
              /\ dropped' = dropped \union ({config[i].key} \ {k})
      BY <1>9, <2>4 DEF RenewKey
    <3>2. k \in Keys
      BY <1>1, <3>1, ChosenKeys DEF Calls, Holds
    <3>3. config[i] \in ConfigRows
      BY <2>1, <2>4 DEF ConfigTypes
    <3>4. /\ [config[i] EXCEPT !.key = k] \in ConfigRows
          /\ [config[i] EXCEPT !.key = k].version = config[i].version
          /\ config[i].key \in Keys
      BY <3>2, <3>3 DEF ConfigRows
    <3>5. /\ config' \in [Configs -> ConfigRows \union {Absent}]
          /\ until' \in [Configs -> [Versions -> Nat \union {Absent}]]
      <4>1. CASE k = config[i].key
        BY <3>1, <4>1 DEF ConfigTypes
      <4>2. CASE k # config[i].key
        BY <2>1, <2>4, <3>1, <3>4, <4>2, ReplacedRow
      <4>. QED BY <4>1, <4>2
    <3>6. handed' \in [Configs -> Keys \union {NoKey}]
      BY <2>1, <3>1, <3>2 DEF ConfigTypes
    <3>. QED BY <1>7, <2>2, <3>1, <3>4, <3>5, <3>6 DEF ConfigTypes
  <2>. QED BY <2>3, <2>4
<1>10. CASE Invalidate(u)
  <2>1. [job[u] EXCEPT !.pc = "delete"] \in Calls \/ job[u].pc # "read"
    BY <1>1 DEF Calls, Holds, CallPcs
  <2>2. job' \in [Clients \union Administrators -> Calls]
    BY <1>2, <1>7, <1>10, <2>1 DEF Invalidate
  <2>3. cache' \in [Keys -> Entries \union {Absent}]
    BY <1>10 DEF Invalidate, ConfigTypes
  <2>. QED BY <1>10, <2>2, <2>3 DEF Invalidate, ConfigTypes
<1>11. CASE DeleteRow(u)
  <2>. DEFINE i == job[u].id
  <2>1. i \in Configs
    BY <1>1, <1>11 DEF DeleteRow, Calls, CallPcs
  <2>2. /\ UNCHANGED <<time, cache, handed, made>> /\ Ends(u)
        /\ config' = [config EXCEPT ![i] = Absent]
        /\ until' = IF config[i] = Absent THEN until
                    ELSE [until EXCEPT ![i] = [until[i] EXCEPT ![config[i].version] = time]]
    BY <1>11 DEF DeleteRow
  <2>3. dropped' \subseteq Keys
    BY <1>11, <2>1 DEF DeleteRow, ConfigTypes, ConfigRows
  <2>4. [until[i] EXCEPT ![config[i].version] = time] \in [Versions -> Nat \union {Absent}]
    BY <2>1 DEF ConfigTypes
  <2>5. until' \in [Configs -> [Versions -> Nat \union {Absent}]]
    BY <2>2, <2>4 DEF ConfigTypes
  <2>. QED BY <1>7, <2>2, <2>3, <2>5 DEF ConfigTypes
<1>12. ASSUME NEW enabled \in BOOLEAN, WriteConfig(u, enabled) PROVE ConfigTypes'
  <2>. DEFINE i == job[u].id
  <2>1. i \in Configs /\ job[u].key \in Keys /\ job[u].pc = "read"
    BY <1>1, <1>12 DEF WriteConfig, Calls, CallPcs
  <2>2. /\ UNCHANGED <<time, cache, made>>
        /\ Becomes(u, [job[u] EXCEPT !.pc = "invalidate"])
        /\ IF config[i] = Absent THEN UNCHANGED <<config, until, handed, dropped>>
           ELSE /\ Replaces(i, [config[i] EXCEPT !.key = job[u].key, !.enabled = enabled])
                /\ handed' = handed \/ handed' = [handed EXCEPT ![i] = job[u].key]
                /\ dropped' = dropped \union ({config[i].key} \ {job[u].key})
    BY <1>12 DEF WriteConfig
  <2>3. [job[u] EXCEPT !.pc = "invalidate"] \in Calls
    BY <1>1, <2>1 DEF Calls, Holds, CallPcs
  <2>4. job' \in [Clients \union Administrators -> Calls]
    BY <1>2, <2>2, <2>3
  <2>5. /\ config' \in [Configs -> ConfigRows \union {Absent}]
        /\ until' \in [Configs -> [Versions -> Nat \union {Absent}]]
    <3>1. CASE config[i] = Absent
      BY <2>2, <3>1 DEF ConfigTypes
    <3>2. CASE config[i] # Absent
      <4>1. config[i] \in ConfigRows
        BY <2>1, <3>2 DEF ConfigTypes
      <4>2. /\ [config[i] EXCEPT !.key = job[u].key, !.enabled = enabled] \in ConfigRows
            /\ [config[i] EXCEPT !.key = job[u].key, !.enabled = enabled].version = config[i].version
        BY <2>1, <4>1 DEF ConfigRows
      <4>. QED BY <2>1, <2>2, <3>2, <4>2, ReplacedRow
    <3>. QED BY <3>1, <3>2
  <2>6. handed' \in [Configs -> Keys \union {NoKey}] /\ dropped' \subseteq Keys
    <3>1. CASE config[i] = Absent
      BY <2>2, <3>1 DEF ConfigTypes
    <3>2. CASE config[i] # Absent
      <4>1. config[i].key \in Keys
        BY <2>1, <3>2 DEF ConfigTypes, ConfigRows
      <4>2. dropped' \subseteq Keys
        BY <2>2, <3>2, <4>1 DEF ConfigTypes
      <4>3. CASE handed' = handed
        BY <4>2, <4>3 DEF ConfigTypes
      <4>4. CASE handed' = [handed EXCEPT ![i] = job[u].key]
        BY <2>1, <4>2, <4>4 DEF ConfigTypes
      <4>. QED BY <2>2, <3>2, <4>3, <4>4
    <3>. QED BY <3>1, <3>2
  <2>. QED BY <2>2, <2>4, <2>5, <2>6 DEF ConfigTypes
<1>13. CASE ConfigStatementFails(u)
  BY <1>7, <1>13 DEF ConfigStatementFails, ConfigTypes
<1>. QED BY <1>3, <1>4, <1>5, <1>6, <1>8, <1>9, <1>10, <1>11, <1>12, <1>13 DEF Begins, GoesOn

LEMMA ConfigTypesStep ==
    ASSUME ConfigTypes, [PersistenceNext]_persistenceVars
    PROVE  ConfigTypes'
<1>1. CASE UNCHANGED configVars
  BY <1>1 DEF configVars, ConfigTypes
<1>2. CASE ConfigTick
  BY <1>2, ConfigStoreAssumption DEF ConfigTick, ConfigTypes
<1>3. CASE cleanupExpired
  BY <1>3 DEF cleanupExpired, clientFrame, ConfigTypes
<1>. QED BY <1>1, <1>2, <1>3, ConfigSteps, ClientTypes, CallTypes

\* Version v of configuration i is the row, or was until t at least.
Recent(i, v, t) ==
    \/ config[i] # Absent /\ config[i].version = v
    \/ until[i][v] \in Nat /\ t <= until[i][v]

Found(found, t) ==
    \E i \in Configs, v \in Versions :
       found = <<i, v>> /\ handed[i] # NoKey /\ Recent(i, v, t)

\* A cached configuration was current when it was selected.
CacheEntry(e) == e.expires <= time + TTL /\ Found(e.found, e.expires - TTL - Lag)

ClientCall(j) ==
    /\ j.pc = "set" => /\ j.since <= time /\ time <= j.since + Lag
                       /\ Found(j.found, j.since)
    /\ j.pc = "answered" => j.since <= time /\ Found(j.found, j.since - (TTL + Lag))

\* An id is given to one configuration, once.
OnceCreated ==
    /\ \A i \in Configs : handed[i] = NoKey => config[i] = Absent
    /\ \A u \in Administrators : job[u].pc = "create" =>
         /\ handed[job[u].id] = NoKey
         /\ \A o \in Administrators : o # u /\ job[o].pc = "create" => job[o].id # job[u].id

ServeInv ==
    /\ \A k \in Keys, e \in Entries : cache[k] = e /\ e # Absent => CacheEntry(e)
    /\ \A c \in Clients, j \in Calls : job[c] = j => ClientCall(j)
    /\ OnceCreated

LEMMA ServeKeeps == ASSUME ConfigTypes, ServeInv PROVE ServedIsRecent
<1>. SUFFICES ASSUME NEW c \in Clients, job[c].pc = "answered"
              PROVE  Within(job[c].found, job[c].since, TTL + Lag)
  BY DEF ServedIsRecent
<1>1. PICK j \in Calls : job[c] = j
  BY DEF ConfigTypes
<1>2. PICK i \in Configs, v \in Versions :
        j.found = <<i, v>> /\ handed[i] # NoKey /\ Recent(i, v, j.since - (TTL + Lag))
  BY <1>1 DEF ServeInv, ClientCall, Found
<1>3. j.since \in Nat
  BY DEF Calls, Holds
<1>. QED BY <1>1, <1>2, <1>3, ConfigStoreAssumption DEF Recent, Within

LEMMA ServeInit == ASSUME PersistenceInit PROVE ServeInv
<1>1. ConfigInit
  BY DEF PersistenceInit
<1>. QED BY <1>1, WaitingCall DEF ConfigInit, ServeInv, ClientCall, OnceCreated

\* What administrators do to a row that was handed out.
RowEnds(i) ==
    \/ config[i] # Absent /\ config'[i] # Absent /\ config'[i].version = config[i].version
         /\ until'[i] = until[i]
    \/ config[i] = Absent /\ config'[i] = Absent /\ until'[i] = until[i]
    \/ config[i] # Absent /\ until'[i] = [until[i] EXCEPT ![config[i].version] = time]

LEMMA RecentStays ==
    ASSUME ConfigTypes, NEW i \in Configs, NEW v \in Versions, NEW t \in Int, t <= time,
           Recent(i, v, t), RowEnds(i)
    PROVE  Recent(i, v, t)'
<1>1. until[i] \in [Versions -> Nat \union {Absent}] /\ time \in Nat
  BY DEF ConfigTypes
<1>. QED BY <1>1 DEF Recent, RowEnds

LEMMA FoundStays ==
    ASSUME ConfigTypes, NEW found, NEW t \in Int, t <= time, Found(found, t),
           \A i \in Configs : handed[i] # NoKey => handed'[i] # NoKey /\ RowEnds(i)
    PROVE  Found(found, t)'
BY RecentStays DEF Found

LEMMA EntryStays ==
    ASSUME ConfigTypes, NEW e \in Entries, CacheEntry(e), time' \in Nat, time <= time',
           \A i \in Configs : handed[i] # NoKey => handed'[i] # NoKey /\ RowEnds(i)
    PROVE  CacheEntry(e)'
<1>1. PICK x \in Nat, t \in Nat : e.expires = x /\ time' = t
  BY DEF Entries
<1>2. x - TTL - Lag \in Int /\ x - TTL - Lag <= time /\ x <= t + TTL
  BY <1>1, ConfigStoreAssumption DEF CacheEntry, ConfigTypes
<1>3. Found(e.found, x - TTL - Lag)'
  BY <1>1, <1>2, FoundStays DEF CacheEntry
<1>. QED BY <1>1, <1>2, <1>3 DEF CacheEntry

LEMMA ClientStays ==
    ASSUME ConfigTypes, NEW j \in Calls, ClientCall(j), time' = time,
           \A i \in Configs : handed[i] # NoKey => handed'[i] # NoKey /\ RowEnds(i)
    PROVE  ClientCall(j)'
<1>1. j.since \in Nat
  BY DEF Calls, Holds
<1>2. CASE j.pc = "set"
  BY <1>1, <1>2, FoundStays DEF ClientCall
<1>3. CASE j.pc = "answered"
  <2>1. j.since - (TTL + Lag) \in Int /\ j.since - (TTL + Lag) <= time
    BY <1>1, <1>3, ConfigStoreAssumption DEF ClientCall, ConfigTypes
  <2>. QED BY <1>3, <2>1, FoundStays DEF ClientCall
<1>. QED BY <1>2, <1>3 DEF ClientCall

LEMMA RowsRest ==
    ASSUME UNCHANGED <<config, until, handed>>
    PROVE  /\ \A i \in Configs : handed[i] # NoKey => handed'[i] # NoKey /\ RowEnds(i)
           /\ \A found, t : Found(found, t) => Found(found, t)'
BY DEF RowEnds, Found, Recent

LEMMA ServeTick ==
    ASSUME ConfigTypes, ServeInv, ConfigTick
    PROVE  ServeInv'
<1>1. /\ UNCHANGED <<config, until, handed, cache, job>> /\ time' = time + 1 /\ time \in Nat
      /\ \A c \in Clients : job[c].pc = "set" => time < job[c].since + Lag
  BY DEF ConfigTick, ConfigTypes
<1>2. \A k \in Keys, e \in Entries : cache[k] = e /\ e # Absent => CacheEntry(e)'
  BY <1>1, RowsRest, EntryStays DEF ServeInv
<1>3. ASSUME NEW c \in Clients, NEW j \in Calls, job[c] = j PROVE ClientCall(j)'
  <2>1. PICK s \in Nat, t \in Nat : s = j.since /\ t = time'
    <3>1. j.since \in Nat
      BY DEF Calls, Holds
    <3>2. time' \in Nat
      BY <1>1
    <3>. QED BY <3>1, <3>2
  <2>2. j.pc = "set" => s <= t /\ t <= s + Lag
    BY <1>1, <1>3, <2>1, ConfigStoreAssumption DEF ServeInv, ClientCall
  <2>3. j.pc = "answered" => s <= t
    BY <1>1, <1>3, <2>1 DEF ServeInv, ClientCall
  <2>4. ClientCall(j)
    BY <1>3 DEF ServeInv
  <2>. QED BY <1>1, <2>1, <2>2, <2>3, <2>4, RowsRest DEF ClientCall
<1>. QED BY <1>1, <1>2, <1>3 DEF ServeInv, OnceCreated

LEMMA ServeClient ==
    ASSUME ConfigTypes, ServeInv,
           cleanupExpired \/ \E c \in Clients : Client(c)
    PROVE  ServeInv'
<1>1. UNCHANGED <<config, until, handed, time>> /\ time \in Nat
  BY DEF cleanupExpired, Client, FindBalancer, GetCached, SelectConfig, SetCache, Answered,
         clientFrame, ConfigTypes
<1>2. ASSUME OnceCreated' PROVE
        /\ \A k \in Keys : cache'[k] = cache[k] \/ cache'[k] = Absent
             \/ \A e \in Entries : cache'[k] = e => CacheEntry(e)
        => (/\ \A c \in Clients : job'[c] = job[c] \/ \A j \in Calls : job'[c] = j => ClientCall(j)
            => ServeInv')
  <2>1. \A e \in Entries : CacheEntry(e) => CacheEntry(e)'
    BY <1>1, RowsRest, EntryStays
  <2>2. \A j \in Calls : ClientCall(j) => ClientCall(j)'
    BY <1>1, RowsRest, ClientStays
  <2>. QED BY <1>2, <2>1, <2>2 DEF ServeInv
<1>3. CASE cleanupExpired
  <2>1. OnceCreated'
    BY <1>1, <1>3 DEF cleanupExpired, ServeInv, OnceCreated
  <2>. QED BY <1>2, <1>3, <2>1 DEF cleanupExpired
<1>4. ASSUME NEW c \in Clients, Client(c) PROVE ServeInv'
  <2>1. job[c] \in Calls /\ \A u \in Administrators : u # c
    BY ConfigStoreAssumption DEF ConfigTypes
  <2>2. ASSUME NEW j, Becomes(c, j)
        PROVE  /\ OnceCreated' /\ job'[c] = j
               /\ \A o \in Clients : o # c => job'[o] = job[o]
    <3>1. \A u \in Clients \union Administrators : u # c => job'[u] = job[u]
      BY <2>2 DEF Becomes, ConfigTypes
    <3>2. OnceCreated'
      BY <1>1, <2>1, <3>1 DEF ServeInv, OnceCreated
    <3>. QED BY <2>2, <3>1, <3>2 DEF Becomes, ConfigTypes
  <2>3. ASSUME Becomes(c, Waiting) PROVE
          /\ OnceCreated'
          /\ \A o \in Clients : job'[o] = job[o] \/ \A j \in Calls : job'[o] = j => ClientCall(j)
    BY <2>2, <2>3, WaitingCall DEF ClientCall
  <2>4. ASSUME NEW k \in Keys, FindBalancer(c, k) PROVE ServeInv'
    <3>1. cache' = cache
      BY <2>4 DEF FindBalancer
    <3>2. CASE job' = job
      <4>1. OnceCreated'
        BY <1>1, <3>2 DEF ServeInv, OnceCreated
      <4>. QED BY <1>2, <3>1, <3>2, <4>1
    <3>3. CASE Becomes(c, [Waiting EXCEPT !.pc = "get", !.key = k])
      <4>1. [Waiting EXCEPT !.pc = "get", !.key = k].pc = "get"
        BY DEF Waiting
      <4>2. job'[c].pc = "get" /\ OnceCreated'
        BY <2>2, <3>3, <4>1
      <4>3. \A j \in Calls : job'[c] = j => ClientCall(j)
        BY <4>2 DEF ClientCall
      <4>. QED BY <1>2, <2>2, <3>1, <3>3, <4>2, <4>3
    <3>. QED BY <2>4, <3>2, <3>3 DEF FindBalancer
  <2>5. CASE GetCached(c)
    <3>. DEFINE k == job[c].key
                r == [job[c] EXCEPT !.pc = "answered", !.since = time, !.found = cache[k].found]
    <3>1. /\ job[c].pc = "get" /\ cache[k] # Absent /\ time <= cache[k].expires
          /\ cache' = cache /\ Becomes(c, r)
      BY <2>5 DEF GetCached, Fresh
    <3>2. k \in Keys
      BY <2>1, <3>1 DEF Calls
    <3>3. PICK e \in Entries : cache[k] = e
      BY <3>1, <3>2 DEF ConfigTypes
    <3>4. CacheEntry(e)
      BY <3>1, <3>2, <3>3 DEF ServeInv
    <3>5. PICK x \in Nat : e.expires = x
      BY DEF Entries
    <3>6. PICK i \in Configs, v \in Versions :
             e.found = <<i, v>> /\ handed[i] # NoKey /\ Recent(i, v, x - TTL - Lag)
      BY <3>4, <3>5 DEF CacheEntry, Found
    <3>7. Recent(i, v, time - (TTL + Lag))
      <4>1. time <= x
        BY <3>1, <3>3, <3>5
      <4>2. ASSUME NEW t \in Nat, x - TTL - Lag <= t PROVE time - (TTL + Lag) <= t
        BY <1>1, <4>1, <4>2, ConfigStoreAssumption
      <4>. QED BY <3>6, <4>2 DEF Recent
    <3>8. /\ r.pc = "answered" /\ r.since = time /\ r.found = <<i, v>>
      BY <2>1, <3>3, <3>6 DEF Calls, Holds
    <3>. HIDE DEF r
    <3>9. ClientCall(r)
      BY <1>1, <3>6, <3>7, <3>8 DEF ClientCall, Found
    <3>. QED BY <1>2, <2>2, <3>1, <3>9
  <2>6. CASE SelectConfig(c)
    <3>1. cache' = cache
      BY <2>6 DEF SelectConfig
    <3>2. CASE Becomes(c, Waiting)
      BY <1>2, <2>3, <3>1, <3>2
    <3>3. ASSUME NEW i \in Configs, config[i] # Absent,
                 Becomes(c, [job[c] EXCEPT !.pc = "set", !.since = time, !.found = <<i, config[i].version>>])
          PROVE  ServeInv'
      <4>. DEFINE r == [job[c] EXCEPT !.pc = "set", !.since = time, !.found = <<i, config[i].version>>]
      <4>1. /\ r.pc = "set" /\ r.since = time /\ r.found = <<i, config[i].version>>
        BY <2>1 DEF Calls, Holds
      <4>2. config[i].version \in Versions /\ handed[i] # NoKey
        BY <3>3 DEF ConfigTypes, ConfigRows, ServeInv, OnceCreated
      <4>. HIDE DEF r
      <4>3. Found(r.found, r.since)
        BY <3>3, <4>1, <4>2 DEF Found, Recent
      <4>4. ClientCall(r)
        BY <1>1, <4>1, <4>3, ConfigStoreAssumption DEF ClientCall
      <4>5. Becomes(c, r)
        BY <3>3 DEF r
      <4>. QED BY <1>2, <2>2, <3>1, <4>4, <4>5
    <3>. QED BY <2>6, <3>2, <3>3 DEF SelectConfig, Ends
  <2>7. CASE SetCache(c)
    <3>1. PICK out \in SUBSET Cached :
            cache' = [k \in Keys |->
              IF k = job[c].key THEN [found |-> job[c].found, expires |-> time + TTL]
              ELSE IF k \in out THEN Absent ELSE cache[k]]
      BY <2>7 DEF SetCache
    <3>2. job[c].pc = "set" /\ Becomes(c, [job[c] EXCEPT !.pc = "answered"])
      BY <2>7 DEF SetCache
    <3>3. ClientCall(job[c])
      BY <2>1 DEF ServeInv
    <3>4. PICK s \in Nat : s = job[c].since
      BY <2>1 DEF Calls, Holds
    <3>5. PICK i \in Configs, v \in Versions :
             job[c].found = <<i, v>> /\ handed[i] # NoKey /\ Recent(i, v, s)
      BY <3>2, <3>3, <3>4 DEF ClientCall, Found
    <3>6. s <= time /\ time <= s + Lag
      BY <3>2, <3>3, <3>4 DEF ClientCall
    <3>7. PICK e \in Entries : e = [found |-> job[c].found, expires |-> time + TTL]
                  /\ e.found = <<i, v>> /\ e.expires = time + TTL
      <4>. DEFINE f == [found |-> job[c].found, expires |-> time + TTL]
      <4>1. f \in Entries
        BY <1>1, <3>5, ConfigStoreAssumption DEF Entries
      <4>2. f.found = <<i, v>> /\ f.expires = time + TTL
        BY <3>5
      <4>. QED BY <4>1, <4>2
    <3>8. CacheEntry(e)
      <4>1. PICK t \in Int : t = e.expires - TTL - Lag
        BY <1>1, <3>7, ConfigStoreAssumption
      <4>2. t <= s
        BY <1>1, <3>6, <3>7, <4>1, ConfigStoreAssumption
      <4>3. Recent(i, v, t)
        BY <3>5, <4>2 DEF Recent
      <4>4. e.expires <= time + TTL
        BY <1>1, <3>7, ConfigStoreAssumption
      <4>. QED BY <3>5, <3>7, <4>1, <4>3, <4>4 DEF CacheEntry, Found
    <3>9. \A k \in Keys : cache'[k] = cache[k] \/ cache'[k] = Absent \/ cache'[k] = e
      BY <3>1, <3>7
    <3>. DEFINE r == [job[c] EXCEPT !.pc = "answered"]
    <3>10. r.pc = "answered" /\ r.since = s /\ r.found = <<i, v>>
      BY <2>1, <3>4, <3>5 DEF Calls, Holds
    <3>. HIDE DEF r
    <3>11. ClientCall(r)
      <4>1. PICK t \in Int : t = s - (TTL + Lag)
        BY ConfigStoreAssumption
      <4>2. t <= s
        BY <4>1, ConfigStoreAssumption
      <4>3. Recent(i, v, t)
        BY <3>5, <4>2 DEF Recent
      <4>. QED BY <3>5, <3>6, <3>10, <4>1, <4>3 DEF ClientCall, Found
    <3>12. Becomes(c, r)
      BY <3>2 DEF r
    <3>. QED BY <1>2, <2>2, <3>8, <3>9, <3>11, <3>12
  <2>8. CASE Answered(c)
    BY <1>2, <2>3, <2>8 DEF Answered, Ends
  <2>. QED BY <1>4, <2>4, <2>5, <2>6, <2>7, <2>8 DEF Client
<1>. QED BY <1>3, <1>4

LEMMA ReplacedEnds ==
    ASSUME ConfigTypes, NEW i \in Configs, config[i] # Absent, NEW row, Replaces(i, row)
    PROVE  \A x \in Configs : RowEnds(x) /\ (x # i => config'[x] = config[x])
<1>1. ASSUME NEW x \in Configs, x # i PROVE RowEnds(x) /\ config'[x] = config[x]
  BY <1>1 DEF Replaces, ConfigTypes, RowEnds
<1>2. RowEnds(i)
  BY DEF Replaces, ConfigTypes, RowEnds
<1>. QED BY <1>1, <1>2

LEMMA ServeCall ==
    ASSUME ConfigTypes, ServeInv, NEW u \in Administrators,
           Begins(u, Configs, Balancers) \/ GoesOn(u)
    PROVE  ServeInv'
<1>1. job[u] \in Calls /\ \A c \in Clients : c # u
  BY ConfigStoreAssumption DEF ConfigTypes
<1>2. ASSUME time' = time, \A o \in Clients \union Administrators : o # u => job'[o] = job[o],
             \A k \in Keys : cache'[k] = cache[k] \/ cache'[k] = Absent,
             \A i \in Configs : handed[i] # NoKey => handed'[i] # NoKey /\ RowEnds(i),
             OnceCreated'
      PROVE  ServeInv'
  <2>1. time' \in Nat /\ time <= time'
    BY <1>2 DEF ConfigTypes
  <2>2. \A e \in Entries : CacheEntry(e) => CacheEntry(e)'
    BY <1>2, <2>1, EntryStays
  <2>3. \A j \in Calls : ClientCall(j) => ClientCall(j)'
    BY <1>2, ClientStays
  <2>. QED BY <1>1, <1>2, <2>2, <2>3 DEF ServeInv
<1>3. ASSUME NEW j, Becomes(u, j)
      PROVE  job'[u] = j /\ \A o \in Clients \union Administrators : o # u => job'[o] = job[o]
  BY <1>3 DEF Becomes, ConfigTypes
<1>4. ASSUME Ends(u), UNCHANGED <<config, handed>> PROVE OnceCreated'
  <2>1. job'[u].pc = "idle" /\ \A o \in Administrators : o # u => job'[o] = job[o]
    BY <1>3, <1>4, WaitingCall DEF Ends
  <2>. QED BY <1>4, <2>1 DEF OnceCreated, ServeInv
<1>5. ASSUME Becomes(u, job'[u]), job'[u].pc # "create", UNCHANGED <<config, handed>> PROVE OnceCreated'
  <2>1. \A o \in Administrators : o # u => job'[o] = job[o]
    BY <1>3, <1>5
  <2>. QED BY <1>5, <2>1 DEF OnceCreated, ServeInv
<1>6. ASSUME NEW i \in Configs, NEW custom \in ConfigTokens \union {NoKey},
             NEW op \in {"create", "renew"}, CheckToken(u, op, i, custom)
      PROVE  ServeInv'
  <2>1. UNCHANGED <<time, config, until, cache, handed>>
    BY <1>6 DEF CheckToken
  <2>2. CASE job' = job
    <3>1. OnceCreated'
      BY <2>1, <2>2 DEF OnceCreated, ServeInv
    <3>. QED BY <1>2, <2>1, <2>2, <3>1, RowsRest
  <2>3. CASE Becomes(u, [Waiting EXCEPT !.pc = op, !.id = i, !.key = custom])
    <3>. DEFINE r == [Waiting EXCEPT !.pc = op, !.id = i, !.key = custom]
    <3>0. r.pc = op /\ r.id = i
      BY DEF Waiting
    <3>. HIDE DEF r
    <3>1. job'[u].pc = op /\ job'[u].id = i
      BY <1>3, <2>3, <3>0 DEF r
    <3>2. \A o \in Clients \union Administrators : o # u => job'[o] = job[o]
      BY <1>3, <2>3
    <3>3. op = "create" => /\ handed[i] = NoKey
                           /\ \A o \in Administrators : job[o].pc = "create" => job[o].id # i
      BY <1>6 DEF CheckToken
    <3>4. OnceCreated'
      BY <2>1, <3>1, <3>2, <3>3 DEF OnceCreated, ServeInv
    <3>. QED BY <1>2, <2>1, <3>2, <3>4, RowsRest
  <2>. QED BY <1>6, <2>2, <2>3 DEF CheckToken
<1>7. ASSUME NEW i \in Configs, NEW op \in {"update", "delete"}, ReadConfig(u, op, i)
      PROVE  ServeInv'
  <2>1. UNCHANGED <<time, config, until, cache, handed>>
    BY <1>7 DEF ReadConfig
  <2>2. PICK j : Becomes(u, j) /\ j.pc # "create"
    <3>. DEFINE read == [Waiting EXCEPT !.pc = "read", !.op = op, !.id = i, !.key = config[i].key]
    <3>1. /\ read.pc = "read" /\ [read EXCEPT !.pc = "delete", !.key = NoKey].pc = "delete"
          /\ \A k : [read EXCEPT !.op = "rekey", !.key = k].pc = "read"
      BY DEF Waiting
    <3>2. \/ Becomes(u, read) \/ Becomes(u, [read EXCEPT !.pc = "delete", !.key = NoKey])
          \/ \E k \in BodyKeys : Becomes(u, [read EXCEPT !.op = "rekey", !.key = k])
      BY <1>7 DEF ReadConfig
    <3>. HIDE DEF read
    <3>. QED BY <3>1, <3>2
  <2>3. OnceCreated'
    BY <1>3, <1>5, <2>1, <2>2
  <2>. QED BY <1>2, <1>3, <2>1, <2>2, <2>3, RowsRest
<1>8. ASSUME NEW b \in Balancers,
             \/ \E custom \in BalancerTokens \union {NoKey} : KeyBalancer(u, b, custom)
             \/ \E enabled \in BOOLEAN : UpdateBalancer(u, b, enabled)
             \/ DeleteBalancer(u, b)
      PROVE  ServeInv'
  <2>1. UNCHANGED <<time, config, until, cache, handed, job>>
    BY <1>8 DEF KeyBalancer, UpdateBalancer, DeleteBalancer, PutBalancer
  <2>2. OnceCreated'
    BY <2>1 DEF OnceCreated, ServeInv
  <2>. QED BY <1>2, <2>1, <2>2, RowsRest
<1>9. CASE InsertConfig(u)
  <2>. DEFINE i == job[u].id
  <2>1. PICK k \in Chosen(job[u].key) :
          /\ config' = [config EXCEPT ![i] = [key |-> k, enabled |-> TRUE, version |-> 1]]
          /\ handed' = [handed EXCEPT ![i] = k]
    BY <1>9 DEF InsertConfig
  <2>2. UNCHANGED <<time, until, cache>> /\ Ends(u) /\ job[u].pc = "create"
    BY <1>9 DEF InsertConfig
  <2>3. k \in Keys /\ k # NoKey
    BY <1>1, <2>1, ChosenKeys, ConfigStoreAssumption DEF Calls, Holds, Keys
  <2>4. i \in Configs /\ handed[i] = NoKey
    BY <1>1, <2>2 DEF Calls, CallPcs, ServeInv, OnceCreated
  <2>5. \A x \in Configs : x # i => config'[x] = config[x] /\ handed'[x] = handed[x]
    BY <2>1 DEF ConfigTypes
  <2>6. handed'[i] # NoKey
    BY <2>1, <2>3, <2>4 DEF ConfigTypes
  <2>7. \A x \in Configs : handed[x] # NoKey => handed'[x] # NoKey /\ RowEnds(x)
    BY <2>2, <2>4, <2>5 DEF RowEnds
  <2>8. job'[u].pc = "idle" /\ \A o \in Clients \union Administrators : o # u => job'[o] = job[o]
    BY <1>3, <2>2, WaitingCall DEF Ends
  <2>9. OnceCreated'
    <3>1. \A x \in Configs : handed'[x] = NoKey => config'[x] = Absent
      BY <2>5, <2>6 DEF ServeInv, OnceCreated
    <3>2. ASSUME NEW o \in Administrators, job'[o].pc = "create"
          PROVE  /\ handed'[job'[o].id] = NoKey
                 /\ \A v \in Administrators : v # o /\ job'[v].pc = "create" => job'[v].id # job'[o].id
      <4>1. o # u /\ job'[o] = job[o]
        BY <2>8, <3>2
      <4>2. job[o].id \in Configs
        BY <3>2, <4>1 DEF ConfigTypes, Calls, CallPcs
      <4>3. handed[job[o].id] = NoKey /\ job[o].id # i
        BY <2>2, <3>2, <4>1 DEF ServeInv, OnceCreated
      <4>4. \A v \in Administrators : v # o /\ job'[v].pc = "create" => job'[v].id # job'[o].id
        BY <2>8, <3>2, <4>1 DEF ServeInv, OnceCreated
      <4>. QED BY <2>5, <4>1, <4>2, <4>3, <4>4
    <3>. QED BY <3>1, <3>2 DEF OnceCreated
  <2>. QED BY <1>2, <2>2, <2>7, <2>8, <2>9
<1>10. ASSUME NEW i \in Configs, config[i] # Absent, NEW row,
              \/ UNCHANGED <<config, until>>
              \/ Replaces(i, row),
              \/ UNCHANGED handed
              \/ \E k \in Keys : handed' = [handed EXCEPT ![i] = k],
              UNCHANGED <<time, cache>>, Becomes(u, job'[u]), job'[u].pc # "create"
       PROVE  ServeInv'
  <2>1. \A x \in Configs : RowEnds(x) /\ (x # i => config'[x] = config[x])
    BY <1>10, ReplacedEnds DEF RowEnds
  <2>2. handed[i] # NoKey /\ NoKey \notin Keys
    BY <1>10, ConfigStoreAssumption DEF ServeInv, OnceCreated, Keys
  <2>3. handed'[i] # NoKey /\ \A x \in Configs : x # i => handed'[x] = handed[x]
    BY <1>10, <2>2 DEF ConfigTypes
  <2>4. \A o \in Clients \union Administrators : o # u => job'[o] = job[o]
    BY <1>3, <1>10
  <2>5. OnceCreated'
    <3>1. \A x \in Configs : handed'[x] = NoKey => config'[x] = Absent
      BY <2>1, <2>3 DEF ServeInv, OnceCreated
    <3>2. ASSUME NEW o \in Administrators, job'[o].pc = "create"
          PROVE  /\ handed'[job'[o].id] = NoKey
                 /\ \A v \in Administrators : v # o /\ job'[v].pc = "create" => job'[v].id # job'[o].id
      <4>1. o # u /\ job'[o] = job[o]
        BY <1>10, <2>4, <3>2
      <4>2. job[o].id \in Configs
        BY <3>2, <4>1 DEF ConfigTypes, Calls, CallPcs
      <4>3. handed[job[o].id] = NoKey /\ job[o].id # i
        BY <2>2, <3>2, <4>1 DEF ServeInv, OnceCreated
      <4>4. \A v \in Administrators : v # o /\ job'[v].pc = "create" => job'[v].id # job'[o].id
        BY <1>10, <2>4, <3>2, <4>1 DEF ServeInv, OnceCreated
      <4>. QED BY <2>3, <4>1, <4>2, <4>3, <4>4
    <3>. QED BY <3>1, <3>2 DEF OnceCreated
  <2>. QED BY <1>2, <1>10, <2>1, <2>3, <2>4, <2>5
<1>11. CASE RenewKey(u)
  <2>. DEFINE i == job[u].id
  <2>1. i \in Configs /\ UNCHANGED <<time, cache>> /\ Ends(u)
    BY <1>1, <1>11 DEF RenewKey, Calls, CallPcs
  <2>2. CASE config[i] = Absent
    <3>1. UNCHANGED <<config, until, handed>>
      BY <1>11, <2>2 DEF RenewKey
    <3>. QED BY <1>2, <1>3, <1>4, <2>1, <3>1, RowsRest DEF Ends
  <2>3. CASE config[i] # Absent
    <3>1. PICK k \in Chosen(job[u].key) :
              /\ IF k = config[i].key THEN UNCHANGED <<config, until>>
                 ELSE Replaces(i, [config[i] EXCEPT !.key = k])
              /\ handed' = [handed EXCEPT ![i] = k]
      BY <1>11, <2>3 DEF RenewKey
    <3>2. k \in Keys
      BY <1>1, <3>1, ChosenKeys DEF Calls, Holds
    <3>3. Becomes(u, job'[u]) /\ job'[u].pc # "create"
      BY <1>3, <2>1, WaitingCall DEF Ends
    <3>. QED BY <1>10, <2>1, <2>3, <3>1, <3>2, <3>3
  <2>. QED BY <2>2, <2>3
<1>12. CASE Invalidate(u)
  <2>1. UNCHANGED <<time, config, until, handed>>
        /\ \A k \in Keys : cache'[k] = cache[k] \/ cache'[k] = Absent
    BY <1>12 DEF Invalidate, ConfigTypes
  <2>2. Becomes(u, job'[u]) /\ job'[u].pc # "create"
    <3>1. [job[u] EXCEPT !.pc = "delete"].pc = "delete"
      BY <1>1 DEF Calls, Holds
    <3>2. Becomes(u, Waiting) \/ Becomes(u, [job[u] EXCEPT !.pc = "delete"])
      BY <1>12 DEF Invalidate, Ends
    <3>. QED BY <1>3, <3>1, <3>2, WaitingCall
  <2>. QED BY <1>2, <1>3, <1>5, <2>1, <2>2, RowsRest
<1>13. CASE DeleteRow(u)
  <2>. DEFINE i == job[u].id
  <2>1. i \in Configs
    BY <1>1, <1>13 DEF DeleteRow, Calls, CallPcs
  <2>2. /\ UNCHANGED <<time, cache, handed>> /\ Ends(u)
        /\ config' = [config EXCEPT ![i] = Absent]
        /\ until' = IF config[i] = Absent THEN until
                    ELSE [until EXCEPT ![i] = [until[i] EXCEPT ![config[i].version] = time]]
    BY <1>13 DEF DeleteRow
  <2>3. \A x \in Configs : RowEnds(x) /\ (config[x] = Absent => config'[x] = Absent)
    BY <2>1, <2>2 DEF RowEnds, ConfigTypes
  <2>4. job'[u].pc = "idle" /\ \A o \in Clients \union Administrators : o # u => job'[o] = job[o]
    BY <1>3, <2>2, WaitingCall DEF Ends
  <2>5. OnceCreated'
    BY <2>2, <2>3, <2>4 DEF ServeInv, OnceCreated
  <2>. QED BY <1>2, <2>2, <2>3, <2>4, <2>5
<1>14. ASSUME NEW enabled \in BOOLEAN, WriteConfig(u, enabled) PROVE ServeInv'
  <2>. DEFINE i == job[u].id
  <2>1. i \in Configs /\ job[u].pc = "read" /\ job[u].key \in Keys
    BY <1>1, <1>14 DEF WriteConfig, Calls, CallPcs
  <2>2. /\ UNCHANGED <<time, cache>>
        /\ Becomes(u, [job[u] EXCEPT !.pc = "invalidate"])
        /\ IF config[i] = Absent THEN UNCHANGED <<config, until, handed>>
           ELSE /\ Replaces(i, [config[i] EXCEPT !.key = job[u].key, !.enabled = enabled])
                /\ handed' = handed \/ handed' = [handed EXCEPT ![i] = job[u].key]
    BY <1>14 DEF WriteConfig
  <2>3. Becomes(u, job'[u]) /\ job'[u].pc # "create"
    <3>1. [job[u] EXCEPT !.pc = "invalidate"].pc = "invalidate"
      BY <1>1 DEF Calls, Holds
    <3>. QED BY <1>3, <2>2, <3>1
  <2>4. CASE config[i] = Absent
    BY <1>2, <1>3, <1>5, <2>2, <2>3, <2>4, RowsRest
  <2>5. CASE config[i] # Absent
    BY <1>10, <2>1, <2>2, <2>3, <2>5
  <2>. QED BY <2>4, <2>5
<1>15. CASE ConfigStatementFails(u)
  <2>1. UNCHANGED <<time, config, until, cache, handed>> /\ Ends(u)
    BY <1>15 DEF ConfigStatementFails
  <2>. QED BY <1>2, <1>3, <1>4, <2>1, RowsRest DEF Ends
<1>. QED BY <1>6, <1>7, <1>8, <1>9, <1>11, <1>12, <1>13, <1>14, <1>15 DEF Begins, GoesOn

LEMMA ServeStep ==
    ASSUME ConfigTypes, ServeInv, [PersistenceNext]_persistenceVars
    PROVE  ServeInv'
<1>1. CASE UNCHANGED configVars
  <2>1. UNCHANGED <<time, config, until, handed, cache, job>>
    BY <1>1 DEF configVars
  <2>2. time' \in Nat /\ time <= time'
    BY <2>1 DEF ConfigTypes
  <2>3. /\ \A e \in Entries : CacheEntry(e) => CacheEntry(e)'
        /\ \A j \in Calls : ClientCall(j) => ClientCall(j)'
    BY <2>1, <2>2, RowsRest, EntryStays, ClientStays
  <2>. QED BY <2>1, <2>3 DEF ServeInv, OnceCreated
<1>. QED BY <1>1, ConfigSteps, ServeTick, ServeClient, ServeCall

CacheBound == IsFiniteSet(Cached) /\ Cardinality(Cached) <= MaxEntries

LEMMA CacheBoundInit == ASSUME PersistenceInit PROVE CacheBound
<1>1. Cached = {}
  BY DEF PersistenceInit, ConfigInit, Cached
<1>. QED BY <1>1, FS_EmptySet, ConfigStoreAssumption DEF CacheBound

LEMMA CacheBoundStep ==
    ASSUME ConfigTypes, CacheBound, [PersistenceNext]_persistenceVars
    PROVE  CacheBound'
<1>1. ASSUME Cached' \subseteq Cached PROVE CacheBound'
  <2>1. IsFiniteSet(Cached') /\ Cardinality(Cached') <= Cardinality(Cached)
    BY <1>1, FS_Subset DEF CacheBound
  <2>2. PICK a \in Nat, b \in Nat : a = Cardinality(Cached') /\ b = Cardinality(Cached)
    BY <2>1, FS_CardinalityType DEF CacheBound
  <2>. QED BY <2>1, <2>2, ConfigStoreAssumption DEF CacheBound
<1>2. CASE cache' = cache
  BY <1>1, <1>2 DEF Cached
<1>3. CASE cleanupExpired \/ \E u \in Administrators : Invalidate(u)
  BY <1>1, <1>3 DEF cleanupExpired, Invalidate, Cached, ConfigTypes
<1>4. ASSUME NEW c \in Clients, SetCache(c) PROVE CacheBound'
  <2>. DEFINE key == job[c].key
  <2>1. PICK out \in SUBSET Cached :
          /\ IF Cardinality(Cached) < MaxEntries THEN out = {} ELSE \E k \in Cached : out = {k}
          /\ cache' = [k \in Keys |->
               IF k = key THEN [found |-> job[c].found, expires |-> time + TTL]
               ELSE IF k \in out THEN Absent ELSE cache[k]]
    BY <1>4 DEF SetCache
  <2>2. Cached' \subseteq (Cached \ out) \union {key}
    BY <2>1 DEF Cached
  <2>3. PICK n \in Nat : n = Cardinality(Cached)
    BY FS_CardinalityType DEF CacheBound
  <2>4. IsFiniteSet(Cached \ out) /\ Cardinality(Cached \ out) \in Nat
        /\ Cardinality(Cached \ out) < MaxEntries
    <3>1. CASE n < MaxEntries
      <4>1. Cached \ out = Cached
        BY <2>1, <2>3, <3>1
      <4>. QED BY <2>3, <3>1, <4>1 DEF CacheBound
    <3>2. CASE ~(n < MaxEntries)
      <4>1. PICK k \in Cached : out = {k}
        BY <2>1, <2>3, <3>2
      <4>2. IsFiniteSet(Cached \ {k}) /\ Cardinality(Cached \ {k}) = n - 1
        BY <2>3, <4>1, FS_RemoveElement DEF CacheBound
      <4>3. n \in Nat /\ n <= MaxEntries
        BY <2>3 DEF CacheBound
      <4>4. Cardinality(Cached \ {k}) \in Nat
        BY <4>2, FS_CardinalityType
      <4>. QED BY <4>1, <4>2, <4>3, <4>4, ConfigStoreAssumption
    <3>. QED BY <3>1, <3>2
  <2>5. IsFiniteSet((Cached \ out) \union {key})
        /\ Cardinality((Cached \ out) \union {key}) <= Cardinality(Cached \ out) + 1
    BY <2>4, FS_AddElement
  <2>6. IsFiniteSet(Cached') /\ Cardinality(Cached') <= Cardinality((Cached \ out) \union {key})
    BY <2>2, <2>5, FS_Subset
  <2>7. PICK a \in Nat, b \in Nat, d \in Nat :
           /\ a = Cardinality(Cached') /\ b = Cardinality((Cached \ out) \union {key})
           /\ d = Cardinality(Cached \ out)
    BY <2>4, <2>5, <2>6, FS_CardinalityType
  <2>8. a <= MaxEntries
    BY <2>4, <2>5, <2>6, <2>7, ConfigStoreAssumption
  <2>. QED BY <2>6, <2>7, <2>8 DEF CacheBound
<1>5. \/ cache' = cache
      \/ cleanupExpired \/ \E u \in Administrators : Invalidate(u)
      \/ \E c \in Clients : SetCache(c)
  <2>1. UNCHANGED configVars \/ ConfigTick => cache' = cache
    BY DEF configVars, ConfigTick
  <2>2. ASSUME NEW c \in Clients, Client(c) PROVE cache' = cache \/ SetCache(c)
    BY <2>2, ZenonT(30) DEF Client, FindBalancer, GetCached, SelectConfig, Answered
  <2>3. ASSUME NEW u \in Administrators, Begins(u, Configs, Balancers) PROVE cache' = cache
    BY <2>3 DEF Begins, CheckToken, ReadConfig, KeyBalancer, UpdateBalancer, DeleteBalancer, PutBalancer
  <2>4. ASSUME NEW u \in Administrators, GoesOn(u) PROVE cache' = cache \/ Invalidate(u)
    BY <2>4 DEF GoesOn, InsertConfig, RenewKey, DeleteRow, WriteConfig, ConfigStatementFails
  <2>. QED BY <2>1, <2>2, <2>3, <2>4, ConfigSteps
<1>. QED BY <1>2, <1>3, <1>4, <1>5

-----------------------------------------------------------------------------
(* All the types, and what lookups serve                                     *)

LEMMA SessionSteps ==
    ASSUME [PersistenceNext]_persistenceVars
    PROVE  \/ UNCHANGED sessionVars
           \/ \E r \in Requests :
                \/ /\ IF Serial THEN request[r].pc = "free" => NobodyServed ELSE TRUE
                   /\ Begin(r)
                \/ Proceed(r)
<1>1. CASE UNCHANGED persistenceVars
  BY <1>1 DEF persistenceVars
<1>2. CASE Conversing
  BY <1>2 DEF Conversing
<1>3. CASE Logging \/ Retention \/ Keyed \/ Alerting \/ Summing
  BY <1>3 DEF Logging, Retention, Keyed, Alerting, Summing
<1>. QED BY <1>1, <1>2, <1>3 DEF PersistenceNext

\* The counters that bound the model.
Bounds ==
    /\ tick \in FirstTick .. MaxTick /\ logFaults \in 0 .. MaxLogFaults
    /\ turns \in 0 .. MaxTurns /\ sessionFaults \in 0 .. MaxSessionFaults

LEMMA BoundsInit == ASSUME PersistenceInit PROVE Bounds
<1>1. tick = FirstTick /\ logFaults = 0
  BY DEF PersistenceInit, LogInit
<1>2. turns = 0 /\ sessionFaults = 0
  BY DEF PersistenceInit, SessionsInit
<1>. QED BY <1>1, <1>2, LogStoreAssumption, SessionsAssumption DEF Bounds, FirstTick

LEMMA BoundsStep ==
    ASSUME Bounds, [PersistenceNext]_persistenceVars
    PROVE  Bounds'
<1>1. tick' \in FirstTick .. MaxTick /\ logFaults' \in 0 .. MaxLogFaults
  <2>1. \/ UNCHANGED <<tick, logFaults>>
        \/ tick' = tick /\ LogFault
        \/ LogTick
    <3>1. ASSUME NEW w \in LogWorkers, NEW toFile \in BOOLEAN, LogWorker(w, toFile)
          PROVE  tick' = tick /\ (LogFault \/ UNCHANGED logFaults)
      BY <3>1, ZenonT(30) DEF LogWorker, InsertLog, CreateFile, WriteFile, PointRow, BodiesDone,
                  FindStats, WriteStats
    <3>2. ASSUME NEW c \in Cleaners, Cleaner(c)
          PROVE  tick' = tick /\ (LogFault \/ UNCHANGED logFaults)
      BY <3>2, ZenonT(30) DEF Cleaner, DeleteOldRequestLogs, CleanOldDirectories, DeleteOldestRequestLogs,
                  SelectInline, MigrateRow, CreateFile, WriteFile, PointRow, BodiesDone
    <3>3. CASE UNCHANGED logVars
      BY <3>3 DEF logVars
    <3>4. CASE DeleteConfigLogs \/ LogCrash
      BY <3>4 DEF DeleteConfigLogs, LogCrash
    <3>. QED BY <3>1, <3>2, <3>3, <3>4, LogSteps
  <2>. QED BY <2>1, LogStoreAssumption DEF Bounds, LogTick, LogFault, FirstTick
<1>2. turns' \in 0 .. MaxTurns /\ sessionFaults' \in 0 .. MaxSessionFaults
  <2>1. \/ UNCHANGED <<turns, sessionFaults>>
        \/ turns' = turns /\ SessionFault
        \/ turns < MaxTurns /\ turns' = turns + 1 /\ UNCHANGED sessionFaults
    <3>1. ASSUME NEW r \in Requests, Begin(r)
          PROVE  turns < MaxTurns /\ turns' = turns + 1 /\ UNCHANGED sessionFaults
      BY <3>1 DEF Begin, Attempt
    <3>2. ASSUME NEW r \in Requests, Proceed(r)
          PROVE  turns' = turns /\ (SessionFault \/ UNCHANGED sessionFaults)
      BY <3>2 DEF Proceed, GetSession, CreateSession, RequestOver, Answer, SaveFails,
                  CountSessionMessages, CreateSessionMessage, ReadSession, UpdateSession
    <3>3. CASE UNCHANGED sessionVars
      BY <3>3 DEF sessionVars
    <3>. QED BY <3>1, <3>2, <3>3, SessionSteps
  <2>. QED BY <2>1, SessionsAssumption DEF Bounds, SessionFault
<1>. QED BY <1>1, <1>2 DEF Bounds

LEMMA AllTypes ==
    ASSUME LogTypes, StatInv, Bounds, ConfigTypes, CacheBound, WatchTypes
    PROVE  TypeOK
<1>1. \A i \in Configs : config[i] # Absent => config[i].key \in Keys /\ config[i].version \in Versions
  BY DEF ConfigTypes, ConfigRows
<1>2. /\ time \in 0 .. MaxTime /\ made \subseteq Generated /\ dropped \subseteq Keys
      /\ Cardinality(Cached) <= MaxEntries
  BY DEF ConfigTypes, CacheBound
<1>3. /\ clock \in 0 .. MaxClock /\ registered \in Managers \cup {NoManager}
      /\ \A m \in Managers : Len(manager[m].queue) <= QueueSize
  BY DEF WatchTypes
<1>4. counted \subseteq logged /\ logged \subseteq LogIds
  BY DEF LogTypes, StatInv
<1>. QED BY <1>1, <1>2, <1>3, <1>4 DEF TypeOK, Bounds

\* GetConfigByAnthropicAPIKey: what the cache answers with for a key is what the
\* database held at most the time to live and the longest statement ago, through
\* rotations, renewals and deletions by several administrators at a time, and the
\* cache never outgrows its size.
THEOREM LookupsServeRecentRows == Spec => []LookupsRecent
<1>. DEFINE Inv == /\ LogTypes /\ StatInv /\ Bounds /\ WatchTypes
                   /\ ConfigTypes /\ ServeInv /\ CacheBound
<1>1. PersistenceInit => Inv
  BY LogTypesInit, StatInvInit, BoundsInit, WatchTypesInit, ConfigTypesInit, ServeInit,
     CacheBoundInit
<1>2. Inv /\ [PersistenceNext]_persistenceVars => Inv'
  BY LogTypesStep, StatInvStep, BoundsStep, WatchTypesStep, ConfigTypesStep, ServeStep,
     CacheBoundStep
<1>3. Inv => LookupsRecent
  BY AllTypes, ServeKeeps DEF LookupsRecent
<1>. QED BY <1>1, <1>2, <1>3, PTL DEF Spec

-----------------------------------------------------------------------------
(* Sessions: the counters of a row and the messages                        *)

Roles  == {"user", "assistant"}
Saving == {"count", "insert", "get", "update"}
Messages == [session : SessionIds, index : Nat, role : Roles, turn : Nat, config : SessionConfigs]
SessionRows == [config : SessionConfigs, count : Nat, tokens : Nat]
Served == [pc : {"free", "find", "create", "upstream"} \union Saving,
           named : SessionIds \union {NoSession}, session : SessionIds \union {NoSession},
           config : SessionConfigs \union {NoSession},
           turn : Nat, left : SUBSET Roles, count : Nat, tokens : Nat]

SessionTypes ==
    /\ turns \in Nat /\ sessionFaults \in Nat
    /\ sessionRow \in [SessionIds -> SessionRows \union {NoSession}]
    /\ messages \in SUBSET Messages /\ IsFiniteSet(messages)
    /\ request \in [Requests -> Served]

\* The attempt has inserted its message and not yet dealt with the session.
Inserted(r) == request[r].pc \in {"get", "update"}
Own(r, m)   == m.turn = request[r].turn /\ m.role = Role(r)

\* The messages whose tokens may be in the row: all but those of such attempts.
Settled(s) == {m \in Rows(s) : \A r \in Requests : Inserted(r) => ~Own(r, m)}
TokensOf   == [m \in Messages |-> Tokens(m.role)]
SumOf(S)   == SumFunctionOnSet(TokensOf, S)

\* What an attempt has in its session, and which messages are its own.
AttemptInv(r) ==
    /\ request[r].turn <= turns
    /\ request[r].pc # "free" => request[r].config \in SessionConfigs
    /\ request[r].pc \in Saving => request[r].left # {} /\ request[r].session # NoSession
    /\ request[r].session # NoSession =>
         /\ sessionRow[request[r].session] # NoSession
         /\ sessionRow[request[r].session].config = request[r].config
    /\ \A p \in Requests :
         p # r /\ request[p].pc # "free" /\ request[r].pc # "free" =>
           request[p].turn # request[r].turn

OwnInv(r) ==
    /\ \A m \in messages : m.turn = request[r].turn =>
         /\ request[r].pc \notin {"find", "create", "upstream"}
         /\ request[r].pc \in {"count", "insert"} =>
              m.role = "user" /\ "user" \notin request[r].left
         /\ Inserted(r) /\ "user" \in request[r].left => m.role = "user"
    /\ Inserted(r) =>
         \E n \in Rows(request[r].session) : \A m \in messages : Own(r, m) <=> m = n

CountInv(r) ==
    /\ request[r].pc = "insert" =>
         /\ request[r].count <= Cardinality(Rows(request[r].session))
         /\ \A m \in Rows(request[r].session) : m.turn = request[r].turn => m.index < request[r].count
    /\ Inserted(r) => request[r].count < Cardinality(Rows(request[r].session))
    /\ request[r].pc = "update" => request[r].tokens <= SumOf(Settled(request[r].session))

MessageInv(m) ==
    /\ m.turn <= turns /\ m.index < Cardinality(Rows(m.session))
    /\ sessionRow[m.session] # NoSession

RowNeverLeads(s) ==
    sessionRow[s] # NoSession =>
      /\ sessionRow[s].count <= Cardinality(Rows(s))
      /\ sessionRow[s].tokens <= SumOf(Settled(s))

\* One request at a time and no failure.
OneServed == \A r, p \in Requests : request[r].pc # "free" /\ request[p].pc # "free" => r = p
ExactRow(s) ==
    sessionRow[s] # NoSession =>
      /\ sessionRow[s].count = Cardinality(Settled(s))
      /\ sessionRow[s].tokens = SumOf(Settled(s))
      /\ {m.index : m \in Rows(s)} = 0 .. Cardinality(Rows(s)) - 1
ExactRequest(r) ==
    /\ request[r].pc = "insert" => request[r].count = Cardinality(Rows(request[r].session))
    /\ Inserted(r) => request[r].count = Cardinality(Settled(request[r].session))
    /\ request[r].pc = "update" => request[r].tokens = SumOf(Settled(request[r].session))

SessionInv ==
    /\ \A r \in Requests : AttemptInv(r) /\ OwnInv(r) /\ CountInv(r)
    /\ \A m \in messages : MessageInv(m)
    /\ \A s \in SessionIds : RowNeverLeads(s)
    /\ TurnsInOrder
    /\ Serial => OneServed
    /\ Serial /\ sessionFaults = 0 =>
         (\A s \in SessionIds : ExactRow(s)) /\ (\A r \in Requests : ExactRequest(r))

LEMMA FreeServed ==
    /\ Free \in Served /\ Free.pc = "free" /\ Free.session = NoSession /\ Free.turn = 0
    /\ Free.left = {} /\ Free.named = NoSession
BY DEF Free, Served

LEMMA SessionTypesInit == ASSUME PersistenceInit PROVE SessionTypes
BY FreeServed, FS_EmptySet DEF PersistenceInit, SessionsInit, SessionTypes

\* The request a step is of, before and after it.
Turned(r, w) == request' = [request EXCEPT ![r] = w]

LEMMA Others ==
    ASSUME SessionTypes, NEW r \in Requests, NEW w, Turned(r, w)
    PROVE  request'[r] = w /\ \A p \in Requests : p # r => request'[p] = request[p]
BY DEF SessionTypes, Turned

LEMMA RoleIn == \A r : Role(r) \in Roles
BY DEF Role, Roles

LEMMA RoleLeft ==
    ASSUME SessionTypes, NEW r \in Requests, request[r].left # {}
    PROVE  Role(r) \in request[r].left
<1>1. request[r].left \subseteq Roles
  BY DEF SessionTypes, Served
<1>. QED BY <1>1 DEF Role, Roles

\* What NextMessage makes of a request.
LEMMA NextMessages ==
    ASSUME SessionTypes, NEW r \in Requests, NextMessage(r)
    PROVE  \E w \in Served :
             /\ Turned(r, w)
             /\ \/ w = Free
                \/ /\ w.pc = "count" /\ w.left = request[r].left \ {Role(r)} /\ w.left # {}
                   /\ w.session = request[r].session /\ w.config = request[r].config
                   /\ w.turn = request[r].turn
<1>1. request[r] \in Served
  BY DEF SessionTypes
<1>. DEFINE rest == request[r].left \ {Role(r)}
<1>2. CASE rest = {}
  BY <1>2, FreeServed DEF NextMessage, Turned
<1>3. CASE rest # {}
  <2>. DEFINE w == [request[r] EXCEPT !.pc = "count", !.left = rest, !.count = 0, !.tokens = 0]
  <2>1. w \in Served
    BY <1>1 DEF Served, Saving
  <2>2. /\ w.pc = "count" /\ w.left = rest /\ w.session = request[r].session
        /\ w.config = request[r].config /\ w.turn = request[r].turn
    BY <1>1 DEF Served
  <2>3. Turned(r, w)
    BY <1>3 DEF NextMessage, Turned
  <2>. QED BY <1>3, <2>1, <2>2, <2>3
<1>. QED BY <1>2, <1>3

\* Every step of a request, by what it does to the request.
LEMMA AttemptStep ==
    ASSUME SessionTypes, NEW r \in Requests, Begin(r)
    PROVE  \E w \in Served :
             /\ Turned(r, w) /\ request[r].pc \in {"free", "upstream"}
             /\ w.pc = "find" /\ w.session = NoSession /\ w.config \in SessionConfigs
             /\ w.turn = turns + 1 /\ turns' = turns + 1
             /\ UNCHANGED <<sessionRow, messages, sessionFaults>>
<1>1. PICK named \in SessionIds \union {NoSession}, cfg \in SessionConfigs : Attempt(r, named, cfg)
  BY DEF Begin
<1>2. PICK t \in Nat : t = turns + 1
  BY DEF SessionTypes
<1>3. PICK f \in Served : f = Free /\ f.session = NoSession
  BY FreeServed
<1>. DEFINE w == [f EXCEPT !.pc = "find", !.named = named, !.config = cfg, !.turn = t]
<1>4. /\ w \in Served /\ w.pc = "find" /\ w.session = NoSession /\ w.config = cfg
      /\ w.turn = t
  BY <1>3 DEF Served
<1>5. Turned(r, w) /\ request[r].pc \in {"free", "upstream"}
  BY <1>1, <1>2, <1>3 DEF Attempt, Turned
<1>. HIDE DEF w
<1>. QED BY <1>1, <1>2, <1>4, <1>5 DEF Attempt

LEMMA GetSessionStep ==
    ASSUME SessionTypes, NEW r \in Requests, GetSession(r)
    PROVE  \E w \in Served :
             /\ Turned(r, w) /\ request[r].pc = "find" /\ w.pc \in {"upstream", "create"}
             /\ w.turn = request[r].turn /\ w.config = request[r].config
             /\ \/ w.session = request[r].session
                \/ w.session # NoSession =>
                     /\ w.session \in SessionIds /\ sessionRow[w.session] # NoSession
                     /\ sessionRow[w.session].config = w.config
             /\ sessionFaults' = sessionFaults \/ SessionFault
             /\ UNCHANGED <<sessionRow, messages, turns>>
<1>1. request[r] \in Served
  BY DEF SessionTypes
<1>. DEFINE named == request[r].named
            found == /\ named # NoSession /\ sessionRow[named] # NoSession
                     /\ sessionRow[named].config = request[r].config
<1>2. named \in SessionIds \union {NoSession}
  BY <1>1 DEF Served
<1>3. CASE found /\ request' = [request EXCEPT ![r].pc = "upstream", ![r].session = named]
  <2>. DEFINE w == [request[r] EXCEPT !.pc = "upstream", !.session = named]
  <2>1. /\ w \in Served /\ w.pc = "upstream" /\ w.session = named
        /\ w.turn = request[r].turn /\ w.config = request[r].config
    BY <1>1, <1>2 DEF Served
  <2>2. Turned(r, w)
    BY <1>3 DEF Turned
  <2>3. w.session # NoSession => /\ w.session \in SessionIds /\ sessionRow[w.session] # NoSession
                                 /\ sessionRow[w.session].config = w.config
    BY <1>2, <1>3, <2>1
  <2>. HIDE DEF w
  <2>. QED BY <2>1, <2>2, <2>3 DEF GetSession
<1>4. CASE request' = [request EXCEPT ![r].pc = "create", ![r].session = NoSession]
  <2>. DEFINE w == [request[r] EXCEPT !.pc = "create", !.session = NoSession]
  <2>1. /\ w \in Served /\ w.pc = "create" /\ w.session = NoSession
        /\ w.turn = request[r].turn /\ w.config = request[r].config
    BY <1>1 DEF Served
  <2>2. Turned(r, w)
    BY <1>4 DEF Turned
  <2>. HIDE DEF w
  <2>. QED BY <2>1, <2>2 DEF GetSession
<1>5. CASE request' = [request EXCEPT ![r].pc = "upstream"]
  <2>. DEFINE w == [request[r] EXCEPT !.pc = "upstream"]
  <2>1. /\ w \in Served /\ w.pc = "upstream" /\ w.session = request[r].session
        /\ w.turn = request[r].turn /\ w.config = request[r].config
    BY <1>1 DEF Served
  <2>2. Turned(r, w)
    BY <1>5 DEF Turned
  <2>. HIDE DEF w
  <2>. QED BY <2>1, <2>2 DEF GetSession
<1>6. \/ found /\ request' = [request EXCEPT ![r].pc = "upstream", ![r].session = named]
      \/ request' = [request EXCEPT ![r].pc = "create", ![r].session = NoSession]
      \/ request' = [request EXCEPT ![r].pc = "upstream"]
  BY DEF GetSession
<1>. QED BY <1>3, <1>4, <1>5, <1>6

LEMMA CreateSessionStep ==
    ASSUME SessionTypes, NEW r \in Requests, CreateSession(r)
    PROVE  \E w \in Served :
             /\ Turned(r, w) /\ request[r].pc = "create" /\ w.pc = "upstream"
             /\ w.turn = request[r].turn /\ w.config = request[r].config
             /\ \/ /\ w.session = request[r].session /\ UNCHANGED sessionRow
                \/ /\ w.session \in SessionIds /\ sessionRow[w.session] = NoSession
                   /\ sessionRow' = [sessionRow EXCEPT ![w.session] =
                                       [config |-> w.config, count |-> 0, tokens |-> 0]]
             /\ sessionFaults' = sessionFaults \/ SessionFault
             /\ UNCHANGED <<messages, turns>>
<1>1. request[r] \in Served
  BY DEF SessionTypes
<1>2. ASSUME NEW s \in NewIds,
             sessionRow' = [sessionRow EXCEPT ![s] =
                              [config |-> request[r].config, count |-> 0, tokens |-> 0]],
             request' = [request EXCEPT ![r].pc = "upstream", ![r].session = s],
             sessionFaults' = sessionFaults
      PROVE  \E w \in Served :
             /\ Turned(r, w) /\ w.pc = "upstream"
             /\ w.turn = request[r].turn /\ w.config = request[r].config
             /\ w.session \in SessionIds /\ sessionRow[w.session] = NoSession
             /\ sessionRow' = [sessionRow EXCEPT ![w.session] =
                                       [config |-> w.config, count |-> 0, tokens |-> 0]]
  <2>. DEFINE w == [request[r] EXCEPT !.pc = "upstream", !.session = s]
  <2>0. s \in SessionIds /\ sessionRow[s] = NoSession
    BY DEF NewIds
  <2>1. /\ w \in Served /\ w.pc = "upstream" /\ w.session = s
        /\ w.turn = request[r].turn /\ w.config = request[r].config
    BY <1>1, <2>0 DEF Served
  <2>2. Turned(r, w)
    BY <1>2 DEF Turned
  <2>. HIDE DEF w
  <2>. QED BY <1>2, <2>0, <2>1, <2>2
<1>3. ASSUME request' = [request EXCEPT ![r].pc = "upstream"], sessionRow' = sessionRow
      PROVE  \E w \in Served :
             /\ Turned(r, w) /\ w.pc = "upstream"
             /\ w.turn = request[r].turn /\ w.config = request[r].config
             /\ w.session = request[r].session
  <2>. DEFINE w == [request[r] EXCEPT !.pc = "upstream"]
  <2>1. /\ w \in Served /\ w.pc = "upstream" /\ w.session = request[r].session
        /\ w.turn = request[r].turn /\ w.config = request[r].config
    BY <1>1 DEF Served
  <2>2. Turned(r, w)
    BY <1>3 DEF Turned
  <2>. HIDE DEF w
  <2>. QED BY <2>1, <2>2
<1>4. request[r].pc = "create" /\ UNCHANGED <<messages, turns>>
  BY DEF CreateSession
<1>5. CASE \E s \in NewIds :
             /\ sessionRow' = [sessionRow EXCEPT ![s] =
                                 [config |-> request[r].config, count |-> 0, tokens |-> 0]]
             /\ request' = [request EXCEPT ![r].pc = "upstream", ![r].session = s]
             /\ sessionFaults' = sessionFaults
  BY <1>2, <1>4, <1>5
<1>6. CASE /\ SessionFault /\ request' = [request EXCEPT ![r].pc = "upstream"]
           /\ sessionRow' = sessionRow
  BY <1>3, <1>4, <1>6
<1>. QED BY <1>5, <1>6 DEF CreateSession

LEMMA AnswerStep ==
    ASSUME SessionTypes, NEW r \in Requests, NEW left \in {{"user"}, {"user", "assistant"}},
           Answer(r, left)
    PROVE  \E w \in Served :
             /\ Turned(r, w) /\ request[r].pc = "upstream" /\ w.pc = "count"
             /\ w.turn = request[r].turn /\ w.config = request[r].config
             /\ w.session = request[r].session /\ w.session # NoSession /\ w.left = left
             /\ UNCHANGED <<sessionRow, messages, turns, sessionFaults>>
<1>1. request[r] \in Served
  BY DEF SessionTypes
<1>. DEFINE w == [request[r] EXCEPT !.pc = "count", !.left = left]
<1>2. /\ w \in Served /\ w.pc = "count" /\ w.session = request[r].session
      /\ w.turn = request[r].turn /\ w.config = request[r].config /\ w.left = left
  BY <1>1 DEF Served, Saving, Roles
<1>3. Turned(r, w)
  BY DEF Answer, Turned
<1>. HIDE DEF w
<1>. QED BY <1>2, <1>3 DEF Answer

LEMMA CountStep ==
    ASSUME SessionTypes, NEW r \in Requests, CountSessionMessages(r)
    PROVE  \E w \in Served :
             /\ Turned(r, w) /\ request[r].pc = "count" /\ w.pc = "insert"
             /\ w.turn = request[r].turn /\ w.config = request[r].config
             /\ w.session = request[r].session /\ w.left = request[r].left
             /\ w.count = Cardinality(Rows(request[r].session))
             /\ UNCHANGED <<sessionRow, messages, turns, sessionFaults>>
<1>1. request[r] \in Served
  BY DEF SessionTypes
<1>2. Cardinality(Rows(request[r].session)) \in Nat
  <2>1. Rows(request[r].session) \in SUBSET messages
    BY DEF Rows
  <2>. QED BY <2>1, FS_Subset, FS_CardinalityType DEF SessionTypes
<1>3. PICK n \in Nat : n = Cardinality(Rows(request[r].session))
  BY <1>2
<1>. DEFINE w == [request[r] EXCEPT !.pc = "insert", !.count = n]
<1>4. /\ w \in Served /\ w.pc = "insert" /\ w.session = request[r].session
      /\ w.turn = request[r].turn /\ w.config = request[r].config /\ w.left = request[r].left
      /\ w.count = n
  BY <1>1 DEF Served, Saving
<1>5. Turned(r, w)
  BY <1>3 DEF CountSessionMessages, Turned
<1>. HIDE DEF w
<1>. QED BY <1>3, <1>4, <1>5 DEF CountSessionMessages

LEMMA InsertStep ==
    ASSUME SessionTypes, NEW r \in Requests, CreateSessionMessage(r)
    PROVE  \E w \in Served :
             /\ Turned(r, w) /\ request[r].pc = "insert" /\ w.pc = "get"
             /\ w.turn = request[r].turn /\ w.config = request[r].config
             /\ w.session = request[r].session /\ w.left = request[r].left
             /\ w.count = request[r].count
             /\ UNCHANGED <<sessionRow, turns, sessionFaults>>
<1>1. request[r] \in Served
  BY DEF SessionTypes
<1>. DEFINE w == [request[r] EXCEPT !.pc = "get"]
<1>2. /\ w \in Served /\ w.pc = "get" /\ w.session = request[r].session
      /\ w.turn = request[r].turn /\ w.config = request[r].config /\ w.left = request[r].left
      /\ w.count = request[r].count
  BY <1>1 DEF Served, Saving
<1>3. Turned(r, w)
  BY DEF CreateSessionMessage, Turned
<1>. HIDE DEF w
<1>. QED BY <1>2, <1>3 DEF CreateSessionMessage

\* The row of the session an attempt saves to.
LEMMA RowThere ==
    ASSUME SessionTypes, SessionInv, NEW r \in Requests, request[r].pc \in Saving
    PROVE  /\ request[r].session \in SessionIds
           /\ sessionRow[request[r].session] \in SessionRows
BY DEF SessionTypes, SessionInv, AttemptInv, Served

LEMMA ReadStep ==
    ASSUME SessionTypes, SessionInv, NEW r \in Requests, ReadSession(r)
    PROVE  \E w \in Served :
             /\ Turned(r, w) /\ request[r].pc = "get" /\ w.pc = "update"
             /\ w.turn = request[r].turn /\ w.config = request[r].config
             /\ w.session = request[r].session /\ w.left = request[r].left
             /\ w.count = request[r].count
             /\ w.tokens = sessionRow[request[r].session].tokens
             /\ UNCHANGED <<sessionRow, messages, turns, sessionFaults>>
<1>1. request[r] \in Served
  BY DEF SessionTypes
<1>2. request[r].pc \in Saving
  BY DEF ReadSession, Saving
<1>3. PICK n \in Nat : n = sessionRow[request[r].session].tokens
  BY <1>2, RowThere DEF SessionRows
<1>. DEFINE w == [request[r] EXCEPT !.pc = "update", !.tokens = n]
<1>4. /\ w \in Served /\ w.pc = "update" /\ w.session = request[r].session
      /\ w.turn = request[r].turn /\ w.config = request[r].config /\ w.left = request[r].left
      /\ w.count = request[r].count /\ w.tokens = n
  BY <1>1 DEF Served, Saving
<1>5. Turned(r, w)
  BY <1>3 DEF ReadSession, Turned
<1>. HIDE DEF w
<1>. QED BY <1>3, <1>4, <1>5 DEF ReadSession

LEMMA SessionTypesStep ==
    ASSUME SessionTypes, SessionInv, [PersistenceNext]_persistenceVars
    PROVE  SessionTypes'
<1>1. ASSUME NEW r \in Requests, NEW w \in Served, Turned(r, w), UNCHANGED <<sessionRow, messages>>,
             turns' \in Nat, sessionFaults' \in Nat
      PROVE  SessionTypes'
  BY <1>1 DEF SessionTypes, Turned
<1>2. SessionFault => sessionFaults' \in Nat
  BY DEF SessionFault, SessionTypes
<1>3. ASSUME NEW r \in Requests, Begin(r) PROVE SessionTypes'
  BY <1>1, <1>3, AttemptStep DEF SessionTypes
<1>4. ASSUME NEW r \in Requests, GetSession(r) PROVE SessionTypes'
  BY <1>1, <1>2, <1>4, GetSessionStep DEF SessionTypes
<1>5. ASSUME NEW r \in Requests, CreateSession(r) PROVE SessionTypes'
  <2>1. PICK w \in Served :
             /\ Turned(r, w) /\ request[r].pc = "create" /\ w.config = request[r].config
             /\ \/ UNCHANGED sessionRow
                \/ sessionRow' = [sessionRow EXCEPT ![w.session] =
                                       [config |-> w.config, count |-> 0, tokens |-> 0]]
             /\ sessionFaults' = sessionFaults \/ SessionFault
             /\ UNCHANGED <<messages, turns>>
    BY <1>5, CreateSessionStep
  <2>2. [config |-> w.config, count |-> 0, tokens |-> 0] \in SessionRows
    BY <2>1 DEF SessionInv, AttemptInv, SessionRows
  <2>3. sessionRow' \in [SessionIds -> SessionRows \union {NoSession}]
    BY <2>1, <2>2 DEF SessionTypes
  <2>. QED BY <1>2, <2>1, <2>3 DEF SessionTypes, Turned
<1>6. ASSUME NEW r \in Requests, RequestOver(r) PROVE SessionTypes'
  BY <1>1, <1>6, FreeServed DEF RequestOver, Turned, SessionTypes
<1>7. ASSUME NEW r \in Requests, NEW left \in {{"user"}, {"user", "assistant"}}, Answer(r, left)
      PROVE  SessionTypes'
  <2>1. PICK w \in Served :
           Turned(r, w) /\ UNCHANGED <<sessionRow, messages, turns, sessionFaults>>
    BY <1>7, AnswerStep
  <2>. QED BY <1>1, <2>1 DEF SessionTypes
<1>8. ASSUME NEW r \in Requests, SaveFails(r) PROVE SessionTypes'
  BY <1>1, <1>2, <1>8, NextMessages DEF SaveFails, SessionTypes
<1>9. ASSUME NEW r \in Requests, CountSessionMessages(r) PROVE SessionTypes'
  BY <1>1, <1>9, CountStep DEF SessionTypes
<1>10. ASSUME NEW r \in Requests, CreateSessionMessage(r) PROVE SessionTypes'
  <2>1. request[r].pc = "insert" /\ request[r] \in Served
    BY <1>10 DEF CreateSessionMessage, SessionTypes
  <2>2. /\ request[r].session \in SessionIds /\ request[r].config \in SessionConfigs
        /\ request[r].turn \in Nat /\ request[r].count \in Nat
    BY <2>1 DEF SessionInv, AttemptInv, Served, Saving
  <2>. DEFINE n == [session |-> request[r].session, index |-> request[r].count,
                    role |-> Role(r), turn |-> request[r].turn, config |-> request[r].config]
  <2>3. n \in Messages
    BY <2>2, RoleIn DEF Messages
  <2>4. messages' = messages \union {n}
    BY <1>10 DEF CreateSessionMessage
  <2>. HIDE DEF n
  <2>5. messages' \in SUBSET Messages /\ IsFiniteSet(messages')
    BY <2>3, <2>4, FS_AddElement DEF SessionTypes
  <2>. QED BY <1>10, <2>5, InsertStep DEF SessionTypes, Turned
<1>11. ASSUME NEW r \in Requests, ReadSession(r) PROVE SessionTypes'
  BY <1>1, <1>11, ReadStep DEF SessionTypes
<1>12. ASSUME NEW r \in Requests, UpdateSession(r) PROVE SessionTypes'
  <2>1. request[r].pc \in Saving /\ request[r] \in Served
    BY <1>12 DEF UpdateSession, SessionTypes, Saving
  <2>2. PICK s \in SessionIds : s = request[r].session /\ sessionRow[s] \in SessionRows
    BY <2>1, RowThere
  <2>3. PICK a \in Nat, b \in Nat :
           a = request[r].count + 1 /\ b = request[r].tokens + Tokens(Role(r))
    BY <2>1 DEF Served, Tokens
  <2>4. sessionRow' = [sessionRow EXCEPT ![s] = [sessionRow[s] EXCEPT !.count = a, !.tokens = b]]
    BY <1>12, <2>2, <2>3 DEF UpdateSession
  <2>5. [sessionRow[s] EXCEPT !.count = a, !.tokens = b] \in SessionRows
    BY <2>2 DEF SessionRows
  <2>6. sessionRow' \in [SessionIds -> SessionRows \union {NoSession}]
    BY <2>4, <2>5 DEF SessionTypes
  <2>7. /\ request' \in [Requests -> Served] /\ UNCHANGED <<messages, turns, sessionFaults>>
    BY <1>12, NextMessages DEF UpdateSession, SessionTypes, Turned
  <2>. QED BY <2>6, <2>7 DEF SessionTypes
<1>13. CASE UNCHANGED sessionVars
  BY <1>13 DEF sessionVars, SessionTypes
<1>. QED BY <1>3, <1>4, <1>5, <1>6, <1>7, <1>8, <1>9, <1>10, <1>11, <1>12, <1>13, SessionSteps
     DEF Proceed

-----------------------------------------------------------------------------
(* What a step leaves alone                                                *)

LEMMA RowsFinite ==
    ASSUME SessionTypes, NEW s
    PROVE  /\ Rows(s) \in SUBSET messages /\ Settled(s) \in SUBSET Rows(s)
           /\ IsFiniteSet(Rows(s)) /\ IsFiniteSet(Settled(s))
           /\ Cardinality(Rows(s)) \in Nat /\ Cardinality(Settled(s)) \in Nat
<1>1. Rows(s) \in SUBSET messages /\ Settled(s) \in SUBSET Rows(s)
  BY DEF Rows, Settled
<1>2. IsFiniteSet(Rows(s)) /\ IsFiniteSet(Settled(s))
  BY <1>1, FS_Subset DEF SessionTypes
<1>. QED BY <1>1, <1>2, FS_CardinalityType

LEMMA TokensTypes == \A m \in Messages : TokensOf[m] \in Nat /\ TokensOf[m] = Tokens(m.role)
BY DEF TokensOf, Tokens

LEMMA MessageSums ==
    ASSUME SessionTypes, NEW S \in SUBSET messages
    PROVE  SumOf(S) \in Nat /\ \A T \in SUBSET S : SumOf(T) \in Nat /\ SumOf(T) <= SumOf(S)
<1>1. IsFiniteSet(S) /\ \A T \in SUBSET S : IsFiniteSet(T)
  BY FS_Subset DEF SessionTypes
<1>2. \A m \in S : TokensOf[m] \in Nat
  BY TokensTypes DEF SessionTypes
<1>3. \A T \in SUBSET S : SumOf(T) \in Int /\ SumOf({}) <= SumOf(T) /\ SumOf(T) <= SumOf(S)
  <2>. SUFFICES ASSUME NEW T \in SUBSET S
                PROVE  SumOf(T) \in Int /\ SumOf({}) <= SumOf(T) /\ SumOf(T) <= SumOf(S)
    OBVIOUS
  <2>1. SumOf(T) <= SumOf(S)
    BY <1>1, <1>2, SumSubset DEF SumOf
  <2>2. SumOf({}) <= SumOf(T)
    BY <1>1, <1>2, SumSubset DEF SumOf
  <2>3. SumOf(T) \in Int
    BY <1>1, <1>2, SumInt DEF SumOf
  <2>. QED BY <2>1, <2>2, <2>3
<1>4. SumOf({}) = 0
  BY SumEmpty DEF SumOf
<1>5. \A T \in SUBSET S : SumOf(T) \in Nat /\ SumOf(T) <= SumOf(S)
  <2>. SUFFICES ASSUME NEW T \in SUBSET S PROVE SumOf(T) \in Nat /\ SumOf(T) <= SumOf(S)
    OBVIOUS
  <2>1. PICK t \in Int : t = SumOf(T)
    BY <1>3
  <2>. QED BY <1>3, <1>4, <2>1
<1>6. S \in SUBSET S
  OBVIOUS
<1>. QED BY <1>5, <1>6

\* The tokens of a session's messages, as the model sums them.
LEMMA RowTokensSum ==
    ASSUME SessionTypes, NEW s
    PROVE  RowTokens(s) = SumOf(Rows(s))
<1>1. \A m \in Rows(s) : [m2 \in Rows(s) |-> Tokens(m2.role)][m] = TokensOf[m]
  BY RowsFinite, TokensTypes DEF SessionTypes
<1>. DEFINE f == [m \in Rows(s) |-> Tokens(m.role)]
<1>2. \A m \in Rows(s) : f[m] = TokensOf[m]
  BY <1>1
<1>3. DOMAIN f = Rows(s)
  OBVIOUS
<1>4. RowTokens(s) = SumFunctionOnSet(f, Rows(s))
  BY <1>3 DEF RowTokens, SumFunction
<1>. HIDE DEF f
<1>5. SumFunctionOnSet(f, Rows(s)) = SumFunctionOnSet(TokensOf, Rows(s))
  BY <1>2, RowsFinite, SumCongruent
<1>. QED BY <1>4, <1>5 DEF SumOf

\* With the messages and the attempts that have inserted one as they were,
\* the same messages are settled.
LEMMA SettledStays ==
    ASSUME UNCHANGED messages,
           \A p \in Requests : Inserted(p)' = Inserted(p),
           \A p \in Requests : Inserted(p) => /\ request'[p].turn = request[p].turn
                                              /\ request'[p].left = request[p].left
    PROVE  \A s : Rows(s)' = Rows(s) /\ Settled(s)' = Settled(s)
<1>1. \A s : Rows(s)' = Rows(s)
  BY DEF Rows
<1>2. \A p \in Requests : Inserted(p) => \A m : Own(p, m)' = Own(p, m)
  BY DEF Own, Role
<1>. QED BY <1>1, <1>2 DEF Settled

LEMMA SettledRest ==
    ASSUME SessionTypes, UNCHANGED messages, NEW r \in Requests, NEW w, Turned(r, w),
           ~Inserted(r), w.pc \notin {"get", "update"}
    PROVE  \A s : Rows(s)' = Rows(s) /\ Settled(s)' = Settled(s)
<1>1. request'[r] = w /\ \A p \in Requests : p # r => request'[p] = request[p]
  BY Others
<1>2. \A p \in Requests : Inserted(p)' = Inserted(p)
  BY <1>1 DEF Inserted
<1>3. \A p \in Requests : Inserted(p) => /\ request'[p].turn = request[p].turn
                                         /\ request'[p].left = request[p].left
  BY <1>1
<1>. QED BY <1>2, <1>3, SettledStays

\* What a request may become, as long as no message is added.
Fits(r, w) ==
    /\ request[r].pc = "free" /\ w.pc # "free" /\ Serial => NobodyServed
    /\ w.turn <= turns'
    /\ w.pc # "free" =>
         /\ w.config \in SessionConfigs
         /\ w.turn = turns + 1 \/ (w.turn = request[r].turn /\ request[r].pc # "free")
    /\ w.pc \in {"count", "insert"} => w.left # {} /\ w.session # NoSession
    /\ w.session # NoSession => sessionRow'[w.session] # NoSession
                                /\ sessionRow'[w.session].config = w.config
    /\ \A m \in messages : m.turn = w.turn =>
         /\ w.pc \notin {"find", "create", "upstream"}
         /\ w.pc \in {"count", "insert"} => m.role = "user" /\ "user" \notin w.left
    /\ w.pc = "insert" => w.count = Cardinality(Rows(w.session))
    /\ w.pc \notin {"get", "update"}

Onward == turns' \in Nat /\ turns <= turns' /\ (sessionFaults' = 0 => sessionFaults = 0)

\* The rows stay, or a new one is made.
RowsMade ==
    \A s \in SessionIds : \/ sessionRow'[s] = sessionRow[s]
                          \/ /\ sessionRow[s] = NoSession
                             /\ sessionRow'[s].count = 0 /\ sessionRow'[s].tokens = 0

LEMMA QuietAttempts ==
    ASSUME SessionTypes, SessionInv, NEW r \in Requests, NEW w \in Served, Turned(r, w),
           Onward, Fits(r, w), RowsMade
    PROVE  \A p \in Requests : AttemptInv(p)'
<1>1. request'[r] = w /\ \A p \in Requests : p # r => request'[p] = request[p]
  BY Others
<1>2. /\ turns \in Nat /\ turns' \in Nat /\ turns <= turns'
      /\ \A p \in Requests : request[p].turn \in Nat /\ request[p].turn <= turns
  BY DEF Onward, SessionTypes, SessionInv, AttemptInv, Served
<1>3. \A p \in Requests : p # r /\ request[p].pc # "free" /\ w.pc # "free" => request[p].turn # w.turn
  BY <1>2 DEF Fits, SessionInv, AttemptInv
<1>4. ASSUME NEW p \in Requests, p # r PROVE AttemptInv(p)'
  <2>1. request'[p] = request[p] /\ request[p] \in Served
    BY <1>1, <1>4 DEF SessionTypes
  <2>2. request'[p].turn <= turns'
    BY <1>2, <2>1
  <2>3. request[p].session # NoSession =>
          /\ sessionRow'[request[p].session] # NoSession
          /\ sessionRow'[request[p].session].config = request[p].config
    BY <2>1 DEF SessionInv, AttemptInv, RowsMade, Served
  <2>4. \A q \in Requests : q # p /\ request'[q].pc # "free" /\ request'[p].pc # "free" =>
           request'[q].turn # request'[p].turn
    BY <1>1, <1>3, <1>4 DEF SessionInv, AttemptInv
  <2>. QED BY <2>1, <2>2, <2>3, <2>4 DEF AttemptInv, SessionInv
<1>5. AttemptInv(r)'
  <2>1. w.pc \in Saving => w.left # {} /\ w.session # NoSession
    BY DEF Fits, Saving
  <2>. QED BY <1>1, <1>3, <2>1 DEF Fits, AttemptInv
<1>. QED BY <1>4, <1>5

LEMMA QuietMessages ==
    ASSUME SessionTypes, SessionInv, NEW r \in Requests, NEW w \in Served, Turned(r, w),
           UNCHANGED messages, Onward, Fits(r, w), ~Inserted(r), RowsMade
    PROVE  /\ \A p \in Requests : OwnInv(p)' /\ CountInv(p)'
           /\ \A m \in messages' : MessageInv(m)'
           /\ TurnsInOrder'
<1>1. request'[r] = w /\ \A p \in Requests : p # r => request'[p] = request[p]
  BY Others
<1>2. \A s : Rows(s)' = Rows(s) /\ Settled(s)' = Settled(s)
  BY SettledRest DEF Fits
<1>3. ASSUME NEW p \in Requests, p # r PROVE OwnInv(p)' /\ CountInv(p)'
  <2>1. PICK v : v = request[p] /\ v = request'[p]
    BY <1>1, <1>3
  <2>2. /\ Inserted(p)' = Inserted(p) /\ Role(p)' = Role(p)
        /\ \A m : Own(p, m)' = Own(p, m)
    BY <2>1 DEF Inserted, Own, Role
  <2>3. OwnInv(p) /\ CountInv(p)
    BY DEF SessionInv
  <2>4. OwnInv(p)'
    <3>1. Rows(v.session)' = Rows(v.session)
      BY <1>2
    <3>. QED BY <2>1, <2>2, <2>3, <3>1 DEF OwnInv
  <2>5. CountInv(p)'
    <3>1. Rows(v.session)' = Rows(v.session) /\ Settled(v.session)' = Settled(v.session)
      BY <1>2
    <3>2. SumOf(Settled(v.session))' = SumOf(Settled(v.session))
      BY <3>1 DEF SumOf, TokensOf
    <3>. QED BY <2>1, <2>2, <2>3, <3>1, <3>2 DEF CountInv
  <2>. QED BY <2>4, <2>5
<1>4. OwnInv(r)' /\ CountInv(r)'
  <2>1. ~Inserted(r)' /\ w.pc \notin {"get", "update"}
    BY <1>1 DEF Inserted, Fits
  <2>2. OwnInv(r)'
    BY <1>1, <2>1 DEF OwnInv, Fits
  <2>3. w.pc = "insert" => /\ w.count = Cardinality(Rows(w.session)) /\ w.session \in SessionIds
                           /\ w.count \in Nat
                           /\ \A m \in Rows(w.session) : m.index < w.count
    BY DEF Fits, Served, SessionInv, MessageInv, Rows
  <2>4. Rows(w.session)' = Rows(w.session)
    BY <1>2
  <2>5. CountInv(r)'
    BY <1>1, <2>1, <2>3, <2>4 DEF CountInv
  <2>. QED BY <2>2, <2>5
<1>5. ASSUME NEW m \in messages PROVE MessageInv(m)'
  <2>1. m.session \in SessionIds /\ m.turn \in Nat /\ MessageInv(m)
    BY DEF SessionTypes, Messages, SessionInv
  <2>2. sessionRow'[m.session] # NoSession
    BY <2>1 DEF RowsMade, MessageInv
  <2>3. m.turn <= turns'
    BY <2>1 DEF MessageInv, Onward, SessionTypes
  <2>4. Rows(m.session)' = Rows(m.session)
    BY <1>2
  <2>. QED BY <2>1, <2>2, <2>3, <2>4 DEF MessageInv
<1>6. TurnsInOrder'
  <2>. SUFFICES ASSUME NEW m \in messages
                PROVE  /\ m.config = sessionRow'[m.session].config
                       /\ m.role = "assistant" => \A q \in Rows(m.session) :
                            q.turn = m.turn /\ q.role = "user" => q.index < m.index
    BY DEF TurnsInOrder, Rows
  <2>1. m.session \in SessionIds /\ MessageInv(m)
    BY DEF SessionTypes, Messages, SessionInv
  <2>2. sessionRow'[m.session] = sessionRow[m.session]
    BY <2>1 DEF RowsMade, MessageInv
  <2>. QED BY <2>2 DEF SessionInv, TurnsInOrder
<1>. QED BY <1>3, <1>4, <1>5, <1>6

LEMMA QuietRows ==
    ASSUME SessionTypes, SessionInv, NEW r \in Requests, NEW w \in Served, Turned(r, w),
           UNCHANGED <<messages, part>>, Onward, Fits(r, w), ~Inserted(r), RowsMade
    PROVE  /\ \A s \in SessionIds : RowNeverLeads(s)'
           /\ Serial' => OneServed'
           /\ Serial' /\ sessionFaults' = 0 =>
                (\A s \in SessionIds : ExactRow(s)') /\ (\A p \in Requests : ExactRequest(p)')
<1>1. request'[r] = w /\ \A p \in Requests : p # r => request'[p] = request[p]
  BY Others
<1>2. \A s : Rows(s)' = Rows(s) /\ Settled(s)' = Settled(s)
  BY SettledRest DEF Fits
<1>3. \A s \in SessionIds : /\ Cardinality(Rows(s)) \in Nat /\ Rows(s) \in SUBSET messages
                            /\ SumOf(Settled(s)) \in Nat
  <2>. SUFFICES ASSUME NEW s \in SessionIds
                PROVE  /\ Cardinality(Rows(s)) \in Nat /\ Rows(s) \in SUBSET messages
                       /\ SumOf(Settled(s)) \in Nat
    OBVIOUS
  <2>. QED BY RowsFinite, MessageSums
<1>4. \A s \in SessionIds : SumOf(Settled(s))' = SumOf(Settled(s))
  BY <1>2 DEF SumOf, TokensOf
<1>5. ASSUME NEW s \in SessionIds PROVE RowNeverLeads(s)'
  <2>1. RowNeverLeads(s) /\ Rows(s)' = Rows(s) /\ SumOf(Settled(s))' = SumOf(Settled(s))
    BY <1>2, <1>4 DEF SessionInv
  <2>. QED BY <1>3, <2>1 DEF RowNeverLeads, RowsMade
<1>6. Serial' => OneServed'
  <2>. SUFFICES ASSUME Serial' PROVE OneServed'
    OBVIOUS
  <2>1. Serial /\ OneServed
    BY DEF Serial, SessionInv
  <2>2. CASE request[r].pc = "free" /\ w.pc # "free"
    BY <1>1, <2>1, <2>2 DEF OneServed, Fits, NobodyServed
  <2>3. CASE request[r].pc # "free" \/ w.pc = "free"
    BY <1>1, <2>1, <2>3 DEF OneServed
  <2>. QED BY <2>2, <2>3
<1>7. ASSUME Serial', sessionFaults' = 0, NEW s \in SessionIds PROVE ExactRow(s)'
  <2>1. ExactRow(s)
    BY <1>7 DEF Serial, Onward, SessionInv
  <2>2. CASE sessionRow'[s] = sessionRow[s]
    <3>1. /\ Rows(s)' = Rows(s) /\ Settled(s)' = Settled(s)
          /\ SumOf(Settled(s))' = SumOf(Settled(s))
      BY <1>2, <1>4
    <3>. QED BY <2>1, <2>2, <3>1 DEF ExactRow
  <2>3. CASE sessionRow[s] = NoSession /\ sessionRow'[s].count = 0 /\ sessionRow'[s].tokens = 0
    <3>1. \A m \in messages : m.session # s
      BY <2>3 DEF SessionInv, MessageInv
    <3>2. Rows(s) = {} /\ Settled(s) = {}
      BY <3>1 DEF Rows, Settled
    <3>3. Cardinality({}) = 0 /\ SumOf({}) = 0
      BY FS_EmptySet, SumEmpty DEF SumOf
    <3>4. Rows(s)' = {} /\ Settled(s)' = {} /\ SumOf(Settled(s))' = 0
      BY <1>2, <1>4, <3>2, <3>3
    <3>5. {m.index : m \in {}} = 0 .. Cardinality({}) - 1
      BY <3>3
    <3>. QED BY <2>3, <3>3, <3>4, <3>5 DEF ExactRow
  <2>. QED BY <2>2, <2>3 DEF RowsMade
<1>8. ASSUME Serial', sessionFaults' = 0, NEW p \in Requests PROVE ExactRequest(p)'
  <2>1. ExactRequest(p)
    BY <1>8 DEF Serial, Onward, SessionInv
  <2>2. CASE p = r
    <3>1. Rows(w.session)' = Rows(w.session)
      BY <1>2
    <3>. QED BY <1>1, <2>2, <3>1 DEF ExactRequest, Fits, Inserted
  <2>3. CASE p # r
    <3>1. PICK v : v = request[p] /\ v = request'[p]
      BY <1>1, <2>3
    <3>2. Rows(v.session)' = Rows(v.session) /\ Settled(v.session)' = Settled(v.session)
      BY <1>2
    <3>3. SumOf(Settled(v.session))' = SumOf(Settled(v.session))
      BY <3>2 DEF SumOf, TokensOf
    <3>. QED BY <2>1, <3>1, <3>2, <3>3 DEF ExactRequest, Inserted
  <2>. QED BY <2>2, <2>3
<1>. QED BY <1>5, <1>6, <1>7, <1>8

LEMMA SessionQuiet ==
    ASSUME SessionTypes, SessionInv, NEW r \in Requests, NEW w \in Served, Turned(r, w),
           UNCHANGED <<messages, part>>, Onward, Fits(r, w), ~Inserted(r), RowsMade
    PROVE  SessionInv'
<1>1. \A p \in Requests : AttemptInv(p)'
  BY QuietAttempts
<1>2. /\ \A p \in Requests : OwnInv(p)' /\ CountInv(p)'
      /\ \A m \in messages' : MessageInv(m)'
      /\ TurnsInOrder'
  BY QuietMessages
<1>3. /\ \A s \in SessionIds : RowNeverLeads(s)'
      /\ Serial' => OneServed'
      /\ Serial' /\ sessionFaults' = 0 =>
           (\A s \in SessionIds : ExactRow(s)') /\ (\A p \in Requests : ExactRequest(p)')
  BY QuietRows
<1>. QED BY <1>1, <1>2, <1>3 DEF SessionInv

\* The steps that save nothing.
LEMMA QuietSteps ==
    ASSUME SessionTypes, SessionInv, UNCHANGED part, NEW r \in Requests,
           \/ Begin(r) /\ (Serial /\ request[r].pc = "free" => NobodyServed)
           \/ GetSession(r) \/ CreateSession(r) \/ RequestOver(r)
           \/ \E left \in {{"user"}, {"user", "assistant"}} : Answer(r, left)
           \/ CountSessionMessages(r) \/ (~Inserted(r) /\ SaveFails(r))
    PROVE  SessionInv'
<1>1. /\ AttemptInv(r) /\ OwnInv(r) /\ request[r] \in Served /\ turns \in Nat
      /\ request[r].turn \in Nat /\ sessionFaults \in Nat
  BY DEF SessionInv, SessionTypes, Served
<1>2. SessionFault => sessionFaults' # 0
  BY <1>1 DEF SessionFault
<1>3. UNCHANGED turns /\ (UNCHANGED sessionFaults \/ SessionFault) => Onward
  BY <1>1, <1>2 DEF Onward
<1>4. UNCHANGED sessionRow => RowsMade
  BY DEF RowsMade
<1>f. UNCHANGED turns => Fits(r, Free)
  <2>1. PICK f : f = Free /\ f.pc = "free" /\ f.session = NoSession /\ f.turn = 0
    BY FreeServed
  <2>2. UNCHANGED turns => Fits(r, f)
    BY <1>1, <2>1 DEF Fits
  <2>. QED BY <2>1, <2>2
<1>5. CASE Begin(r) /\ (Serial /\ request[r].pc = "free" => NobodyServed)
  <2>1. PICK w \in Served :
             /\ Turned(r, w) /\ request[r].pc \in {"free", "upstream"}
             /\ w.pc = "find" /\ w.session = NoSession /\ w.config \in SessionConfigs
             /\ w.turn = turns + 1 /\ turns' = turns + 1
             /\ UNCHANGED <<sessionRow, messages, sessionFaults>>
    BY <1>5, AttemptStep
  <2>2. \A m \in messages : m.turn # w.turn
    BY <1>1, <2>1 DEF SessionTypes, Messages, SessionInv, MessageInv
  <2>3. Fits(r, w)
    BY <1>1, <1>5, <2>1, <2>2 DEF Fits
  <2>4. Onward /\ ~Inserted(r)
    BY <1>1, <2>1 DEF Onward, Inserted
  <2>. QED BY <1>4, <2>1, <2>3, <2>4, SessionQuiet
<1>6. CASE GetSession(r)
  <2>1. PICK w \in Served :
             /\ Turned(r, w) /\ request[r].pc = "find" /\ w.pc \in {"upstream", "create"}
             /\ w.turn = request[r].turn /\ w.config = request[r].config
             /\ \/ w.session = request[r].session
                \/ w.session # NoSession =>
                     /\ w.session \in SessionIds /\ sessionRow[w.session] # NoSession
                     /\ sessionRow[w.session].config = w.config
             /\ sessionFaults' = sessionFaults \/ SessionFault
             /\ UNCHANGED <<sessionRow, messages, turns>>
    BY <1>6, GetSessionStep
  <2>2. Fits(r, w)
    BY <1>1, <2>1 DEF Fits, AttemptInv, OwnInv
  <2>. QED BY <1>3, <1>4, <2>1, <2>2, SessionQuiet DEF Inserted
<1>7. CASE CreateSession(r)
  <2>1. PICK w \in Served :
             /\ Turned(r, w) /\ request[r].pc = "create" /\ w.pc = "upstream"
             /\ w.turn = request[r].turn /\ w.config = request[r].config
             /\ \/ /\ w.session = request[r].session /\ UNCHANGED sessionRow
                \/ /\ w.session \in SessionIds /\ sessionRow[w.session] = NoSession
                   /\ sessionRow' = [sessionRow EXCEPT ![w.session] =
                                       [config |-> w.config, count |-> 0, tokens |-> 0]]
             /\ sessionFaults' = sessionFaults \/ SessionFault
             /\ UNCHANGED <<messages, turns>>
    BY <1>7, CreateSessionStep
  <2>2. CASE w.session = request[r].session /\ UNCHANGED sessionRow
    <3>1. Fits(r, w)
      BY <1>1, <2>1, <2>2 DEF Fits, AttemptInv, OwnInv
    <3>. QED BY <1>3, <1>4, <2>1, <2>2, <3>1, SessionQuiet DEF Inserted
  <2>3. CASE /\ w.session \in SessionIds /\ sessionRow[w.session] = NoSession
             /\ sessionRow' = [sessionRow EXCEPT ![w.session] =
                                       [config |-> w.config, count |-> 0, tokens |-> 0]]
    <3>. DEFINE new == [config |-> w.config, count |-> 0, tokens |-> 0]
    <3>1. new \in SessionRows /\ new.config = w.config /\ new.count = 0 /\ new.tokens = 0
      BY <1>1, <2>1 DEF SessionRows, AttemptInv
    <3>2. new # NoSession
      BY <3>1, SessionsAssumption DEF SessionRows
    <3>. HIDE DEF new
    <3>3. /\ sessionRow'[w.session] = new
          /\ \A s \in SessionIds : s # w.session => sessionRow'[s] = sessionRow[s]
      BY <2>3 DEF new, SessionTypes
    <3>4. RowsMade
      BY <2>3, <3>1, <3>3 DEF RowsMade
    <3>5. Fits(r, w)
      BY <1>1, <2>1, <3>1, <3>2, <3>3 DEF Fits, AttemptInv, OwnInv
    <3>. QED BY <1>3, <2>1, <3>4, <3>5, SessionQuiet DEF Inserted
  <2>. QED BY <2>1, <2>2, <2>3
<1>8. CASE RequestOver(r)
  <2>1. Turned(r, Free) /\ request[r].pc = "upstream"
    BY <1>8 DEF RequestOver, Turned
  <2>2. Fits(r, Free)
    BY <1>8, <1>f DEF RequestOver
  <2>. QED BY <1>3, <1>4, <1>8, <2>1, <2>2, FreeServed, SessionQuiet DEF Inserted, RequestOver
<1>9. CASE \E left \in {{"user"}, {"user", "assistant"}} : Answer(r, left)
  <2>1. PICK left \in {{"user"}, {"user", "assistant"}}, w \in Served :
             /\ Turned(r, w) /\ request[r].pc = "upstream" /\ w.pc = "count"
             /\ w.turn = request[r].turn /\ w.config = request[r].config
             /\ w.session = request[r].session /\ w.session # NoSession /\ w.left = left
             /\ UNCHANGED <<sessionRow, messages, turns, sessionFaults>>
    BY <1>9, AnswerStep
  <2>2. Fits(r, w)
    BY <1>1, <2>1 DEF Fits, AttemptInv, OwnInv
  <2>. QED BY <1>3, <1>4, <2>1, <2>2, SessionQuiet DEF Inserted
<1>10. CASE CountSessionMessages(r)
  <2>1. PICK w \in Served :
             /\ Turned(r, w) /\ request[r].pc = "count" /\ w.pc = "insert"
             /\ w.turn = request[r].turn /\ w.config = request[r].config
             /\ w.session = request[r].session /\ w.left = request[r].left
             /\ w.count = Cardinality(Rows(request[r].session))
             /\ UNCHANGED <<sessionRow, messages, turns, sessionFaults>>
    BY <1>10, CountStep
  <2>2. Fits(r, w)
    BY <1>1, <2>1 DEF Fits, AttemptInv, OwnInv, Saving
  <2>. QED BY <1>3, <1>4, <2>1, <2>2, SessionQuiet DEF Inserted
<1>11. CASE ~Inserted(r) /\ SaveFails(r)
  <2>1. PICK w \in Served :
             /\ Turned(r, w)
             /\ \/ w = Free
                \/ /\ w.pc = "count" /\ w.left = request[r].left \ {Role(r)} /\ w.left # {}
                   /\ w.session = request[r].session /\ w.config = request[r].config
                   /\ w.turn = request[r].turn
    BY <1>11, NextMessages DEF SaveFails
  <2>2. request[r].pc \in {"count", "insert"}
    BY <1>11 DEF SaveFails, Inserted
  <2>3. CASE w = Free
    BY <1>3, <1>4, <1>11, <1>f, <2>1, <2>3, FreeServed, SessionQuiet DEF SaveFails
  <2>4. CASE w # Free
    <3>1. \A m \in messages : m.turn = w.turn => m.role = "user" /\ "user" \notin w.left
      BY <2>1, <2>2, <2>4, <1>1 DEF OwnInv
    <3>2. Fits(r, w)
      BY <1>1, <1>11, <2>1, <2>2, <2>4, <3>1 DEF Fits, AttemptInv, Saving, SaveFails
    <3>. QED BY <1>3, <1>4, <1>11, <2>1, <3>2, SessionQuiet DEF SaveFails
  <2>. QED BY <2>3, <2>4
<1>. QED BY <1>5, <1>6, <1>7, <1>8, <1>9, <1>10, <1>11

-----------------------------------------------------------------------------
(* Saving                                                                  *)

\* The attempts, while one of them saves.
LEMMA SavingAttempts ==
    ASSUME SessionTypes, SessionInv, NEW r \in Requests, NEW w \in Served, Turned(r, w),
           UNCHANGED <<turns, part>>, request[r].pc \in Saving,
           \/ w = Free
           \/ /\ w.pc \in Saving /\ w.left # {} /\ w.turn = request[r].turn
              /\ w.config = request[r].config /\ w.session = request[r].session,
           \A s \in SessionIds : sessionRow[s] # NoSession =>
             sessionRow'[s] # NoSession /\ sessionRow'[s].config = sessionRow[s].config
    PROVE  /\ \A p \in Requests : AttemptInv(p)'
           /\ Serial' => OneServed'
<1>1. request'[r] = w /\ \A p \in Requests : p # r => request'[p] = request[p]
  BY Others
<1>2. \A p \in Requests : p # r => /\ request'[p].pc = request[p].pc
                                   /\ request'[p].turn = request[p].turn
  BY <1>1
<1>3. request[r].pc # "free" /\ AttemptInv(r) /\ turns \in Nat
  BY DEF Saving, SessionInv, SessionTypes
<1>4. w.pc # "free" => w.turn = request[r].turn
  BY FreeServed
<1>5. ASSUME NEW p \in Requests, p # r PROVE AttemptInv(p)'
  <2>1. request'[p] = request[p] /\ request[p] \in Served /\ AttemptInv(p)
    BY <1>1, <1>5 DEF SessionTypes, SessionInv
  <2>2. request[p].session # NoSession =>
          /\ sessionRow'[request[p].session] # NoSession
          /\ sessionRow'[request[p].session].config = request[p].config
    BY <2>1 DEF AttemptInv, Served
  <2>3. \A q \in Requests : q # p /\ request'[q].pc # "free" /\ request'[p].pc # "free" =>
           request'[q].turn # request'[p].turn
    BY <1>1, <1>3, <1>4, <1>5, <2>1 DEF AttemptInv
  <2>. QED BY <2>1, <2>2, <2>3 DEF AttemptInv
<1>6. CASE w = Free
  <2>1. AttemptInv(r)'
    <3>1. PICK f : f = Free /\ f.pc = "free" /\ f.session = NoSession /\ f.turn = 0
      BY FreeServed
    <3>2. request'[r] = f /\ turns' \in Nat
      BY <1>1, <1>3, <1>6, <3>1
    <3>. QED BY <3>1, <3>2 DEF AttemptInv, Saving
  <2>2. w.pc = "free"
    BY <1>6, FreeServed
  <2>3. Serial' => OneServed'
    BY <1>2, <1>1, <2>2 DEF SessionInv, OneServed, Serial
  <2>. QED BY <1>5, <2>1, <2>3
<1>7. CASE /\ w.pc \in Saving /\ w.left # {} /\ w.turn = request[r].turn
           /\ w.config = request[r].config /\ w.session = request[r].session
  <2>1. w.session # NoSession =>
          /\ sessionRow'[w.session] # NoSession /\ sessionRow'[w.session].config = w.config
    BY <1>3, <1>7 DEF AttemptInv, Served
  <2>2. \A p \in Requests : p # r /\ request'[p].pc # "free" => request'[p].turn # w.turn
    BY <1>1, <1>3, <1>7 DEF AttemptInv
  <2>3. AttemptInv(r)'
    <3>1. request'[r] = w /\ w.turn <= turns' /\ w.config \in SessionConfigs
      BY <1>1, <1>3, <1>7 DEF AttemptInv, Saving
    <3>2. w.pc \in Saving => w.left # {} /\ w.session # NoSession
      BY <1>3, <1>7 DEF AttemptInv
    <3>. QED BY <2>1, <2>2, <3>1, <3>2 DEF AttemptInv
  <2>4. Serial' => OneServed'
    BY <1>1, <1>3 DEF SessionInv, OneServed, Serial
  <2>. QED BY <1>5, <2>3, <2>4
<1>. QED BY <1>6, <1>7

\* A message goes in: it is new, of this attempt, and not settled yet.
NewMessage(r, w, n) ==
    /\ Turned(r, w) /\ request[r].pc = "insert" /\ w.pc = "get"
    /\ w.turn = request[r].turn /\ w.config = request[r].config
    /\ w.session = request[r].session /\ w.left = request[r].left
    /\ w.count = request[r].count
    /\ UNCHANGED <<sessionRow, turns, sessionFaults>>
    /\ messages' = messages \union {n} /\ n \notin messages
    /\ n.session = w.session /\ n.index = w.count /\ n.role = Role(r)
    /\ n.turn = w.turn /\ n.config = w.config
    /\ w.session \in SessionIds /\ w.left # {}
    /\ \A m \in messages : m.turn = w.turn => m.role = "user" /\ Role(r) # "user"

LEMMA InsertsNew ==
    ASSUME SessionTypes, SessionInv, NEW r \in Requests, CreateSessionMessage(r)
    PROVE  \E w \in Served, n \in Messages : NewMessage(r, w, n)
<1>1. PICK w \in Served :
             /\ Turned(r, w) /\ request[r].pc = "insert" /\ w.pc = "get"
             /\ w.turn = request[r].turn /\ w.config = request[r].config
             /\ w.session = request[r].session /\ w.left = request[r].left
             /\ w.count = request[r].count
             /\ UNCHANGED <<sessionRow, turns, sessionFaults>>
  BY InsertStep
<1>2. AttemptInv(r) /\ OwnInv(r)
  BY DEF SessionInv
<1>3. /\ w.session \in SessionIds /\ w.config \in SessionConfigs /\ w.left # {}
  BY <1>1, <1>2 DEF AttemptInv, Served, Saving
<1>. DEFINE n == [session |-> request[r].session, index |-> request[r].count,
                  role |-> Role(r), turn |-> request[r].turn, config |-> request[r].config]
<1>4. n \in Messages
  BY <1>1, <1>3, RoleIn DEF Messages, Served
<1>5. /\ n.session = w.session /\ n.index = w.count /\ n.role = Role(r)
      /\ n.turn = w.turn /\ n.config = w.config
  BY <1>1
<1>6. messages' = messages \union {n}
  BY DEF CreateSessionMessage
<1>. HIDE DEF n
<1>7. \A m \in messages : m.turn = w.turn => m.role = "user" /\ Role(r) # "user"
  BY <1>1, <1>2 DEF OwnInv, Role
<1>8. n \notin messages
  BY <1>5, <1>7
<1>. QED BY <1>1, <1>3, <1>4, <1>5, <1>6, <1>7, <1>8 DEF NewMessage

LEMMA NewRows ==
    ASSUME SessionTypes, SessionInv, NEW r \in Requests, NEW w \in Served, NEW n \in Messages,
           NewMessage(r, w, n)
    PROVE  /\ \A s : s # w.session => Rows(s)' = Rows(s)
           /\ Rows(w.session)' = Rows(w.session) \union {n} /\ n \notin Rows(w.session)
           /\ Cardinality(Rows(w.session)') = Cardinality(Rows(w.session)) + 1
           /\ \A s : Settled(s)' = Settled(s)
           /\ \A s : Cardinality(Rows(s)) \in Nat
<1>1. request'[r] = w /\ \A p \in Requests : p # r => request'[p] = request[p]
  BY Others DEF NewMessage
<1>2. \A s : s # w.session => Rows(s)' = Rows(s)
  BY DEF NewMessage, Rows
<1>3. Rows(w.session)' = Rows(w.session) \union {n} /\ n \notin Rows(w.session)
  BY DEF NewMessage, Rows
<1>4. Cardinality(Rows(w.session)') = Cardinality(Rows(w.session)) + 1
  BY <1>3, RowsFinite, FS_AddElement
<1>5. Inserted(r)' /\ ~Inserted(r) /\ \A m : Own(r, m)' <=> m.turn = w.turn /\ m.role = Role(r)
  BY <1>1 DEF NewMessage, Inserted, Own, Role
<1>6. \A p \in Requests : p # r => /\ Inserted(p)' = Inserted(p)
                                   /\ \A m : Own(p, m)' = Own(p, m)
  BY <1>1 DEF Inserted, Own, Role
<1>7. ASSUME NEW s PROVE Settled(s)' = Settled(s)
  <2>1. \A m \in messages : ~Own(r, m)'
    BY <1>5 DEF NewMessage
  <2>2. Own(r, n)'
    BY <1>5 DEF NewMessage
  <2>3. ASSUME NEW m \in messages
        PROVE  (\A p \in Requests : Inserted(p)' => ~Own(p, m)')
               <=> (\A p \in Requests : Inserted(p) => ~Own(p, m))
    BY <1>5, <1>6, <2>1
  <2>4. Settled(s)' \subseteq Settled(s)
    BY <1>5, <2>2, <2>3 DEF Settled, Rows, NewMessage
  <2>5. Settled(s) \subseteq Settled(s)'
    BY <2>3 DEF Settled, Rows, NewMessage
  <2>. QED BY <2>4, <2>5
<1>8. \A s : Cardinality(Rows(s)) \in Nat
  BY RowsFinite
<1>. QED BY <1>2, <1>3, <1>4, <1>7, <1>8

LEMMA InsertRequests ==
    ASSUME SessionTypes, SessionInv, UNCHANGED part, NEW r \in Requests, NEW w \in Served,
           NEW n \in Messages, NewMessage(r, w, n)
    PROVE  \A p \in Requests : OwnInv(p)' /\ CountInv(p)'
<1>1. request'[r] = w /\ \A p \in Requests : p # r => request'[p] = request[p]
  BY Others DEF NewMessage
<1>2. /\ \A s : s # w.session => Rows(s)' = Rows(s)
      /\ Rows(w.session)' = Rows(w.session) \union {n} /\ n \notin Rows(w.session)
      /\ Cardinality(Rows(w.session)') = Cardinality(Rows(w.session)) + 1
      /\ \A s : Settled(s)' = Settled(s)
      /\ \A s : Cardinality(Rows(s)) \in Nat
  BY NewRows
<1>3. messages' = messages \union {n} /\ n \notin messages /\ n.turn = w.turn
      /\ n.role = Role(r) /\ n.session = w.session
  BY DEF NewMessage
<1>4. ASSUME NEW p \in Requests, p # r PROVE OwnInv(p)' /\ CountInv(p)'
  <2>1. PICK v \in Served : v = request[p] /\ v = request'[p]
    BY <1>1, <1>4 DEF SessionTypes
  <2>2. /\ Inserted(p)' = Inserted(p) /\ Role(p)' = Role(p)
        /\ \A m : Own(p, m)' = Own(p, m)
    BY <2>1 DEF Inserted, Own, Role
  <2>3. OwnInv(p) /\ CountInv(p)
    BY DEF SessionInv
  <2>4. v.pc # "free" => n.turn # v.turn
    <3>1. request[r].pc # "free" /\ w.turn = request[r].turn
      BY DEF NewMessage
    <3>2. AttemptInv(r)
      BY DEF SessionInv
    <3>. QED BY <1>3, <1>4, <2>1, <3>1, <3>2 DEF AttemptInv
  <2>5. Rows(v.session) \subseteq Rows(v.session)'
    BY <1>2
  <2>6. Inserted(p) => v.pc # "free"
    BY <2>1 DEF Inserted
  <2>7. OwnInv(p)'
    <3>1. \A m \in messages' : m.turn = v.turn =>
         /\ v.pc \notin {"find", "create", "upstream"}
         /\ v.pc \in {"count", "insert"} => m.role = "user" /\ "user" \notin v.left
         /\ Inserted(p) /\ "user" \in v.left => m.role = "user"
      BY <1>3, <2>1, <2>3, <2>4, <2>6 DEF OwnInv
    <3>2. Inserted(p) => \E k \in Rows(v.session)' : \A m \in messages' : Own(p, m) <=> m = k
      <4>. SUFFICES ASSUME Inserted(p)
                    PROVE  \E k \in Rows(v.session)' : \A m \in messages' : Own(p, m) <=> m = k
        OBVIOUS
      <4>1. PICK k \in Rows(v.session) : \A m \in messages : Own(p, m) <=> m = k
        BY <2>1, <2>3 DEF OwnInv
      <4>2. ~Own(p, n)
        BY <2>1, <2>4, <2>6 DEF Own
      <4>3. k # n
        BY <1>3, <4>1 DEF Rows
      <4>4. \A m \in messages' : Own(p, m) <=> m = k
        BY <1>3, <4>1, <4>2, <4>3
      <4>. QED BY <2>5, <4>4
    <3>. QED BY <2>1, <2>2, <3>1, <3>2 DEF OwnInv
  <2>8. CountInv(p)'
    <3>1. PICK a \in Nat, b \in Nat : /\ a = Cardinality(Rows(v.session)) /\ b = Cardinality(Rows(v.session)')
                                      /\ a <= b
      <4>1. CASE v.session = w.session
        BY <1>2, <4>1
      <4>2. CASE v.session # w.session
        BY <1>2, <4>2
      <4>. QED BY <4>1, <4>2
    <3>2. v.count \in Nat
      BY DEF Served
    <3>3. SumOf(Settled(v.session))' = SumOf(Settled(v.session))
      BY <1>2 DEF SumOf, TokensOf
    <3>4. v.pc = "insert" => \A m \in Rows(v.session)' : m.turn = v.turn => m.index < v.count
      <4>1. Rows(v.session)' \subseteq Rows(v.session) \union {n}
        BY <1>2
      <4>. QED BY <2>1, <2>3, <2>4, <4>1 DEF CountInv
    <3>5. v.pc = "insert" => v.count <= b
      BY <2>1, <2>3, <3>1, <3>2 DEF CountInv
    <3>6. Inserted(p) => v.count < b
      BY <2>1, <2>3, <3>1, <3>2 DEF CountInv
    <3>. QED BY <2>1, <2>2, <2>3, <3>1, <3>3, <3>4, <3>5, <3>6 DEF CountInv
  <2>. QED BY <2>7, <2>8
<1>5. OwnInv(r)' /\ CountInv(r)'
  <2>1. Inserted(r)' /\ w.pc = "get" /\ \A m : Own(r, m)' <=> m.turn = w.turn /\ m.role = Role(r)
    BY <1>1 DEF NewMessage, Inserted, Own, Role
  <2>2. \A m \in messages' : Own(r, m)' <=> m = n
    BY <1>3, <2>1 DEF NewMessage
  <2>3. n \in Rows(w.session)'
    BY <1>2
  <2>4. "user" \in w.left => Role(r) = "user"
    BY DEF NewMessage, Role
  <2>5. \A m \in messages' : m.turn = w.turn /\ "user" \in w.left => m.role = "user"
    BY <1>3, <2>4 DEF NewMessage
  <2>6. OwnInv(r)'
    BY <1>1, <2>1, <2>2, <2>3, <2>5 DEF OwnInv
  <2>7. w.count <= Cardinality(Rows(w.session)) /\ w.count \in Nat
    BY DEF NewMessage, SessionInv, CountInv, Served
  <2>8. w.count < Cardinality(Rows(w.session)')
    BY <1>2, <2>7
  <2>9. CountInv(r)'
    BY <1>1, <2>1, <2>8 DEF CountInv
  <2>. QED BY <2>6, <2>9
<1>. QED BY <1>4, <1>5

LEMMA InsertMessages ==
    ASSUME SessionTypes, SessionInv, UNCHANGED part, NEW r \in Requests, NEW w \in Served,
           NEW n \in Messages, NewMessage(r, w, n)
    PROVE  /\ \A m \in messages' : MessageInv(m)'
           /\ TurnsInOrder'
<1>1. /\ \A s : s # w.session => Rows(s)' = Rows(s)
      /\ Rows(w.session)' = Rows(w.session) \union {n} /\ n \notin Rows(w.session)
      /\ Cardinality(Rows(w.session)') = Cardinality(Rows(w.session)) + 1
      /\ \A s : Cardinality(Rows(s)) \in Nat
  BY NewRows
<1>2. messages' = messages \union {n} /\ n \notin messages /\ n.turn = w.turn
      /\ n.role = Role(r) /\ n.session = w.session /\ n.index = w.count /\ n.config = w.config
      /\ UNCHANGED <<sessionRow, turns>>
  BY DEF NewMessage
<1>3. /\ sessionRow[w.session] # NoSession /\ sessionRow[w.session].config = w.config
      /\ w.turn <= turns /\ w.count <= Cardinality(Rows(w.session)) /\ w.count \in Nat
      /\ \A m \in Rows(w.session) : m.turn = w.turn => m.index < w.count
  <2>1. AttemptInv(r) /\ CountInv(r) /\ w.session # NoSession
    BY SessionsAssumption DEF SessionInv, NewMessage
  <2>. QED BY <2>1 DEF NewMessage, AttemptInv, CountInv, Served
<1>4. MessageInv(n)'
  <2>1. PICK k \in Nat : k = Cardinality(Rows(w.session)) /\ Cardinality(Rows(w.session)') = k + 1
    BY <1>1
  <2>2. n.index < Cardinality(Rows(n.session)')
    BY <1>2, <1>3, <2>1
  <2>. QED BY <1>2, <1>3, <2>2 DEF MessageInv
<1>5. ASSUME NEW m \in messages PROVE MessageInv(m)'
  <2>1. MessageInv(m) /\ m.index \in Nat
    BY DEF SessionInv, SessionTypes, Messages
  <2>2. m.index < Cardinality(Rows(m.session)')
    <3>1. CASE m.session = w.session
      <4>1. PICK k \in Nat : /\ k = Cardinality(Rows(w.session))
                             /\ Cardinality(Rows(w.session)') = k + 1
        BY <1>1
      <4>. QED BY <2>1, <3>1, <4>1 DEF MessageInv
    <3>2. CASE m.session # w.session
      BY <1>1, <2>1, <3>2 DEF MessageInv
    <3>. QED BY <3>1, <3>2
  <2>. QED BY <1>2, <2>1, <2>2 DEF MessageInv
<1>6. TurnsInOrder'
  <2>. SUFFICES ASSUME NEW m \in messages'
                PROVE  /\ m.config = sessionRow'[m.session].config
                       /\ m.role = "assistant" => \A q \in messages' :
                            q.session = m.session /\ q.turn = m.turn /\ q.role = "user" =>
                              q.index < m.index
    BY DEF TurnsInOrder, Rows
  <2>1. CASE m = n
    <3>1. m.config = sessionRow'[m.session].config
      BY <1>2, <1>3, <2>1
    <3>2. ASSUME NEW q \in messages', m.role = "assistant", q.session = m.session,
                 q.turn = m.turn, q.role = "user"
          PROVE  q.index < m.index
      <4>1. q # n
        BY <2>1, <3>2
      <4>2. q \in Rows(w.session)
        BY <1>2, <2>1, <3>2, <4>1 DEF Rows
      <4>. QED BY <1>2, <1>3, <2>1, <3>2, <4>2
    <3>. QED BY <3>1, <3>2
  <2>2. CASE m \in messages
    <3>1. m.config = sessionRow'[m.session].config
      BY <1>2, <2>2 DEF SessionInv, TurnsInOrder
    <3>2. ASSUME NEW q \in messages', m.role = "assistant", q.session = m.session,
                 q.turn = m.turn, q.role = "user"
          PROVE  q.index < m.index
      <4>1. m.turn # w.turn
        BY <2>2, <3>2 DEF NewMessage
      <4>2. q \in Rows(m.session)
        BY <1>2, <3>2, <4>1 DEF Rows
      <4>. QED BY <2>2, <3>2, <4>2 DEF SessionInv, TurnsInOrder
    <3>. QED BY <3>1, <3>2
  <2>. QED BY <1>2, <2>1, <2>2
<1>. QED BY <1>2, <1>4, <1>5, <1>6

LEMMA InsertRows ==
    ASSUME SessionTypes, SessionInv, UNCHANGED part, NEW r \in Requests, NEW w \in Served,
           NEW n \in Messages, NewMessage(r, w, n)
    PROVE  /\ \A s \in SessionIds : RowNeverLeads(s)'
           /\ Serial' /\ sessionFaults' = 0 =>
                (\A s \in SessionIds : ExactRow(s)') /\ (\A p \in Requests : ExactRequest(p)')
<1>1. request'[r] = w /\ \A p \in Requests : p # r => request'[p] = request[p]
  BY Others DEF NewMessage
<1>2. /\ \A s : s # w.session => Rows(s)' = Rows(s)
      /\ Rows(w.session)' = Rows(w.session) \union {n} /\ n \notin Rows(w.session)
      /\ Cardinality(Rows(w.session)') = Cardinality(Rows(w.session)) + 1
      /\ \A s : Settled(s)' = Settled(s)
      /\ \A s : Cardinality(Rows(s)) \in Nat
  BY NewRows
<1>3. \A s : SumOf(Settled(s))' = SumOf(Settled(s))
  BY <1>2 DEF SumOf, TokensOf
<1>4. sessionRow' = sessionRow /\ sessionFaults' = sessionFaults
  BY DEF NewMessage
<1>5. ASSUME NEW s \in SessionIds PROVE RowNeverLeads(s)'
  <2>1. RowNeverLeads(s) /\ SumOf(Settled(s))' = SumOf(Settled(s))
    BY <1>3 DEF SessionInv
  <2>2. sessionRow[s] # NoSession => sessionRow[s].count \in Nat
    BY DEF SessionTypes, SessionRows
  <2>3. sessionRow[s] # NoSession => sessionRow[s].count <= Cardinality(Rows(s)')
    <3>1. CASE s = w.session
      <4>1. PICK k \in Nat : /\ k = Cardinality(Rows(w.session))
                             /\ Cardinality(Rows(w.session)') = k + 1
        BY <1>2
      <4>. QED BY <2>1, <2>2, <3>1, <4>1 DEF RowNeverLeads
    <3>2. CASE s # w.session
      BY <1>2, <2>1, <3>2 DEF RowNeverLeads
    <3>. QED BY <3>1, <3>2
  <2>. QED BY <1>4, <2>1, <2>3 DEF RowNeverLeads
<1>6. ASSUME Serial', sessionFaults' = 0
      PROVE  (\A s \in SessionIds : ExactRow(s)') /\ (\A p \in Requests : ExactRequest(p)')
  <2>1. /\ \A s \in SessionIds : ExactRow(s)
        /\ \A p \in Requests : ExactRequest(p)
        /\ OneServed
    BY <1>4, <1>6 DEF Serial, SessionInv
  <2>2. w.count = Cardinality(Rows(w.session))
    BY <2>1 DEF ExactRequest, NewMessage
  <2>3. ASSUME NEW s \in SessionIds PROVE ExactRow(s)'
    <3>1. ExactRow(s) /\ SumOf(Settled(s))' = SumOf(Settled(s)) /\ Settled(s)' = Settled(s)
      BY <1>2, <1>3, <2>1
    <3>2. sessionRow[s] # NoSession =>
            {m.index : m \in Rows(s)'} = 0 .. Cardinality(Rows(s)') - 1
      <4>1. CASE s = w.session
        <5>1. {m.index : m \in Rows(s)'} = {m.index : m \in Rows(s)} \union {w.count}
          BY <1>2, <4>1 DEF NewMessage
        <5>2. PICK k \in Nat : k = Cardinality(Rows(s))
          BY <1>2
        <5>3. Cardinality(Rows(s)') = k + 1 /\ w.count = k
          BY <1>2, <2>2, <4>1, <5>2
        <5>4. sessionRow[s] # NoSession => {m.index : m \in Rows(s)} = 0 .. k - 1
          BY <3>1, <5>2 DEF ExactRow
        <5>5. (0 .. k - 1) \union {k} = 0 .. (k + 1) - 1
          OBVIOUS
        <5>. QED BY <5>1, <5>3, <5>4, <5>5
      <4>2. CASE s # w.session
        BY <1>2, <3>1, <4>2 DEF ExactRow
      <4>. QED BY <4>1, <4>2
    <3>. QED BY <1>4, <3>1, <3>2 DEF ExactRow
  <2>4. ASSUME NEW p \in Requests, p # r PROVE ExactRequest(p)'
    <3>1. request[p].pc = "free"
      BY <2>1, <2>4 DEF OneServed, NewMessage
    <3>. QED BY <1>1, <2>4, <3>1 DEF ExactRequest, Inserted
  <2>5. ExactRequest(r)'
    <3>1. \A p \in Requests : ~Inserted(p)
      BY <2>1 DEF OneServed, NewMessage, Inserted
    <3>2. Settled(w.session) = Rows(w.session)
      BY <3>1 DEF Settled
    <3>3. Settled(w.session)' = Settled(w.session)
      BY <1>2
    <3>. QED BY <1>1, <2>2, <3>2, <3>3 DEF ExactRequest, Inserted, NewMessage
  <2>. QED BY <2>3, <2>4, <2>5
<1>. QED BY <1>5, <1>6

LEMMA InsertKeeps ==
    ASSUME SessionTypes, SessionInv, UNCHANGED part, NEW r \in Requests, CreateSessionMessage(r)
    PROVE  SessionInv'
<1>1. PICK w \in Served, n \in Messages : NewMessage(r, w, n)
  BY InsertsNew
<1>2. \A p \in Requests : OwnInv(p)' /\ CountInv(p)'
  BY <1>1, InsertRequests
<1>3. (\A m \in messages' : MessageInv(m)') /\ TurnsInOrder'
  BY <1>1, InsertMessages
<1>4. /\ \A s \in SessionIds : RowNeverLeads(s)'
      /\ Serial' /\ sessionFaults' = 0 =>
           (\A s \in SessionIds : ExactRow(s)') /\ (\A p \in Requests : ExactRequest(p)')
  BY <1>1, InsertRows
<1>5. (\A p \in Requests : AttemptInv(p)') /\ (Serial' => OneServed')
  <2>1. /\ Turned(r, w) /\ request[r].pc \in Saving /\ w.pc \in Saving /\ w.left # {}
        /\ w.turn = request[r].turn /\ w.config = request[r].config
        /\ w.session = request[r].session /\ UNCHANGED <<turns, sessionRow>>
    BY <1>1 DEF NewMessage, Saving
  <2>. QED BY <2>1, SavingAttempts
<1>. QED BY <1>2, <1>3, <1>4, <1>5 DEF SessionInv

LEMMA ReadKeeps ==
    ASSUME SessionTypes, SessionInv, UNCHANGED part, NEW r \in Requests, ReadSession(r)
    PROVE  SessionInv'
<1>1. PICK w \in Served :
             /\ Turned(r, w) /\ request[r].pc = "get" /\ w.pc = "update"
             /\ w.turn = request[r].turn /\ w.config = request[r].config
             /\ w.session = request[r].session /\ w.left = request[r].left
             /\ w.count = request[r].count
             /\ w.tokens = sessionRow[request[r].session].tokens
             /\ UNCHANGED <<sessionRow, messages, turns, sessionFaults>>
  BY ReadStep
<1>2. request'[r] = w /\ \A p \in Requests : p # r => request'[p] = request[p]
  BY <1>1, Others
<1>3. \A p \in Requests : Inserted(p)' = Inserted(p) /\ Role(p)' = Role(p)
  BY <1>1, <1>2 DEF Inserted, Role
<1>4. \A p \in Requests : request'[p].turn = request[p].turn /\ request'[p].left = request[p].left
                          /\ request'[p].session = request[p].session
  BY <1>1, <1>2
<1>5. \A s : Rows(s)' = Rows(s) /\ Settled(s)' = Settled(s)
  BY <1>1, <1>3, <1>4, SettledStays
<1>6. \A s : SumOf(Settled(s))' = SumOf(Settled(s))
  BY <1>5 DEF SumOf, TokensOf
<1>7. w.session \in SessionIds /\ sessionRow[w.session] # NoSession
      /\ request[r].pc \in Saving /\ request[r].left # {}
  BY <1>1, RowThere DEF SessionInv, AttemptInv, Saving
<1>8. (\A p \in Requests : AttemptInv(p)') /\ (Serial' => OneServed')
  <2>1. w.pc \in Saving /\ w.left # {}
    BY <1>1, <1>7 DEF Saving
  <2>. QED BY <1>1, <1>7, <2>1, SavingAttempts
<1>9. ASSUME NEW p \in Requests PROVE OwnInv(p)' /\ CountInv(p)'
  <2>1. OwnInv(p) /\ CountInv(p)
    BY DEF SessionInv
  <2>2. PICK s : s = request[p].session /\ s = request'[p].session
    BY <1>4
  <2>3. Rows(s)' = Rows(s) /\ SumOf(Settled(s))' = SumOf(Settled(s))
    BY <1>5, <1>6
  <2>4. \A m : Own(p, m)' = Own(p, m)
    BY <1>3, <1>4 DEF Own
  <2>5. p # r => request'[p] = request[p]
    BY <1>2
  <2>6. OwnInv(p)'
    <3>1. \A m \in messages : m.turn = request'[p].turn =>
            /\ request'[p].pc \notin {"find", "create", "upstream"}
            /\ request'[p].pc \in {"count", "insert"} =>
                 m.role = "user" /\ "user" \notin request'[p].left
            /\ Inserted(p)' /\ "user" \in request'[p].left => m.role = "user"
      BY <1>1, <1>2, <1>3, <1>4, <2>1 DEF OwnInv
    <3>. QED BY <1>1, <1>3, <2>1, <2>2, <2>3, <2>4, <3>1 DEF OwnInv
  <2>7. CASE p # r
    <3>1. CountInv(p)'
      BY <1>3, <2>1, <2>2, <2>3, <2>5, <2>7 DEF CountInv
    <3>. QED BY <2>6, <3>1
  <2>8. CASE p = r
    <3>1. w.tokens <= SumOf(Settled(w.session))
      BY <1>1, <1>7 DEF SessionInv, RowNeverLeads
    <3>2. w.count < Cardinality(Rows(w.session))
      BY <1>1, <2>1, <2>8 DEF CountInv, Inserted
    <3>3. CountInv(p)'
      BY <1>1, <1>2, <2>2, <2>3, <2>8, <3>1, <3>2 DEF CountInv
    <3>. QED BY <2>6, <3>3
  <2>. QED BY <2>7, <2>8
<1>10. \A m \in messages' : MessageInv(m)'
  BY <1>1, <1>5 DEF SessionInv, MessageInv
<1>11. TurnsInOrder'
  BY <1>1, <1>5 DEF SessionInv, TurnsInOrder
<1>12. ASSUME NEW s \in SessionIds PROVE RowNeverLeads(s)'
  <2>1. RowNeverLeads(s) /\ Rows(s)' = Rows(s) /\ SumOf(Settled(s))' = SumOf(Settled(s))
    BY <1>5, <1>6 DEF SessionInv
  <2>. QED BY <1>1, <2>1 DEF RowNeverLeads
<1>13. ASSUME Serial', sessionFaults' = 0
       PROVE  (\A s \in SessionIds : ExactRow(s)') /\ (\A p \in Requests : ExactRequest(p)')
  <2>1. /\ \A s \in SessionIds : ExactRow(s)
        /\ \A p \in Requests : ExactRequest(p)
    BY <1>1, <1>13 DEF Serial, SessionInv
  <2>2. ASSUME NEW s \in SessionIds PROVE ExactRow(s)'
    <3>1. /\ ExactRow(s) /\ Rows(s)' = Rows(s) /\ Settled(s)' = Settled(s)
          /\ SumOf(Settled(s))' = SumOf(Settled(s))
      BY <1>5, <1>6, <2>1
    <3>. QED BY <1>1, <3>1 DEF ExactRow
  <2>3. ASSUME NEW p \in Requests PROVE ExactRequest(p)'
    <3>1. PICK s : s = request[p].session /\ s = request'[p].session
      BY <1>4
    <3>2. /\ Rows(s)' = Rows(s) /\ Settled(s)' = Settled(s)
          /\ SumOf(Settled(s))' = SumOf(Settled(s)) /\ ExactRequest(p)
      BY <1>5, <1>6, <2>1
    <3>3. CASE p # r
      BY <1>2, <1>3, <3>1, <3>2, <3>3 DEF ExactRequest
    <3>4. CASE p = r
      <4>1. w.tokens = SumOf(Settled(w.session))
        BY <1>1, <1>7, <2>1 DEF ExactRow
      <4>2. w.count = Cardinality(Settled(w.session))
        BY <1>1, <3>2, <3>4 DEF ExactRequest, Inserted
      <4>. QED BY <1>1, <1>2, <3>1, <3>2, <3>4, <4>1, <4>2 DEF ExactRequest
    <3>. QED BY <3>3, <3>4
  <2>. QED BY <2>2, <2>3
<1>. QED BY <1>8, <1>9, <1>10, <1>11, <1>12, <1>13 DEF SessionInv

\* An attempt that has inserted its message n into session s is done with it.
Leaves(r, w, n, s) ==
    /\ Turned(r, w) /\ Inserted(r) /\ UNCHANGED <<messages, turns>>
    /\ s = request[r].session /\ s \in SessionIds /\ sessionRow[s] \in SessionRows
    /\ \/ w = Free
       \/ /\ w.pc = "count" /\ w.left = request[r].left \ {Role(r)} /\ w.left # {}
          /\ w.session = s /\ w.config = request[r].config /\ w.turn = request[r].turn
    /\ n \in Rows(s) /\ \A m \in messages : Own(r, m) <=> m = n
    /\ \/ UNCHANGED sessionRow /\ SessionFault
       \/ /\ request[r].pc = "update" /\ UNCHANGED sessionFaults
          /\ \A t \in SessionIds \ {s} : sessionRow'[t] = sessionRow[t]
          /\ sessionRow'[s] \in SessionRows /\ sessionRow'[s].config = sessionRow[s].config
          /\ sessionRow'[s].count = request[r].count + 1
          /\ sessionRow'[s].tokens = request[r].tokens + Tokens(Role(r))

LEMMA Leaving ==
    ASSUME SessionTypes, SessionInv, NEW r \in Requests,
           UpdateSession(r) \/ (Inserted(r) /\ SaveFails(r))
    PROVE  \E w \in Served, n \in messages, s \in SessionIds : Leaves(r, w, n, s)
<1>1. PICK w \in Served :
             /\ Turned(r, w)
             /\ \/ w = Free
                \/ /\ w.pc = "count" /\ w.left = request[r].left \ {Role(r)} /\ w.left # {}
                   /\ w.session = request[r].session /\ w.config = request[r].config
                   /\ w.turn = request[r].turn
  BY NextMessages DEF SaveFails, UpdateSession
<1>2. Inserted(r) /\ request[r].pc \in Saving /\ UNCHANGED <<messages, turns>>
  BY DEF UpdateSession, SaveFails, Inserted, Saving
<1>3. PICK s \in SessionIds : s = request[r].session /\ sessionRow[s] \in SessionRows
  BY <1>2, RowThere
<1>4. PICK n \in Rows(s) : \A m \in messages : Own(r, m) <=> m = n
  BY <1>2, <1>3 DEF SessionInv, OwnInv
<1>5. CASE SaveFails(r)
  BY <1>1, <1>2, <1>3, <1>4, <1>5 DEF Leaves, SaveFails, Rows
<1>6. CASE UpdateSession(r)
  <2>1. PICK a \in Nat, b \in Nat :
           a = request[r].count + 1 /\ b = request[r].tokens + Tokens(Role(r))
    BY DEF SessionTypes, Served, Tokens
  <2>. DEFINE row == [sessionRow[s] EXCEPT !.count = a, !.tokens = b]
  <2>2. sessionRow' = [sessionRow EXCEPT ![s] = row]
    BY <1>3, <1>6, <2>1 DEF UpdateSession
  <2>3. row \in SessionRows /\ row.config = sessionRow[s].config /\ row.count = a /\ row.tokens = b
    BY <1>3 DEF SessionRows
  <2>. HIDE DEF row
  <2>4. /\ \A t \in SessionIds \ {s} : sessionRow'[t] = sessionRow[t]
        /\ sessionRow'[s] = row
    BY <2>2 DEF SessionTypes
  <2>5. request[r].pc = "update" /\ UNCHANGED sessionFaults
    BY <1>6 DEF UpdateSession
  <2>6. \/ w = Free
        \/ /\ w.pc = "count" /\ w.left = request[r].left \ {Role(r)} /\ w.left # {}
           /\ w.session = s /\ w.config = request[r].config /\ w.turn = request[r].turn
    BY <1>1, <1>3
  <2>. QED BY <1>1, <1>2, <1>3, <1>4, <2>1, <2>3, <2>4, <2>5, <2>6 DEF Leaves, Rows
<1>. QED BY <1>5, <1>6

LEMMA LeftSettled ==
    ASSUME SessionTypes, SessionInv, NEW r \in Requests, NEW w \in Served, NEW n \in messages,
           NEW s \in SessionIds, Leaves(r, w, n, s)
    PROVE  /\ \A t : Rows(t)' = Rows(t)
           /\ \A t : t # s => Settled(t)' = Settled(t)
           /\ Settled(s)' = Settled(s) \union {n} /\ n \notin Settled(s)
           /\ Cardinality(Settled(s)') = Cardinality(Settled(s)) + 1
           /\ SumOf(Settled(s))' = SumOf(Settled(s)) + Tokens(Role(r))
           /\ \A t : /\ SumOf(Settled(t)) \in Nat /\ SumOf(Settled(t))' \in Nat
                     /\ SumOf(Settled(t)) <= SumOf(Settled(t))'
<1>1. request'[r] = w /\ \A p \in Requests : p # r => request'[p] = request[p]
  BY Others DEF Leaves
<1>2. \A t : Rows(t)' = Rows(t)
  BY DEF Rows, Leaves
<1>3. ~Inserted(r)' /\ Inserted(r)
  BY <1>1, FreeServed DEF Leaves, Inserted
<1>4. ASSUME NEW p \in Requests, p # r
      PROVE  /\ Inserted(p)' = Inserted(p)
             /\ \A m : Own(p, m)' = Own(p, m)
             /\ Inserted(p) => ~Own(p, n)
  <2>1. Inserted(p)' = Inserted(p) /\ \A m : Own(p, m)' = Own(p, m)
    BY <1>1, <1>4 DEF Inserted, Own, Role
  <2>2. AttemptInv(r) /\ Own(r, n)
    BY DEF SessionInv, Leaves
  <2>3. Inserted(p) => request[p].turn # request[r].turn
    BY <1>3, <1>4, <2>2 DEF AttemptInv, Inserted
  <2>. QED BY <2>1, <2>2, <2>3 DEF Own
<1>5. \A m \in messages : Own(r, m) <=> m = n
  BY DEF Leaves
<1>6. ASSUME NEW m \in messages
      PROVE  (\A p \in Requests : Inserted(p)' => ~Own(p, m)')
             <=> m = n \/ (\A p \in Requests : Inserted(p) => ~Own(p, m))
  <2>1. CASE m = n
    BY <1>3, <1>4, <2>1
  <2>2. CASE m # n
    BY <1>3, <1>4, <1>5, <2>2
  <2>. QED BY <2>1, <2>2
<1>7. \A t : Settled(t)' = {m \in Rows(t) : m = n \/ m \in Settled(t)}
  BY <1>2, <1>6 DEF Settled, Rows, Leaves
<1>8. n \in Rows(s) /\ \A t : t # s => n \notin Rows(t)
  BY DEF Leaves, Rows
<1>9. n \notin Settled(s)
  BY <1>3, <1>5 DEF Settled
<1>10. Settled(s)' = Settled(s) \union {n}
  BY <1>7, <1>8 DEF Settled
<1>11. \A t : t # s => Settled(t)' = Settled(t)
  BY <1>7, <1>8 DEF Settled
<1>12. Cardinality(Settled(s)') = Cardinality(Settled(s)) + 1
  BY <1>9, <1>10, RowsFinite, FS_AddElement
<1>13. \A t : SumOf(Settled(t)) \in Nat
  <2>. SUFFICES ASSUME NEW t PROVE SumOf(Settled(t)) \in Nat
    OBVIOUS
  <2>. QED BY RowsFinite, MessageSums
<1>14. SumOf(Settled(s) \union {n}) = SumOf(Settled(s)) + TokensOf[n]
  <2>1. \A x \in Settled(s) \union {n} : TokensOf[x] \in Int
    BY TokensTypes, RowsFinite DEF SessionTypes
  <2>2. \A x \in Settled(s) : TokensOf[x] = TokensOf[x]
    OBVIOUS
  <2>. QED BY <1>9, <2>1, <2>2, RowsFinite, SumAdd DEF SumOf
<1>15. TokensOf[n] = Tokens(Role(r)) /\ Tokens(Role(r)) \in Nat
  <2>1. n.role = Role(r)
    BY <1>5 DEF Own
  <2>2. n \in Messages
    BY DEF SessionTypes
  <2>. QED BY <2>1, <2>2, TokensTypes DEF Tokens
<1>16. \A S : SumOf(S)' = SumOf(S)
  BY DEF SumOf, TokensOf
<1>17. SumOf(Settled(s))' = SumOf(Settled(s)) + Tokens(Role(r))
  <2>1. SumOf(Settled(s))' = SumOf(Settled(s) \union {n})
    BY <1>10 DEF SumOf, TokensOf
  <2>. QED BY <1>14, <1>15, <2>1
<1>18. \A t : t # s => SumOf(Settled(t))' = SumOf(Settled(t))
  BY <1>11 DEF SumOf, TokensOf
<1>19. \A t : /\ SumOf(Settled(t)) \in Nat /\ SumOf(Settled(t))' \in Nat
              /\ SumOf(Settled(t)) <= SumOf(Settled(t))'
  <2>. SUFFICES ASSUME NEW t
                PROVE  /\ SumOf(Settled(t)) \in Nat /\ SumOf(Settled(t))' \in Nat
                       /\ SumOf(Settled(t)) <= SumOf(Settled(t))'
    OBVIOUS
  <2>1. PICK a \in Nat, b \in Nat : a = SumOf(Settled(s)) /\ b = Tokens(Role(r))
    BY <1>13, <1>15
  <2>2. CASE t = s
    BY <1>17, <2>1, <2>2
  <2>3. CASE t # s
    BY <1>13, <1>18, <2>3
  <2>. QED BY <2>2, <2>3
<1>. QED BY <1>2, <1>9, <1>10, <1>11, <1>12, <1>17, <1>19

LEMMA LeaveRequests ==
    ASSUME SessionTypes, SessionInv, NEW r \in Requests, NEW w \in Served, NEW n \in messages,
           NEW s \in SessionIds, Leaves(r, w, n, s)
    PROVE  \A p \in Requests : OwnInv(p)' /\ CountInv(p)'
<1>1. request'[r] = w /\ \A p \in Requests : p # r => request'[p] = request[p]
  BY Others DEF Leaves
<1>2. /\ \A t : Rows(t)' = Rows(t)
      /\ \A t : /\ SumOf(Settled(t)) \in Nat /\ SumOf(Settled(t))' \in Nat
                /\ SumOf(Settled(t)) <= SumOf(Settled(t))'
  BY LeftSettled
<1>3. messages' = messages
  BY DEF Leaves
<1>4. ASSUME NEW p \in Requests, p # r PROVE OwnInv(p)' /\ CountInv(p)'
  <2>1. PICK v \in Served : v = request[p] /\ v = request'[p]
    BY <1>1, <1>4 DEF SessionTypes
  <2>2. /\ Inserted(p)' = Inserted(p) /\ Role(p)' = Role(p)
        /\ \A m : Own(p, m)' = Own(p, m)
    BY <2>1 DEF Inserted, Own, Role
  <2>3. OwnInv(p) /\ CountInv(p)
    BY DEF SessionInv
  <2>4. Rows(v.session)' = Rows(v.session)
    BY <1>2
  <2>5. OwnInv(p)'
    BY <1>3, <2>1, <2>2, <2>3, <2>4 DEF OwnInv
  <2>6. PICK a \in Nat, b \in Nat : /\ a = SumOf(Settled(v.session))
                                    /\ b = SumOf(Settled(v.session))' /\ a <= b
    BY <1>2
  <2>7. v.tokens \in Nat
    BY DEF Served
  <2>8. v.pc = "update" => v.tokens <= b
    BY <2>1, <2>3, <2>6, <2>7 DEF CountInv
  <2>9. CountInv(p)'
    BY <2>1, <2>2, <2>3, <2>4, <2>6, <2>8 DEF CountInv
  <2>. QED BY <2>5, <2>9
<1>5. OwnInv(r)' /\ CountInv(r)'
  <2>1. OwnInv(r) /\ request[r] \in Served /\ Inserted(r)
    BY DEF SessionInv, SessionTypes, Leaves
  <2>2. CASE w = Free
    <3>1. w.pc = "free"
      BY <2>2, FreeServed
    <3>. QED BY <1>1, <3>1 DEF OwnInv, CountInv, Inserted
  <2>3. CASE /\ w.pc = "count" /\ w.left = request[r].left \ {Role(r)} /\ w.left # {}
             /\ w.turn = request[r].turn
    <3>1. request[r].left \subseteq {"user", "assistant"}
      BY <2>1 DEF Served, Roles
    <3>2. "user" \in request[r].left /\ "user" \notin w.left
      BY <2>3, <3>1 DEF Role
    <3>3. \A m \in messages : m.turn = w.turn => m.role = "user"
      BY <2>1, <2>3, <3>2 DEF OwnInv
    <3>. QED BY <1>1, <1>3, <2>3, <3>2, <3>3 DEF OwnInv, CountInv, Inserted
  <2>. QED BY <2>2, <2>3 DEF Leaves
<1>. QED BY <1>4, <1>5

LEMMA LeaveRows ==
    ASSUME SessionTypes, SessionInv, UNCHANGED part, NEW r \in Requests, NEW w \in Served,
           NEW n \in messages, NEW s \in SessionIds, Leaves(r, w, n, s)
    PROVE  /\ \A t \in SessionIds : RowNeverLeads(t)'
           /\ Serial' /\ sessionFaults' = 0 =>
                (\A t \in SessionIds : ExactRow(t)') /\ (\A p \in Requests : ExactRequest(p)')
<1>1. request'[r] = w /\ \A p \in Requests : p # r => request'[p] = request[p]
  BY Others DEF Leaves
<1>2. /\ \A t : Rows(t)' = Rows(t)
      /\ \A t : t # s => Settled(t)' = Settled(t)
      /\ Cardinality(Settled(s)') = Cardinality(Settled(s)) + 1
      /\ SumOf(Settled(s))' = SumOf(Settled(s)) + Tokens(Role(r))
      /\ \A t : /\ SumOf(Settled(t)) \in Nat /\ SumOf(Settled(t))' \in Nat
                /\ SumOf(Settled(t)) <= SumOf(Settled(t))'
  BY LeftSettled
<1>3. /\ request[r] \in Served /\ CountInv(r) /\ Inserted(r) /\ request[r].session = s
      /\ sessionFaults \in Nat /\ Cardinality(Rows(s)) \in Nat /\ Tokens(Role(r)) \in Nat
  BY RowsFinite DEF SessionInv, SessionTypes, Leaves, Tokens
<1>4. \A t \in SessionIds : t # s => sessionRow'[t] = sessionRow[t]
  BY DEF Leaves
<1>5. ASSUME NEW t \in SessionIds, sessionRow'[t] = sessionRow[t] PROVE RowNeverLeads(t)'
  <2>1. RowNeverLeads(t) /\ Rows(t)' = Rows(t)
    BY <1>2 DEF SessionInv
  <2>2. PICK a \in Nat, b \in Nat : /\ a = SumOf(Settled(t)) /\ b = SumOf(Settled(t))' /\ a <= b
    BY <1>2
  <2>3. sessionRow[t] # NoSession => sessionRow[t].tokens \in Nat
    BY DEF SessionTypes, SessionRows
  <2>4. sessionRow[t] # NoSession => sessionRow[t].tokens <= b
    BY <2>1, <2>2, <2>3 DEF RowNeverLeads
  <2>. QED BY <1>5, <2>1, <2>2, <2>4 DEF RowNeverLeads
<1>6. ASSUME request[r].pc = "update", sessionRow'[s].count = request[r].count + 1,
             sessionRow'[s].tokens = request[r].tokens + Tokens(Role(r))
      PROVE  RowNeverLeads(s)'
  <2>1. /\ request[r].count < Cardinality(Rows(s)) /\ request[r].tokens <= SumOf(Settled(s))
        /\ request[r].count \in Nat /\ request[r].tokens \in Nat
    BY <1>3, <1>6 DEF CountInv, Served
  <2>2. sessionRow'[s].count <= Cardinality(Rows(s))
    BY <1>3, <1>6, <2>1
  <2>3. PICK a \in Nat, b \in Nat, c \in Nat :
           a = SumOf(Settled(s)) /\ b = Tokens(Role(r)) /\ c = SumOf(Settled(s))'
    BY <1>2, <1>3
  <2>4. c = a + b
    BY <1>2, <2>3
  <2>5. sessionRow'[s].tokens <= c
    BY <1>6, <2>1, <2>3, <2>4
  <2>6. Rows(s)' = Rows(s)
    BY <1>2
  <2>. QED BY <2>2, <2>3, <2>5, <2>6 DEF RowNeverLeads
<1>7. \A t \in SessionIds : RowNeverLeads(t)'
  BY <1>4, <1>5, <1>6 DEF Leaves
<1>8. ASSUME Serial', sessionFaults' = 0
      PROVE  (\A t \in SessionIds : ExactRow(t)') /\ (\A p \in Requests : ExactRequest(p)')
  <2>1. /\ request[r].pc = "update" /\ UNCHANGED sessionFaults
        /\ sessionRow'[s].count = request[r].count + 1
        /\ sessionRow'[s].tokens = request[r].tokens + Tokens(Role(r))
    BY <1>3, <1>8 DEF Leaves, SessionFault
  <2>2. /\ \A t \in SessionIds : ExactRow(t)
        /\ \A p \in Requests : ExactRequest(p)
        /\ OneServed
    BY <1>8, <2>1 DEF Serial, SessionInv
  <2>3. ASSUME NEW t \in SessionIds, t # s PROVE ExactRow(t)'
    <3>1. SumOf(Settled(t))' = SumOf(Settled(t))
      BY <1>2, <2>3 DEF SumOf, TokensOf
    <3>2. ExactRow(t) /\ Rows(t)' = Rows(t) /\ Settled(t)' = Settled(t)
      BY <1>2, <2>2, <2>3
    <3>. QED BY <1>4, <2>3, <3>1, <3>2 DEF ExactRow
  <2>4. ExactRow(s)'
    <3>1. request[r].count = Cardinality(Settled(s)) /\ request[r].tokens = SumOf(Settled(s))
      BY <1>3, <2>1, <2>2 DEF ExactRequest
    <3>2. sessionRow'[s].count = Cardinality(Settled(s)') /\ sessionRow'[s].tokens = SumOf(Settled(s))'
      BY <1>2, <2>1, <3>1
    <3>3. Rows(s)' = Rows(s) /\ sessionRow[s] # NoSession /\ ExactRow(s)
      BY <1>2, <2>2, SessionsAssumption DEF Leaves, SessionRows
    <3>4. {m.index : m \in Rows(s)} = 0 .. Cardinality(Rows(s)) - 1
      BY <3>3 DEF ExactRow
    <3>. QED BY <3>2, <3>3, <3>4 DEF ExactRow
  <2>5. ASSUME NEW p \in Requests PROVE ExactRequest(p)'
    <3>1. request'[p].pc \in {"free", "count"}
      <4>1. CASE p = r
        BY <1>1, <4>1, FreeServed DEF Leaves
      <4>2. CASE p # r
        BY <1>1, <1>3, <2>2, <4>2 DEF OneServed, Inserted
      <4>. QED BY <4>1, <4>2
    <3>. QED BY <3>1 DEF ExactRequest, Inserted
  <2>. QED BY <2>3, <2>4, <2>5
<1>. QED BY <1>7, <1>8

LEMMA LeaveKeeps ==
    ASSUME SessionTypes, SessionInv, UNCHANGED part, NEW r \in Requests,
           UpdateSession(r) \/ (Inserted(r) /\ SaveFails(r))
    PROVE  SessionInv'
<1>1. PICK w \in Served, n \in messages, s \in SessionIds : Leaves(r, w, n, s)
  BY Leaving
<1>2. \A p \in Requests : OwnInv(p)' /\ CountInv(p)'
  BY <1>1, LeaveRequests
<1>3. /\ \A t \in SessionIds : RowNeverLeads(t)'
      /\ Serial' /\ sessionFaults' = 0 =>
           (\A t \in SessionIds : ExactRow(t)') /\ (\A p \in Requests : ExactRequest(p)')
  BY <1>1, LeaveRows
<1>4. \A t \in SessionIds : sessionRow[t] # NoSession =>
        sessionRow'[t] # NoSession /\ sessionRow'[t].config = sessionRow[t].config
  BY <1>1, SessionsAssumption DEF Leaves, SessionRows
<1>5. (\A p \in Requests : AttemptInv(p)') /\ (Serial' => OneServed')
  <2>1. /\ Turned(r, w) /\ request[r].pc \in Saving /\ turns' = turns
        /\ \/ w = Free
           \/ /\ w.pc \in Saving /\ w.left # {} /\ w.turn = request[r].turn
              /\ w.config = request[r].config /\ w.session = request[r].session
    BY <1>1 DEF Leaves, Inserted, Saving
  <2>. QED BY <1>4, <2>1, SavingAttempts
<1>6. messages' = messages /\ turns' = turns /\ \A t : Rows(t)' = Rows(t)
  BY <1>1, LeftSettled DEF Leaves
<1>7. ASSUME NEW m \in messages PROVE MessageInv(m)'
  <2>1. MessageInv(m) /\ m.session \in SessionIds /\ Rows(m.session)' = Rows(m.session)
    BY <1>6 DEF SessionInv, SessionTypes, Messages
  <2>. QED BY <1>4, <1>6, <2>1 DEF MessageInv
<1>8. TurnsInOrder'
  <2>. SUFFICES ASSUME NEW m \in messages
                PROVE  /\ m.config = sessionRow'[m.session].config
                       /\ m.role = "assistant" => \A q \in Rows(m.session) :
                            q.turn = m.turn /\ q.role = "user" => q.index < m.index
    BY <1>6 DEF TurnsInOrder, Rows
  <2>1. m.session \in SessionIds /\ sessionRow[m.session] # NoSession
    BY DEF SessionInv, MessageInv, SessionTypes, Messages
  <2>. QED BY <1>4, <2>1 DEF SessionInv, TurnsInOrder
<1>. QED BY <1>2, <1>3, <1>5, <1>6, <1>7, <1>8 DEF SessionInv

LEMMA SessionInvInit == ASSUME PersistenceInit PROVE SessionInv
<1>1. /\ sessionRow = [s \in SessionIds |-> NoSession] /\ messages = {}
      /\ request = [r \in Requests |-> Free] /\ turns = 0
  BY DEF PersistenceInit, SessionsInit
<1>2. \A r \in Requests : request[r].pc = "free" /\ request[r].session = NoSession
                          /\ request[r].turn = 0
  BY <1>1, FreeServed
<1>3. \A r \in Requests : AttemptInv(r) /\ OwnInv(r) /\ CountInv(r) /\ ExactRequest(r)
  BY <1>1, <1>2 DEF AttemptInv, OwnInv, CountInv, ExactRequest, Inserted, Saving
<1>4. (\A s \in SessionIds : RowNeverLeads(s) /\ ExactRow(s)) /\ TurnsInOrder
  BY <1>1 DEF RowNeverLeads, ExactRow, TurnsInOrder
<1>5. OneServed
  BY <1>2 DEF OneServed
<1>. QED BY <1>1, <1>3, <1>4, <1>5 DEF SessionInv

LEMMA SessionInvStep ==
    ASSUME SessionTypes, SessionInv, [PersistenceNext]_persistenceVars
    PROVE  SessionInv'
<1>1. part' = part
  BY LogSteps
<1>2. CASE UNCHANGED sessionVars
  <2>1. UNCHANGED <<sessionRow, messages, request, turns, sessionFaults, part>>
    BY <1>1, <1>2 DEF sessionVars
  <2>2. UNCHANGED <<Serial, TurnsInOrder, OneServed>> /\ \A p : Inserted(p)' = Inserted(p)
    BY <2>1 DEF Serial, TurnsInOrder, OneServed, Inserted, Rows
  <2>3. \A p \in Requests : /\ AttemptInv(p)' = AttemptInv(p)
                            /\ OwnInv(p)' = OwnInv(p)
    BY <2>1, <2>2 DEF AttemptInv, OwnInv, Own, Role, Rows
  <2>4. \A s : Rows(s)' = Rows(s) /\ Settled(s)' = Settled(s)
    BY <2>1, <2>2, SettledStays
  <2>5. \A s : SumOf(Settled(s))' = SumOf(Settled(s))
    BY <2>4 DEF SumOf, TokensOf
  <2>6. ASSUME NEW p \in Requests PROVE CountInv(p)' = CountInv(p) /\ ExactRequest(p)' = ExactRequest(p)
    <3>1. PICK v : v = request[p] /\ v = request'[p]
      BY <2>1
    <3>2. /\ Rows(v.session)' = Rows(v.session) /\ Settled(v.session)' = Settled(v.session)
          /\ SumOf(Settled(v.session))' = SumOf(Settled(v.session))
      BY <2>4, <2>5
    <3>3. CountInv(p)' = CountInv(p)
      BY <2>2, <3>1, <3>2 DEF CountInv
    <3>4. ExactRequest(p)' = ExactRequest(p)
      BY <2>2, <3>1, <3>2 DEF ExactRequest
    <3>. QED BY <3>3, <3>4
  <2>7. ASSUME NEW s \in SessionIds
        PROVE  RowNeverLeads(s)' = RowNeverLeads(s) /\ ExactRow(s)' = ExactRow(s)
    BY <2>1, <2>4, <2>5 DEF RowNeverLeads, ExactRow
  <2>8. \A m \in messages : MessageInv(m)' = MessageInv(m)
    BY <2>1, <2>4 DEF MessageInv
  <2>. QED BY <2>1, <2>2, <2>3, <2>6, <2>7, <2>8 DEF SessionInv
<1>3. ASSUME NEW r \in Requests, Begin(r), Serial /\ request[r].pc = "free" => NobodyServed
      PROVE  SessionInv'
  BY <1>1, <1>3, QuietSteps
<1>4. ASSUME NEW r \in Requests, Proceed(r) PROVE SessionInv'
  BY <1>1, <1>4, QuietSteps, InsertKeeps, ReadKeeps, LeaveKeeps DEF Proceed
<1>. QED BY <1>2, <1>3, <1>4, SessionSteps

LEMMA SessionsKeep == ASSUME SessionTypes, SessionInv PROVE SessionsHold
<1>1. \A s \in SessionIds : /\ RowTokens(s) = SumOf(Rows(s))
                            /\ SumOf(Settled(s)) \in Nat /\ SumOf(Rows(s)) \in Nat
                            /\ SumOf(Settled(s)) <= SumOf(Rows(s))
  <2>. SUFFICES ASSUME NEW s \in SessionIds
                PROVE  /\ RowTokens(s) = SumOf(Rows(s))
                       /\ SumOf(Settled(s)) \in Nat /\ SumOf(Rows(s)) \in Nat
                       /\ SumOf(Settled(s)) <= SumOf(Rows(s))
    OBVIOUS
  <2>. QED BY RowTokensSum, RowsFinite, MessageSums
<1>2. CountersNeverLead
  <2>. SUFFICES ASSUME NEW s \in SessionIds, sessionRow[s] # NoSession
                PROVE  /\ sessionRow[s].count <= Cardinality(Rows(s))
                       /\ sessionRow[s].tokens <= RowTokens(s)
    BY DEF CountersNeverLead
  <2>1. PICK a \in Nat, b \in Nat : a = SumOf(Settled(s)) /\ b = RowTokens(s) /\ a <= b
    BY <1>1
  <2>2. RowNeverLeads(s) /\ sessionRow[s].tokens \in Nat
    BY DEF SessionInv, SessionTypes, SessionRows
  <2>. QED BY <2>1, <2>2 DEF RowNeverLeads
<1>3. Serial => CountersExact
  <2>. SUFFICES ASSUME Serial, NobodyServed, sessionFaults = 0, NEW s \in SessionIds,
                       sessionRow[s] # NoSession
                PROVE  /\ sessionRow[s].count = Cardinality(Rows(s))
                       /\ sessionRow[s].tokens = RowTokens(s)
                       /\ {m.index : m \in Rows(s)} = 0 .. Cardinality(Rows(s)) - 1
    BY DEF CountersExact
  <2>1. Settled(s) = Rows(s)
    BY DEF NobodyServed, Settled, Inserted
  <2>2. ExactRow(s)
    BY DEF SessionInv
  <2>. QED BY <1>1, <2>1, <2>2 DEF ExactRow
<1>. QED BY <1>2, <1>3 DEF SessionsHold, SessionInv

\* SaveMessages: however requests of a session overlap and statements fail, the
\* counters of its row never run ahead of its messages, an answer never comes
\* before its question, and messages stay with the configuration of the session;
\* when requests do not overlap and nothing fails the counters are exact.
THEOREM SessionsAreKept == Spec => []SessionsHold
<1>1. PersistenceInit => SessionTypes /\ SessionInv
  BY SessionTypesInit, SessionInvInit
<1>2. SessionTypes /\ SessionInv /\ [PersistenceNext]_persistenceVars => SessionTypes' /\ SessionInv'
  BY SessionTypesStep, SessionInvStep
<1>3. SessionTypes /\ SessionInv => SessionsHold
  BY SessionsKeep
<1>. QED BY <1>1, <1>2, <1>3, PTL DEF Spec

-----------------------------------------------------------------------------
(* Keys, when calls do not overlap                                         *)

OneBusy ==
    \A u, v \in Clients \union Administrators : job[u].pc # "idle" /\ job[v].pc # "idle" => u = v

\* Which keys rows have: no two configurations the same, and none that was made
\* for a load balancer, unless the key came in a body.
ConfigKeys ==
    /\ \A i \in Configs : config[i] # Absent =>
         /\ config[i].key = handed[i]
         /\ config[i].key \in Generated => config[i].key \in made
         /\ \A j \in Configs : config[j] # Absent /\ config[j].key = config[i].key =>
              j = i \/ config[i].key \in BodyKeys
    /\ \A b \in Balancers : balancer[b] # Absent =>
         /\ balancer[b].key \in made \union BalancerTokens
         /\ \A i \in Configs : config[i] # Absent /\ config[i].key = balancer[b].key =>
              config[i].key \in BalancerTokens \union BodyKeys

\* An entry is of the row as it is.
Home(k) == \E i \in Configs : /\ config[i] # Absent /\ config[i].key = k
                              /\ cache[k].found = <<i, config[i].version>>

EntriesHome ==
    \A k \in Keys :
      /\ cache[k] # Absent /\ k \notin dropped
      /\ \A u \in Administrators : job[u].pc = "invalidate" => job[u].key # k
      => Home(k)

\* What a call that has begun can rely on.
CallHolds(u) ==
    /\ job[u].pc \in {"create", "renew"} =>
         /\ job[u].key \in ConfigTokens \union {NoKey}
         /\ job[u].key # NoKey => ~InUse(job[u].key, job[u].id)
    /\ job[u].pc = "create" => config[job[u].id] = Absent
    /\ job[u].pc = "read" =>
         IF job[u].op = "rekey"
         THEN job[u].key \in BodyKeys /\ (job[u].key \in Generated => job[u].key \in made)
         ELSE config[job[u].id] # Absent => config[job[u].id].key = job[u].key
    /\ job[u].pc = "delete" /\ config[job[u].id] # Absent /\ job[u].key # NoKey =>
         config[job[u].id].key = job[u].key /\ cache[job[u].key] = Absent
    /\ job[u].pc = "invalidate" => job[u].key \in Keys

ClientHolds(c) ==
    job[c].pc = "set" =>
      \E i \in Configs : /\ config[i] # Absent /\ config[i].key = job[c].key
                         /\ job[c].found = <<i, config[i].version>>

KeyInv ==
    Serial => /\ OneBusy /\ ConfigKeys /\ EntriesHome
              /\ \A u \in Administrators : CallHolds(u)
              /\ \A c \in Clients : ClientHolds(c)

LEMMA KeyedSteps ==
    ASSUME Serial, [PersistenceNext]_persistenceVars
    PROVE  /\ part' = part
           /\ \/ UNCHANGED configVars
              \/ NobodyBusy /\ ConfigTick
              \/ cleanupExpired
              \/ \E c \in Clients : (job[c].pc = "idle" => NobodyBusy) /\ Client(c)
              \/ \E u \in Administrators : NobodyBusy /\ Begins(u, Configs, Balancers)
              \/ \E u \in Administrators : GoesOn(u)
<1>1. CASE UNCHANGED persistenceVars
  BY <1>1 DEF persistenceVars
<1>2. CASE Logging \/ Retention \/ Conversing \/ Alerting \/ Summing
  BY <1>2 DEF Logging, Retention, Conversing, Alerting, Summing
<1>3. CASE Keyed
  <2>1. Subjects \subseteq Configs /\ InFront \subseteq Balancers
    BY ConfigStoreAssumption DEF Subjects, AConfig, InFront
  <2>2. ASSUME NEW u \in Administrators, Begins(u, Subjects, InFront)
        PROVE  Begins(u, Configs, Balancers)
    BY <2>1, <2>2 DEF Begins
  <2>. QED BY <1>3, <2>2 DEF Keyed
<1>. QED BY <1>1, <1>2, <1>3 DEF PersistenceNext

LEMMA KeyInvInit == ASSUME PersistenceInit PROVE KeyInv
<1>1. ConfigInit
  BY DEF PersistenceInit
<1>2. \A u \in Clients \union Administrators : job[u].pc = "idle"
  BY <1>1, WaitingCall DEF ConfigInit
<1>3. OneBusy /\ \A u \in Administrators : CallHolds(u)
  BY <1>2 DEF OneBusy, CallHolds
<1>4. \A c \in Clients : ClientHolds(c)
  BY <1>2 DEF ClientHolds
<1>5. ConfigKeys /\ EntriesHome
  BY <1>1 DEF ConfigInit, ConfigKeys, EntriesHome
<1>. QED BY <1>3, <1>4, <1>5 DEF KeyInv

LEMMA ChosenKey ==
    ASSUME made \subseteq Generated, NEW custom, NEW k \in Chosen(custom)
    PROVE  \/ k = custom /\ custom # NoKey
           \/ custom = NoKey /\ k \in Generated /\ k \notin made
<1>1. CASE custom # NoKey
  BY <1>1 DEF Chosen
<1>2. CASE custom = NoKey
  <2>. DEFINE new == Generated \ made
  <2>1. new # {} /\ k = CHOOSE n \in new : TRUE
    BY <1>2 DEF Chosen
  <2>2. k \in new
    BY <2>1
  <2>. QED BY <1>2, <2>2
<1>. QED BY <1>1, <1>2

\* While u is in a call, or nobody is, nobody else is.
LEMMA OnlyBusy ==
    ASSUME ConfigTypes, OneBusy, NEW u \in Clients \union Administrators,
           NobodyBusy \/ job[u].pc # "idle", NEW j, Becomes(u, j)
    PROVE  /\ job'[u] = j /\ OneBusy'
           /\ \A o \in Clients \union Administrators : o # u =>
                job'[o] = job[o] /\ job[o].pc = "idle"
<1>1. job'[u] = j
  BY DEF Becomes, ConfigTypes
<1>2. ASSUME NEW o \in Clients \union Administrators, o # u
      PROVE  job'[o] = job[o] /\ job[o].pc = "idle"
  BY <1>2 DEF Becomes, ConfigTypes, OneBusy, NobodyBusy
<1>3. OneBusy'
  BY <1>2 DEF OneBusy
<1>. QED BY <1>1, <1>2, <1>3

LEMMA IdleHolds ==
    ASSUME NEW o, (job[o].pc = "idle")'
    PROVE  CallHolds(o)' /\ ClientHolds(o)'
BY DEF CallHolds, ClientHolds

\* The step of a call is judged by the keys, the entries and the call itself.
LEMMA KeyCall ==
    ASSUME ConfigTypes, OneBusy, NEW u \in Administrators,
           NobodyBusy \/ job[u].pc # "idle", NEW j, Becomes(u, j),
           ConfigKeys', CallHolds(u)', EntriesHome'
    PROVE  KeyInv'
<1>1. /\ OneBusy' /\ \A o \in Clients \union Administrators : o # u => (job[o].pc = "idle")'
  BY OnlyBusy
<1>2. \A o \in Administrators : CallHolds(o)'
  BY <1>1, IdleHolds
<1>3. \A c \in Clients : c # u
  BY ConfigStoreAssumption
<1>4. \A c \in Clients : ClientHolds(c)'
  BY <1>1, <1>3, IdleHolds
<1>. QED BY <1>1, <1>2, <1>4 DEF KeyInv

\* Entries stay at home when rows stay, whoever was invalidating before.
LEMMA EntriesStay ==
    ASSUME UNCHANGED config, EntriesHome,
           \A k \in Keys : cache'[k] # Absent /\ k \notin dropped' => cache'[k] = cache[k] /\ k \notin dropped,
           \A u \in Administrators : job[u].pc = "invalidate" =>
             job'[u] = job[u] \/ cache'[job[u].key] = Absent \/ job[u].key \notin Keys
    PROVE  EntriesHome'
<1>. SUFFICES ASSUME NEW k \in Keys, cache'[k] # Absent, k \notin dropped',
                     \A u \in Administrators : job'[u].pc = "invalidate" => job'[u].key # k
              PROVE  Home(k)'
  BY DEF EntriesHome
<1>1. cache'[k] = cache[k] /\ k \notin dropped
  OBVIOUS
<1>2. \A u \in Administrators : job[u].pc = "invalidate" => job[u].key # k
  OBVIOUS
<1>3. Home(k)
  BY <1>1, <1>2 DEF EntriesHome
<1>. QED BY <1>1, <1>3 DEF Home

LEMMA KeyTick == ASSUME KeyInv, Serial, NobodyBusy, ConfigTick, part' = part PROVE KeyInv'
<1>1. UNCHANGED <<config, balancer, cache, handed, made, dropped, job>>
  BY DEF ConfigTick
<1>2. (OneBusy /\ ConfigKeys)' /\ \A u \in Administrators : CallHolds(u)'
  BY <1>1 DEF KeyInv, OneBusy, ConfigKeys, CallHolds, InUse
<1>3. EntriesHome' /\ \A c \in Clients : ClientHolds(c)'
  BY <1>1 DEF KeyInv, EntriesHome, Home, ClientHolds
<1>. QED BY <1>2, <1>3 DEF KeyInv

LEMMA KeyCleanup == ASSUME ConfigTypes, KeyInv, Serial, cleanupExpired PROVE KeyInv'
<1>1. UNCHANGED <<config, balancer, handed, made, dropped, job>>
  BY DEF cleanupExpired, clientFrame
<1>2. \A k \in Keys : cache'[k] = cache[k] \/ cache'[k] = Absent
  BY DEF cleanupExpired
<1>3. (OneBusy /\ ConfigKeys)' /\ \A c \in Clients : ClientHolds(c)'
  BY <1>1 DEF KeyInv, OneBusy, ConfigKeys, ClientHolds
<1>4. EntriesHome'
  BY <1>1, <1>2, EntriesStay DEF KeyInv
<1>5. \A u \in Administrators : job[u].key \in Keys \union {NoKey}
  BY DEF ConfigTypes, Calls, Holds
<1>6. ASSUME NEW u \in Administrators PROVE CallHolds(u)'
  BY <1>1, <1>2, <1>5 DEF KeyInv, CallHolds, InUse
<1>. QED BY <1>3, <1>4, <1>6 DEF KeyInv

LEMMA KeyClient ==
    ASSUME ConfigTypes, KeyInv, Serial, NEW c \in Clients,
           job[c].pc = "idle" => NobodyBusy, Client(c)
    PROVE  KeyInv'
<1>1. UNCHANGED <<config, balancer, handed, made, dropped>>
  BY DEF Client, FindBalancer, GetCached, SelectConfig, SetCache, Answered, clientFrame
<1>2. OneBusy /\ ConfigKeys /\ EntriesHome /\ ClientHolds(c) /\ ConfigKeys'
  BY <1>1 DEF KeyInv, ConfigKeys
<1>3. \A u \in Administrators : u # c
  BY ConfigStoreAssumption
\* the client's job becomes j, when nobody else has one
<1>4. ASSUME NEW j, Becomes(c, j), ClientHolds(c)', EntriesHome' PROVE KeyInv'
  <2>1. NobodyBusy \/ job[c].pc # "idle"
    OBVIOUS
  <2>2. /\ OneBusy'
        /\ \A o \in Clients \union Administrators : o # c => (job[o].pc = "idle")'
    BY <1>2, <1>4, <2>1, OnlyBusy
  <2>3. \A u \in Administrators : CallHolds(u)'
    BY <1>3, <2>2, IdleHolds
  <2>4. \A o \in Clients : ClientHolds(o)'
    BY <1>4, <2>2, IdleHolds
  <2>. QED BY <1>2, <1>4, <2>2, <2>3, <2>4 DEF KeyInv
<1>5. ASSUME NEW j, Becomes(c, j)
      PROVE  job'[c] = j /\ \A o \in Administrators : job'[o] = job[o]
  BY <1>3, <1>5 DEF Becomes, ConfigTypes
<1>6. ASSUME NEW j, Becomes(c, j), cache' = cache PROVE EntriesHome'
  BY <1>1, <1>2, <1>5, <1>6, EntriesStay
<1>7. ASSUME NEW j, Becomes(c, j), j.pc # "set", cache' = cache PROVE KeyInv'
  <2>1. ClientHolds(c)'
    BY <1>5, <1>7 DEF ClientHolds
  <2>. QED BY <1>4, <1>6, <1>7, <2>1
<1>8. ASSUME NEW k \in Keys, FindBalancer(c, k) PROVE KeyInv'
  <2>1. CASE job' = job
    <3>1. cache' = cache
      BY <1>8 DEF FindBalancer
    <3>2. OneBusy' /\ \A u \in Administrators : CallHolds(u)'
      BY <1>1, <2>1, <3>1 DEF KeyInv, OneBusy, CallHolds, InUse
    <3>3. EntriesHome' /\ \A o \in Clients : ClientHolds(o)'
      BY <1>1, <2>1, <3>1 DEF KeyInv, EntriesHome, Home, ClientHolds
    <3>. QED BY <1>2, <3>2, <3>3 DEF KeyInv
  <2>2. CASE Becomes(c, [Waiting EXCEPT !.pc = "get", !.key = k])
    <3>1. [Waiting EXCEPT !.pc = "get", !.key = k].pc = "get"
      BY DEF Waiting
    <3>2. cache' = cache
      BY <1>8 DEF FindBalancer
    <3>. QED BY <1>7, <2>2, <3>1, <3>2
  <2>. QED BY <1>8, <2>1, <2>2 DEF FindBalancer
<1>9. job[c] \in Calls
  BY DEF ConfigTypes
<1>10. CASE GetCached(c)
  <2>. DEFINE j == [job[c] EXCEPT !.pc = "answered", !.since = time,
                                  !.found = cache[job[c].key].found]
  <2>1. Becomes(c, j) /\ cache' = cache
    BY <1>10 DEF GetCached
  <2>2. j.pc = "answered"
    BY <1>9 DEF Calls, Holds
  <2>. QED BY <1>7, <2>1, <2>2
<1>11. CASE SelectConfig(c)
  <2>0. cache' = cache /\ Waiting.pc # "set"
    BY <1>11, WaitingCall DEF SelectConfig
  <2>1. CASE Ends(c)
    BY <1>7, <2>0, <2>1 DEF Ends
  <2>2. ASSUME NEW i \in Configs, config[i] # Absent, config[i].key = job[c].key,
               Becomes(c, [job[c] EXCEPT !.pc = "set", !.since = time, !.found = <<i, config[i].version>>])
        PROVE  KeyInv'
    <3>. DEFINE j == [job[c] EXCEPT !.pc = "set", !.since = time, !.found = <<i, config[i].version>>]
    <3>1. j.key = job[c].key /\ j.found = <<i, config[i].version>>
      BY <1>9 DEF Calls, Holds
    <3>. HIDE DEF j
    <3>2. job'[c].key = config[i].key /\ job'[c].found = <<i, config[i].version>>
      BY <1>5, <2>2, <3>1 DEF j
    <3>3. ClientHolds(c)'
      BY <1>1, <2>2, <3>2 DEF ClientHolds
    <3>. QED BY <1>4, <1>6, <2>0, <2>2, <3>3
  <2>. QED BY <1>11, <2>1, <2>2 DEF SelectConfig
<1>12. CASE SetCache(c)
  <2>1. PICK out \in SUBSET Cached :
          cache' = [k \in Keys |->
            IF k = job[c].key THEN [found |-> job[c].found, expires |-> time + TTL]
            ELSE IF k \in out THEN Absent ELSE cache[k]]
    BY <1>12 DEF SetCache
  <2>2. job[c].pc = "set" /\ Becomes(c, [job[c] EXCEPT !.pc = "answered"])
    BY <1>12 DEF SetCache
  <2>3. [job[c] EXCEPT !.pc = "answered"].pc = "answered"
    BY <1>9 DEF Calls, Holds
  <2>4. ClientHolds(c)'
    BY <1>5, <2>2, <2>3 DEF ClientHolds
  <2>5. \A u \in Administrators : job[u].pc = "idle"
    BY <1>2, <1>3, <2>2 DEF OneBusy
  <2>6. PICK i \in Configs : /\ config[i] # Absent /\ config[i].key = job[c].key
                             /\ job[c].found = <<i, config[i].version>>
    BY <1>2, <2>2 DEF ClientHolds
  <2>7. ASSUME NEW k \in Keys, cache'[k] # Absent, k \notin dropped' PROVE Home(k)'
    <3>1. CASE k = job[c].key
      <4>1. cache'[k].found = <<i, config[i].version>>
        BY <2>1, <2>6, <3>1
      <4>. QED BY <1>1, <2>6, <3>1, <4>1 DEF Home
    <3>2. CASE k # job[c].key
      <4>1. cache'[k] = cache[k] /\ k \notin dropped
        BY <1>1, <2>1, <2>7, <3>2
      <4>2. Home(k)
        BY <1>2, <2>5, <2>7, <4>1 DEF EntriesHome
      <4>. QED BY <1>1, <4>1, <4>2 DEF Home
    <3>. QED BY <3>1, <3>2
  <2>8. EntriesHome'
    BY <2>7 DEF EntriesHome
  <2>. QED BY <1>4, <2>2, <2>4, <2>8
<1>13. CASE Answered(c)
  <2>1. Becomes(c, Waiting) /\ Waiting.pc # "set" /\ cache' = cache
    BY <1>13, WaitingCall DEF Answered, Ends
  <2>. QED BY <1>7, <2>1
<1>. QED BY <1>8, <1>10, <1>11, <1>12, <1>13 DEF Client

\* A configuration is given a key that no other row has.
LEMMA KeyGiven ==
    ASSUME ConfigTypes, ConfigKeys, NEW i \in Configs, NEW custom \in ConfigTokens \union {NoKey},
           custom # NoKey => ~InUse(custom, i), NEW k \in Chosen(custom),
           config'[i].key = k, handed'[i] = k,
           \A o \in Configs : o # i => config'[o] = config[o] /\ handed'[o] = handed[o],
           made' = made \union ({k} \intersect Generated), balancer' = balancer
    PROVE  ConfigKeys'
<1>1. \/ k = custom /\ custom \in ConfigTokens /\ custom # NoKey
      \/ k \in Generated /\ k \notin made
  BY ChosenKey DEF ConfigTypes
<1>2. ASSUME NEW o \in Configs, o # i, config[o] # Absent PROVE config[o].key # k
  <2>1. CASE k = custom /\ custom # NoKey
    BY <1>2, <2>1 DEF InUse
  <2>2. CASE k \in Generated /\ k \notin made
    BY <1>2, <2>2 DEF ConfigKeys
  <2>. QED BY <1>1, <2>1, <2>2
<1>3. ASSUME NEW b \in Balancers, balancer[b] # Absent, balancer[b].key = k
      PROVE  k \in BalancerTokens
  BY <1>1, <1>3, ConfigStoreAssumption DEF ConfigKeys, ConfigTypes
<1>4. ASSUME NEW o \in Configs, config'[o] # Absent
      PROVE  /\ config'[o].key = handed'[o]
             /\ config'[o].key \in Generated => config'[o].key \in made'
             /\ \A p \in Configs : config'[p] # Absent /\ config'[p].key = config'[o].key =>
                  p = o \/ config'[o].key \in BodyKeys
  <2>1. CASE o = i
    BY <1>2, <2>1
  <2>2. CASE o # i
    BY <1>2, <1>4, <2>2 DEF ConfigKeys
  <2>. QED BY <2>1, <2>2
<1>5. ASSUME NEW b \in Balancers, balancer'[b] # Absent
      PROVE  /\ balancer'[b].key \in made' \union BalancerTokens
             /\ \A o \in Configs : config'[o] # Absent /\ config'[o].key = balancer'[b].key =>
                  config'[o].key \in BalancerTokens \union BodyKeys
  <2>1. ASSUME NEW o \in Configs, config'[o] # Absent, config'[o].key = balancer'[b].key
        PROVE  config'[o].key \in BalancerTokens \union BodyKeys
    <3>1. CASE o = i
      BY <1>3, <1>5, <2>1, <3>1
    <3>2. CASE o # i
      BY <1>5, <2>1, <3>2 DEF ConfigKeys
    <3>. QED BY <3>1, <3>2
  <2>2. balancer'[b].key \in made' \union BalancerTokens
    BY <1>5 DEF ConfigKeys
  <2>. QED BY <2>1, <2>2
<1>. QED BY <1>4, <1>5 DEF ConfigKeys

\* A configuration is given the key of a body, whoever else has it.
LEMMA KeyBrought ==
    ASSUME ConfigTypes, ConfigKeys, NEW i \in Configs, NEW k \in BodyKeys,
           k \in Generated => k \in made,
           config'[i].key = k, handed'[i] = k,
           \A o \in Configs : o # i => config'[o] = config[o] /\ handed'[o] = handed[o],
           UNCHANGED <<balancer, made>>
    PROVE  ConfigKeys'
<1>1. ASSUME NEW o \in Configs, config'[o] # Absent
      PROVE  /\ config'[o].key = handed'[o]
             /\ config'[o].key \in Generated => config'[o].key \in made'
             /\ \A p \in Configs : config'[p] # Absent /\ config'[p].key = config'[o].key =>
                  p = o \/ config'[o].key \in BodyKeys
  <2>1. CASE o = i
    BY <2>1
  <2>2. CASE o # i
    BY <1>1, <2>2 DEF ConfigKeys
  <2>. QED BY <2>1, <2>2
<1>2. ASSUME NEW b \in Balancers, balancer'[b] # Absent
      PROVE  /\ balancer'[b].key \in made' \union BalancerTokens
             /\ \A o \in Configs : config'[o] # Absent /\ config'[o].key = balancer'[b].key =>
                  config'[o].key \in BalancerTokens \union BodyKeys
  <2>1. balancer'[b].key \in made' \union BalancerTokens
    BY <1>2 DEF ConfigKeys
  <2>2. ASSUME NEW o \in Configs, config'[o] # Absent, config'[o].key = balancer'[b].key
        PROVE  config'[o].key \in BalancerTokens \union BodyKeys
    <3>1. CASE o = i
      BY <3>1
    <3>2. CASE o # i
      BY <1>2, <2>2, <3>2 DEF ConfigKeys
    <3>. QED BY <3>1, <3>2
  <2>. QED BY <2>1, <2>2
<1>. QED BY <1>1, <1>2 DEF ConfigKeys

\* Rows that go or keep their keys take no key from anybody.
LEMMA KeysRest ==
    ASSUME ConfigKeys, UNCHANGED <<balancer, handed, made>>,
           \A i \in Configs : config'[i] # Absent =>
             config[i] # Absent /\ config'[i].key = config[i].key
    PROVE  ConfigKeys'
<1>1. ASSUME NEW i \in Configs, config'[i] # Absent
      PROVE  /\ config'[i].key = handed'[i]
             /\ config'[i].key \in Generated => config'[i].key \in made'
             /\ \A j \in Configs : config'[j] # Absent /\ config'[j].key = config'[i].key =>
                  j = i \/ config'[i].key \in BodyKeys
  BY <1>1 DEF ConfigKeys
<1>2. ASSUME NEW b \in Balancers, balancer'[b] # Absent
      PROVE  /\ balancer'[b].key \in made' \union BalancerTokens
             /\ \A i \in Configs : config'[i] # Absent /\ config'[i].key = balancer'[b].key =>
                  config'[i].key \in BalancerTokens \union BodyKeys
  BY <1>2 DEF ConfigKeys
<1>. QED BY <1>1, <1>2 DEF ConfigKeys

\* The administration of load balancers writes one row, with a key of its own.
LEMMA KeyPutBalancer ==
    ASSUME ConfigTypes, KeyInv, Serial, NEW b \in Balancers, NEW row, PutBalancer(b, row),
           made \subseteq made',
           row # Absent =>
             /\ row.key \in made' \union BalancerTokens
             /\ \A i \in Configs : config[i] # Absent /\ config[i].key = row.key =>
                  config[i].key \in BalancerTokens \union BodyKeys
    PROVE  KeyInv'
<1>1. UNCHANGED <<config, cache, handed, dropped, job>>
  BY DEF PutBalancer
<1>2. OneBusy' /\ \A u \in Administrators : CallHolds(u)'
  BY <1>1 DEF KeyInv, OneBusy, CallHolds, InUse
<1>3. EntriesHome' /\ \A c \in Clients : ClientHolds(c)'
  BY <1>1 DEF KeyInv, EntriesHome, Home, ClientHolds
<1>4. ASSUME NEW d \in Balancers, balancer'[d] # Absent
      PROVE  /\ balancer'[d].key \in made' \union BalancerTokens
             /\ \A i \in Configs : config'[i] # Absent /\ config'[i].key = balancer'[d].key =>
                  config'[i].key \in BalancerTokens \union BodyKeys
  <2>1. balancer' = [balancer EXCEPT ![b] = row]
    BY DEF PutBalancer
  <2>2. balancer'[d] = row \/ balancer'[d] = balancer[d]
    BY <2>1
  <2>3. CASE balancer'[d] = row
    BY <1>1, <1>4, <2>3
  <2>4. CASE balancer'[d] = balancer[d]
    BY <1>1, <1>4, <2>4 DEF KeyInv, ConfigKeys
  <2>. QED BY <2>2, <2>3, <2>4
<1>5. ConfigKeys'
  BY <1>1, <1>4 DEF KeyInv, ConfigKeys
<1>. QED BY <1>2, <1>3, <1>5 DEF KeyInv

LEMMA KeyBegins ==
    ASSUME ConfigTypes, KeyInv, Serial, NEW u \in Administrators, NobodyBusy,
           Begins(u, Configs, Balancers)
    PROVE  KeyInv'
<1>1. OneBusy /\ ConfigKeys /\ EntriesHome
  BY DEF KeyInv
<1>2. ASSUME NEW j, Becomes(u, j) PROVE job'[u] = j
  BY <1>2, <1>1, OnlyBusy
<1>3. \A o \in Administrators : job[o].pc = "idle"
  BY DEF NobodyBusy
<1>4. ASSUME NEW i \in Configs, NEW custom \in ConfigTokens \union {NoKey},
             NEW op \in {"create", "renew"}, CheckToken(u, op, i, custom)
      PROVE  KeyInv'
  <2>1. UNCHANGED <<config, balancer, cache, handed, made, dropped>>
    BY <1>4 DEF CheckToken
  <2>2. ConfigKeys' /\ EntriesHome'
    BY <1>1, <1>3, <2>1, EntriesStay DEF ConfigKeys
  <2>3. CASE job' = job
    <3>1. OneBusy' /\ \A o \in Administrators : CallHolds(o)'
      BY <2>1, <2>3 DEF KeyInv, OneBusy, CallHolds, InUse
    <3>2. \A c \in Clients : ClientHolds(c)'
      BY <2>1, <2>3 DEF KeyInv, ClientHolds
    <3>. QED BY <2>2, <3>1, <3>2 DEF KeyInv
  <2>4. CASE /\ ~(custom # NoKey /\ InUse(custom, i))
             /\ Becomes(u, [Waiting EXCEPT !.pc = op, !.id = i, !.key = custom])
    <3>. DEFINE j == [Waiting EXCEPT !.pc = op, !.id = i, !.key = custom]
    <3>1. j.pc = op /\ j.id = i /\ j.key = custom
      BY DEF Waiting
    <3>. HIDE DEF j
    <3>2. job'[u].pc = op /\ job'[u].id = i /\ job'[u].key = custom
      BY <1>2, <2>4, <3>1 DEF j
    <3>3. op = "create" => config[i] = Absent
      BY <1>4 DEF CheckToken
    <3>4. custom # NoKey => ~InUse(custom, i)'
      BY <2>1, <2>4 DEF InUse
    <3>5. CallHolds(u)'
      BY <2>1, <3>2, <3>3, <3>4 DEF CallHolds
    <3>. QED BY <1>1, <2>2, <2>4, <3>5, KeyCall
  <2>. QED BY <1>4, <2>3, <2>4 DEF CheckToken
<1>5. ASSUME NEW i \in Configs, NEW op \in {"update", "delete"}, ReadConfig(u, op, i)
      PROVE  KeyInv'
  <2>1. UNCHANGED <<config, balancer, cache, handed, made, dropped>> /\ config[i] # Absent
    BY <1>5 DEF ReadConfig
  <2>2. ConfigKeys' /\ EntriesHome'
    BY <1>1, <1>3, <2>1, EntriesStay DEF ConfigKeys
  <2>. DEFINE read == [Waiting EXCEPT !.pc = "read", !.op = op, !.id = i, !.key = config[i].key]
              bare == [read EXCEPT !.pc = "delete", !.key = NoKey]
              Rekeys(k) == [read EXCEPT !.op = "rekey", !.key = k]
  <2>3. /\ read.pc = "read" /\ read.id = i /\ read.key = config[i].key /\ read.op = op
        /\ bare.pc = "delete" /\ bare.key = NoKey
        /\ \A k : Rekeys(k).pc = "read" /\ Rekeys(k).op = "rekey" /\ Rekeys(k).key = k
    BY DEF Waiting
  <2>4. \/ Becomes(u, read) \/ Becomes(u, bare)
        \/ \E k \in BodyKeys : (k \in Generated => k \in made) /\ Becomes(u, Rekeys(k))
    BY <1>5 DEF ReadConfig
  <2>. HIDE DEF read, bare, Rekeys
  <2>5. CASE Becomes(u, read)
    <3>1. /\ job'[u].pc = "read" /\ job'[u].id = i /\ job'[u].key = config[i].key
          /\ job'[u].op # "rekey"
      BY <1>2, <2>3, <2>5
    <3>2. CallHolds(u)'
      BY <2>1, <3>1 DEF CallHolds
    <3>. QED BY <1>1, <2>2, <2>5, <3>2, KeyCall
  <2>6. CASE Becomes(u, bare)
    <3>1. job'[u].pc = "delete" /\ job'[u].key = NoKey
      BY <1>2, <2>3, <2>6
    <3>2. CallHolds(u)'
      BY <3>1 DEF CallHolds
    <3>. QED BY <1>1, <2>2, <2>6, <3>2, KeyCall
  <2>7. ASSUME NEW k \in BodyKeys, k \in Generated => k \in made, Becomes(u, Rekeys(k))
        PROVE  KeyInv'
    <3>1. job'[u].pc = "read" /\ job'[u].op = "rekey" /\ job'[u].key = k
      BY <1>2, <2>3, <2>7
    <3>2. CallHolds(u)'
      BY <2>1, <2>7, <3>1 DEF CallHolds
    <3>. QED BY <1>1, <2>2, <2>7, <3>2, KeyCall
  <2>. QED BY <2>4, <2>5, <2>6, <2>7
<1>6. ASSUME NEW b \in Balancers, NEW custom \in BalancerTokens \union {NoKey}, KeyBalancer(u, b, custom)
      PROVE  KeyInv'
  <2>1. PICK k \in Chosen(custom), enabled \in BOOLEAN :
          /\ PutBalancer(b, [key |-> k, enabled |-> enabled])
          /\ made' = made \union ({k} \intersect Generated)
    BY <1>6 DEF KeyBalancer
  <2>2. k \in BalancerTokens \/ (k \in Generated /\ k \notin made)
    BY ChosenKey DEF ConfigTypes
  <2>3. \A i \in Configs : config[i] # Absent /\ config[i].key = k => config[i].key \in BalancerTokens \union BodyKeys
    BY <1>1, <2>2 DEF ConfigKeys
  <2>4. [key |-> k, enabled |-> enabled].key = k
    OBVIOUS
  <2>. QED BY <2>1, <2>2, <2>3, <2>4, KeyPutBalancer
<1>7. ASSUME NEW b \in Balancers, NEW enabled \in BOOLEAN, UpdateBalancer(u, b, enabled)
      PROVE  KeyInv'
  <2>1. balancer[b] # Absent /\ PutBalancer(b, [balancer[b] EXCEPT !.enabled = enabled]) /\ made' = made
    BY <1>7 DEF UpdateBalancer
  <2>2. [balancer[b] EXCEPT !.enabled = enabled].key = balancer[b].key
    OBVIOUS
  <2>3. /\ balancer[b].key \in made \union BalancerTokens
        /\ \A i \in Configs : config[i] # Absent /\ config[i].key = balancer[b].key =>
             config[i].key \in BalancerTokens \union BodyKeys
    BY <1>1, <2>1 DEF ConfigKeys
  <2>. QED BY <2>1, <2>2, <2>3, KeyPutBalancer
<1>8. ASSUME NEW b \in Balancers, DeleteBalancer(u, b) PROVE KeyInv'
  BY <1>8, KeyPutBalancer DEF DeleteBalancer
<1>. QED BY <1>4, <1>5, <1>6, <1>7, <1>8 DEF Begins

LEMMA KeyInserts ==
    ASSUME ConfigTypes, KeyInv, Serial, NEW u \in Administrators, InsertConfig(u)
    PROVE  KeyInv'
<1>. DEFINE i == job[u].id
<1>1. /\ job[u].pc = "create" /\ Becomes(u, Waiting) /\ job[u] \in Calls
      /\ UNCHANGED <<balancer, cache, dropped>>
  BY DEF InsertConfig, Ends, ConfigTypes
<1>2. PICK k \in Chosen(job[u].key) :
        /\ config' = [config EXCEPT ![i] = [key |-> k, enabled |-> TRUE, version |-> 1]]
        /\ handed' = [handed EXCEPT ![i] = k]
        /\ made' = made \union ({k} \intersect Generated)
  BY DEF InsertConfig
<1>3. /\ i \in Configs /\ config[i] = Absent /\ job[u].key \in ConfigTokens \union {NoKey}
      /\ job[u].key # NoKey => ~InUse(job[u].key, i)
      /\ OneBusy /\ ConfigKeys /\ EntriesHome
  BY <1>1 DEF Calls, CallPcs, KeyInv, CallHolds
<1>. HIDE DEF i
<1>4. /\ \A o \in Configs : o # i => config'[o] = config[o] /\ handed'[o] = handed[o]
      /\ config'[i].key = k /\ handed'[i] = k
  BY <1>2, <1>3 DEF ConfigTypes
<1>5. ConfigKeys'
  BY <1>1, <1>2, <1>3, <1>4, KeyGiven
<1>6. \A o \in Administrators : job[o].pc # "invalidate"
  BY <1>1, <1>3 DEF OneBusy
<1>7. ASSUME NEW n \in Keys, cache'[n] # Absent, n \notin dropped' PROVE Home(n)'
  <2>1. Home(n)
    BY <1>1, <1>3, <1>6, <1>7 DEF EntriesHome
  <2>. QED BY <1>1, <1>3, <1>4, <2>1 DEF Home
<1>8. EntriesHome'
  BY <1>7 DEF EntriesHome
<1>9. CallHolds(u)'
  BY <1>1, <1>3, OnlyBusy, WaitingCall, IdleHolds
<1>. QED BY <1>1, <1>3, <1>5, <1>8, <1>9, KeyCall

LEMMA KeyRenews ==
    ASSUME ConfigTypes, KeyInv, Serial, NEW u \in Administrators, RenewKey(u)
    PROVE  KeyInv'
<1>1. /\ job[u].pc = "renew" /\ Becomes(u, Waiting) /\ job[u] \in Calls
      /\ UNCHANGED <<balancer, cache>>
  BY DEF RenewKey, Ends, ConfigTypes
<1>2. PICK i \in Configs : i = job[u].id
  BY <1>1 DEF Calls, CallPcs
<1>3. /\ job[u].key \in ConfigTokens \union {NoKey}
      /\ job[u].key # NoKey => ~InUse(job[u].key, i)
      /\ OneBusy /\ ConfigKeys /\ EntriesHome
  BY <1>1, <1>2 DEF KeyInv, CallHolds
<1>4. CallHolds(u)'
  BY <1>1, <1>3, OnlyBusy, WaitingCall, IdleHolds
<1>5. \A o \in Administrators : job[o].pc # "invalidate"
  BY <1>1, <1>3 DEF OneBusy
<1>6. CASE config[i] = Absent
  <2>1. UNCHANGED <<config, handed, made, dropped>>
    BY <1>2, <1>6 DEF RenewKey
  <2>2. ConfigKeys' /\ EntriesHome'
    BY <1>1, <1>3, <1>5, <2>1, EntriesStay, KeysRest
  <2>. QED BY <1>1, <1>3, <1>4, <2>2, KeyCall
<1>7. CASE config[i] # Absent
  <2>1. PICK k \in Chosen(job[u].key) :
          /\ IF k = config[i].key THEN UNCHANGED <<config, until>>
             ELSE Replaces(i, [config[i] EXCEPT !.key = k])
          /\ handed' = [handed EXCEPT ![i] = k]
          /\ made' = made \union ({k} \intersect Generated)
          /\ dropped' = dropped \union ({config[i].key} \ {k})
    BY <1>2, <1>7 DEF RenewKey
  <2>2. /\ \A o \in Configs : o # i => config'[o] = config[o] /\ handed'[o] = handed[o]
        /\ config'[i].key = k /\ handed'[i] = k
    <3>1. handed'[i] = k /\ \A o \in Configs : o # i => handed'[o] = handed[o]
      BY <2>1 DEF ConfigTypes
    <3>2. CASE k = config[i].key
      BY <2>1, <3>1, <3>2
    <3>3. CASE k # config[i].key
      <4>. DEFINE row == [config[i] EXCEPT !.key = k]
      <4>1. Replaces(i, row) /\ row.key = k
        BY <1>7, <2>1, <3>3 DEF ConfigTypes, ConfigRows
      <4>. HIDE DEF row
      <4>2. config' = [config EXCEPT ![i] = [row EXCEPT !.version = @ + 1]]
        BY <4>1 DEF Replaces
      <4>3. [row EXCEPT !.version = @ + 1].key = k
        BY <4>1
      <4>. QED BY <3>1, <4>2, <4>3 DEF ConfigTypes
    <3>. QED BY <3>2, <3>3
  <2>3. ConfigKeys'
    BY <1>1, <1>3, <2>1, <2>2, KeyGiven
  <2>4. ASSUME NEW n \in Keys, cache'[n] # Absent, n \notin dropped' PROVE Home(n)'
    <3>1. Home(n)
      BY <1>1, <1>3, <1>5, <2>1, <2>4 DEF EntriesHome
    <3>2. PICK o \in Configs : /\ config[o] # Absent /\ config[o].key = n
                               /\ cache[n].found = <<o, config[o].version>>
      BY <3>1 DEF Home
    <3>3. config'[o] = config[o]
      <4>1. CASE o # i
        BY <2>2, <4>1
      <4>2. CASE o = i
        BY <2>1, <2>4, <3>2, <4>2
      <4>. QED BY <4>1, <4>2
    <3>. QED BY <1>1, <3>2, <3>3 DEF Home
  <2>5. EntriesHome'
    BY <2>4 DEF EntriesHome
  <2>. QED BY <1>1, <1>3, <1>4, <2>3, <2>5, KeyCall
<1>. QED BY <1>6, <1>7

\* The row keeps the key that was read, or takes the body's, whose entry goes
\* next.  The key it had before is dropped.
LEMMA KeyWrites ==
    ASSUME ConfigTypes, KeyInv, Serial, NEW u \in Administrators, NEW enabled \in BOOLEAN,
           WriteConfig(u, enabled)
    PROVE  KeyInv'
<1>. DEFINE j == [job[u] EXCEPT !.pc = "invalidate"]
<1>1. /\ job[u].pc = "read" /\ Becomes(u, j) /\ job[u] \in Calls
      /\ job[u].op \in {"update", "rekey"} /\ UNCHANGED <<balancer, cache, made>>
  BY DEF WriteConfig, ConfigTypes
<1>2. j.pc = "invalidate" /\ j.key = job[u].key
  BY <1>1 DEF Calls, Holds
<1>. HIDE DEF j
<1>3. PICK i \in Configs, key \in Keys : i = job[u].id /\ key = job[u].key
  BY <1>1 DEF Calls, CallPcs
<1>4. /\ IF job[u].op = "rekey" THEN key \in BodyKeys /\ (key \in Generated => key \in made)
         ELSE config[i] # Absent => config[i].key = key
      /\ OneBusy /\ ConfigKeys /\ EntriesHome
  BY <1>1, <1>3 DEF KeyInv, CallHolds
<1>5. job'[u].pc = "invalidate" /\ job'[u].key = key
  BY <1>1, <1>2, <1>3, <1>4, OnlyBusy
<1>6. CallHolds(u)'
  BY <1>3, <1>5 DEF CallHolds
<1>7. \A o \in Administrators : job[o].pc # "invalidate"
  BY <1>1, <1>4 DEF OneBusy
<1>8. CASE config[i] = Absent
  <2>1. UNCHANGED <<config, handed, dropped>>
    BY <1>3, <1>8 DEF WriteConfig
  <2>2. ConfigKeys' /\ EntriesHome'
    BY <1>1, <1>4, <1>7, <2>1, EntriesStay, KeysRest
  <2>. QED BY <1>1, <1>4, <1>6, <2>2, KeyCall
<1>9. CASE config[i] # Absent
  <2>. DEFINE row == [config[i] EXCEPT !.key = key, !.enabled = enabled]
  <2>1. /\ Replaces(i, row) /\ row.key = key
        /\ handed' = IF job[u].op = "rekey" THEN [handed EXCEPT ![i] = key] ELSE handed
        /\ dropped' = dropped \union ({config[i].key} \ {key})
    BY <1>3, <1>9 DEF WriteConfig, ConfigTypes, ConfigRows
  <2>. HIDE DEF row
  <2>2. /\ config'[i].key = key
        /\ \A o \in Configs : o # i => config'[o] = config[o]
    <3>1. config' = [config EXCEPT ![i] = [row EXCEPT !.version = @ + 1]]
      BY <2>1 DEF Replaces
    <3>2. [row EXCEPT !.version = @ + 1].key = key
      BY <2>1
    <3>. QED BY <3>1, <3>2 DEF ConfigTypes
  <2>3. ConfigKeys'
    <3>1. CASE job[u].op = "rekey"
      <4>1. handed'[i] = key /\ \A o \in Configs : o # i => handed'[o] = handed[o]
        BY <2>1, <3>1 DEF ConfigTypes
      <4>2. key \in BodyKeys /\ (key \in Generated => key \in made)
        BY <1>4, <3>1
      <4>. QED BY <1>1, <1>4, <2>2, <4>1, <4>2, KeyBrought
    <3>2. CASE job[u].op # "rekey"
      <4>1. config[i].key = key /\ handed' = handed
        BY <1>4, <1>9, <2>1, <3>2
      <4>2. \A o \in Configs : config'[o] # Absent =>
               config[o] # Absent /\ config'[o].key = config[o].key
        BY <1>9, <2>2, <4>1
      <4>. QED BY <1>1, <1>4, <4>1, <4>2, KeysRest
    <3>. QED BY <3>1, <3>2
  <2>4. ASSUME NEW n \in Keys, cache'[n] # Absent, n \notin dropped', n # key PROVE Home(n)'
    <3>1. Home(n)
      BY <1>1, <1>4, <1>7, <2>1, <2>4 DEF EntriesHome
    <3>2. PICK o \in Configs : /\ config[o] # Absent /\ config[o].key = n
                               /\ cache[n].found = <<o, config[o].version>>
      BY <3>1 DEF Home
    <3>3. config'[o] = config[o]
      BY <2>1, <2>2, <2>4, <3>2
    <3>. QED BY <1>1, <3>2, <3>3 DEF Home
  <2>5. EntriesHome'
    BY <1>5, <2>4 DEF EntriesHome
  <2>. QED BY <1>1, <1>4, <1>6, <2>3, <2>5, KeyCall
<1>. QED BY <1>8, <1>9

LEMMA KeyInvalidates ==
    ASSUME ConfigTypes, KeyInv, Serial, NEW u \in Administrators, Invalidate(u)
    PROVE  KeyInv'
<1>1. /\ job[u].pc \in {"invalidate", "read"} /\ job[u] \in Calls
      /\ cache' = IF job[u].key \in Keys THEN [cache EXCEPT ![job[u].key] = Absent] ELSE cache
      /\ UNCHANGED <<config, balancer, handed, made, dropped>>
  BY DEF Invalidate, ConfigTypes
<1>2. OneBusy /\ ConfigKeys /\ EntriesHome /\ CallHolds(u)
  BY DEF KeyInv
<1>3. ConfigKeys'
  BY <1>1, <1>2, KeysRest
<1>4. /\ \A k \in Keys : cache'[k] = cache[k] \/ cache'[k] = Absent
      /\ job[u].key \in Keys => cache'[job[u].key] = Absent
  BY <1>1 DEF ConfigTypes
<1>5. \A o \in Administrators : o # u => job[o].pc = "idle"
  BY <1>1, <1>2 DEF OneBusy
<1>6. EntriesHome'
  <2>1. \A o \in Administrators : job[o].pc = "invalidate" =>
          job'[o] = job[o] \/ cache'[job[o].key] = Absent \/ job[o].key \notin Keys
    BY <1>4, <1>5
  <2>. QED BY <1>1, <1>2, <1>4, <2>1, EntriesStay
<1>7. CASE Ends(u)
  <2>1. CallHolds(u)'
    BY <1>1, <1>2, <1>7, OnlyBusy, WaitingCall, IdleHolds DEF Ends
  <2>. QED BY <1>1, <1>2, <1>3, <1>6, <1>7, <2>1, KeyCall DEF Ends
<1>8. CASE job[u].pc = "read" /\ job[u].op = "delete" /\ Becomes(u, [job[u] EXCEPT !.pc = "delete"])
  <2>. DEFINE j == [job[u] EXCEPT !.pc = "delete"]
  <2>1. j.pc = "delete" /\ j.key = job[u].key /\ j.id = job[u].id
    BY <1>1 DEF Calls, Holds
  <2>. HIDE DEF j
  <2>2. job'[u].pc = "delete" /\ job'[u].key = job[u].key /\ job'[u].id = job[u].id
    <3>1. job'[u] = j
      BY <1>1, <1>2, <1>8, OnlyBusy DEF j
    <3>. QED BY <2>1, <3>1
  <2>3. config[job[u].id] # Absent => config[job[u].id].key = job[u].key
    BY <1>2, <1>8 DEF CallHolds
  <2>4. job[u].key \in Keys
    BY <1>1, <1>8 DEF Calls
  <2>5. cache'[job[u].key] = Absent
    BY <1>4, <2>4
  <2>6. CallHolds(u)'
    BY <1>1, <2>2, <2>3, <2>5 DEF CallHolds
  <2>. QED BY <1>1, <1>2, <1>3, <1>6, <1>8, <2>6, KeyCall
<1>. QED BY <1>7, <1>8 DEF Invalidate

LEMMA KeyDeletes ==
    ASSUME ConfigTypes, KeyInv, Serial, NEW u \in Administrators, DeleteRow(u)
    PROVE  KeyInv'
<1>1. /\ job[u].pc = "delete" /\ Becomes(u, Waiting) /\ job[u] \in Calls
      /\ UNCHANGED <<balancer, cache, handed, made>>
  BY DEF DeleteRow, Ends, ConfigTypes
<1>2. PICK i \in Configs : i = job[u].id
  BY <1>1 DEF Calls, CallPcs
<1>3. /\ OneBusy /\ ConfigKeys /\ EntriesHome
      /\ config[i] # Absent /\ job[u].key # NoKey =>
           config[i].key = job[u].key /\ cache[job[u].key] = Absent
  BY <1>1, <1>2 DEF KeyInv, CallHolds
<1>4. /\ config' = [config EXCEPT ![i] = Absent]
      /\ dropped' = IF job[u].key = NoKey /\ config[i] # Absent
                    THEN dropped \union {config[i].key} ELSE dropped
  BY <1>2 DEF DeleteRow
<1>5. config'[i] = Absent /\ \A o \in Configs : o # i => config'[o] = config[o]
  BY <1>4 DEF ConfigTypes
<1>6. ConfigKeys'
  BY <1>1, <1>3, <1>5, KeysRest
<1>7. \A o \in Administrators : job[o].pc # "invalidate"
  BY <1>1, <1>3 DEF OneBusy
<1>8. ASSUME NEW n \in Keys, cache'[n] # Absent, n \notin dropped' PROVE Home(n)'
  <2>1. Home(n)
    BY <1>1, <1>3, <1>4, <1>7, <1>8 DEF EntriesHome
  <2>2. PICK o \in Configs : /\ config[o] # Absent /\ config[o].key = n
                             /\ cache[n].found = <<o, config[o].version>>
    BY <2>1 DEF Home
  <2>3. o # i
    BY <1>1, <1>3, <1>4, <1>8, <2>2
  <2>. QED BY <1>1, <1>5, <2>2, <2>3 DEF Home
<1>9. EntriesHome'
  BY <1>8 DEF EntriesHome
<1>10. CallHolds(u)'
  BY <1>1, <1>3, OnlyBusy, WaitingCall, IdleHolds
<1>. QED BY <1>1, <1>3, <1>6, <1>9, <1>10, KeyCall

LEMMA KeyFails ==
    ASSUME ConfigTypes, KeyInv, Serial, NEW u \in Administrators, ConfigStatementFails(u)
    PROVE  KeyInv'
<1>1. /\ job[u].pc \in {"create", "renew", "read", "delete"} /\ Becomes(u, Waiting)
      /\ UNCHANGED <<config, balancer, cache, handed, made, dropped>>
  BY DEF ConfigStatementFails, Ends
<1>2. OneBusy /\ ConfigKeys /\ EntriesHome /\ ConfigKeys'
  BY <1>1, KeysRest DEF KeyInv
<1>3. \A o \in Administrators : job[o].pc # "invalidate"
  BY <1>1, <1>2 DEF OneBusy
<1>4. EntriesHome'
  BY <1>1, <1>2, <1>3, EntriesStay
<1>5. CallHolds(u)'
  BY <1>1, <1>2, OnlyBusy, WaitingCall, IdleHolds
<1>. QED BY <1>1, <1>2, <1>4, <1>5, KeyCall

LEMMA KeyInvStep ==
    ASSUME ConfigTypes, KeyInv, [PersistenceNext]_persistenceVars
    PROVE  KeyInv'
<1>1. part' = part
  BY ConfigSteps
<1>2. CASE ~Serial
  BY <1>1, <1>2 DEF KeyInv, Serial
<1>3. CASE Serial
  <2>1. CASE UNCHANGED configVars
    <3>1. UNCHANGED <<config, balancer, cache, handed, made, dropped, job>>
      BY <2>1 DEF configVars
    <3>2. (OneBusy /\ ConfigKeys)' /\ \A u \in Administrators : CallHolds(u)'
      BY <1>3, <3>1 DEF KeyInv, OneBusy, ConfigKeys, CallHolds, InUse
    <3>3. EntriesHome' /\ \A c \in Clients : ClientHolds(c)'
      BY <1>3, <3>1 DEF KeyInv, EntriesHome, Home, ClientHolds
    <3>. QED BY <3>2, <3>3 DEF KeyInv
  <2>2. ASSUME NEW u \in Administrators, GoesOn(u) PROVE KeyInv'
    BY <1>3, <2>2, KeyInserts, KeyRenews, KeyWrites, KeyInvalidates, KeyDeletes, KeyFails DEF GoesOn
  <2>. QED BY <1>1, <1>3, <2>1, <2>2, KeyedSteps, KeyTick, KeyCleanup, KeyClient, KeyBegins
<1>. QED BY <1>2, <1>3

LEMMA KeysLead == ASSUME ConfigTypes, KeyInv PROVE KeysFollowed
<1>. SUFFICES ASSUME Serial, NobodyBusy, NEW i \in Configs, config[i] # Absent
              PROVE  /\ config[i].key = handed[i]
                     /\ Shared(i) => config[i].key \in BodyKeys \union BalancerTokens
                     /\ config[i].enabled /\ ~Shared(i) /\ handed[i] \notin dropped
                          => Lookups(handed[i]) = {<<i, config[i].version>>}
  BY DEF KeysFollowed, KeysLeadHome
<1>1. ConfigKeys /\ EntriesHome
  BY DEF KeyInv
<1>2. config[i].key = handed[i]
  BY <1>1 DEF ConfigKeys
<1>3. ASSUME Shared(i) PROVE config[i].key \in BodyKeys \union BalancerTokens
  <2>1. CASE InUse(config[i].key, i)
    <3>1. PICK j \in Configs \ {i} : config[j] # Absent /\ config[j].key = config[i].key
      BY <2>1 DEF InUse
    <3>. QED BY <1>1, <3>1 DEF ConfigKeys
  <2>2. ASSUME NEW b \in Balancers, balancer[b] # Absent, balancer[b].key = config[i].key
        PROVE  config[i].key \in BodyKeys \union BalancerTokens
    BY <1>1, <2>2 DEF ConfigKeys
  <2>. QED BY <1>3, <2>1, <2>2 DEF Shared
<1>4. ASSUME config[i].enabled, ~Shared(i), handed[i] \notin dropped
      PROVE  Lookups(handed[i]) = {<<i, config[i].version>>}
  <2>1. PICK k \in Keys : k = config[i].key
    BY DEF ConfigTypes, ConfigRows
  <2>2. \A j \in Configs : config[j] # Absent /\ config[j].key = k => j = i
    BY <1>4, <2>1 DEF Shared, InUse
  <2>3. {b \in Balancers : balancer[b] # Absent /\ balancer[b].key = k /\ balancer[b].enabled} = {}
    BY <1>4, <2>1 DEF Shared
  <2>4. CASE Fresh(k)
    <3>1. Home(k)
      BY <1>1, <1>2, <1>4, <2>1, <2>4 DEF EntriesHome, Fresh, NobodyBusy
    <3>2. cache[k].found = <<i, config[i].version>>
      BY <2>2, <3>1 DEF Home
    <3>. QED BY <1>2, <2>1, <2>3, <2>4, <3>2 DEF Lookups
  <2>5. CASE ~Fresh(k)
    <3>1. {<<j, config[j].version>> :
             j \in {o \in Configs : config[o] # Absent /\ config[o].key = k /\ config[o].enabled}}
            = {<<i, config[i].version>>}
      BY <1>4, <2>1, <2>2
    <3>. QED BY <1>2, <2>1, <2>3, <2>5, <3>1 DEF Lookups
  <2>. QED BY <2>4, <2>5
<1>. QED BY <1>2, <1>3, <1>4

\* CreateMessage and the administration: between calls, the key last handed out
\* for a configuration is the row's, and leads to the row as it is now, unless
\* another row has it too; and that happens only with a key that an update brought
\* in its body or with a token a load balancer was given.  A renewed or changed
\* row's old entry is never served under the new key, and a new row never inherits
\* the entry of one that was deleted.
THEOREM KeysLeadToTheirRows == Spec => []KeysFollowed
<1>. DEFINE Inv == ConfigTypes /\ KeyInv
<1>1. PersistenceInit => Inv
  BY ConfigTypesInit, KeyInvInit
<1>2. Inv /\ [PersistenceNext]_persistenceVars => Inv'
  BY ConfigTypesStep, KeyInvStep
<1>3. Inv => KeysFollowed
  BY KeysLead
<1>. QED BY <1>1, <1>2, <1>3, PTL DEF Spec
=============================================================================
