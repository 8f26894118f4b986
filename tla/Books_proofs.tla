---------------------------- MODULE Books_proofs ----------------------------
(***************************************************************************)
(* Proofs about the two books the office keeps: what the budgets say was   *)
(* spent (Budgets), and what the audit trail says was done (AuditLog).     *)
(* For every number of runs, threads, budgets, sessions, events and days.  *)
(* Both add things up, so sums come first.                                 *)
(***************************************************************************)
EXTENDS Budgets, AuditLog, FiniteSetTheorems, WellFoundedInduction, NaturalsInduction, TLAPS

-----------------------------------------------------------------------------
(* Sums over finite sets, in whatever order a fold takes their elements:   *)
(* each fact is proved of the smallest set it could fail for.              *)

\* Any nonempty set of numbers has a least one.
LEMMA SmallestNat ==
  ASSUME NEW T \in SUBSET Nat, T # {}
  PROVE  \E n \in T : \A m \in T : n <= m
<1>1. IsWellFoundedOn(OpToRel(<, Nat), Nat)
  BY NatLessThanWellFounded
<1>2. \E x \in T : \A y \in T : ~ (<<y, x>> \in OpToRel(<, Nat))
  BY <1>1, WFMin
<1>3. PICK x \in T : \A y \in T : ~ (<<y, x>> \in OpToRel(<, Nat))
  BY <1>2
<1>4. \A y \in T : ~(y < x)
  BY <1>3 DEF OpToRel
<1> QED BY <1>4

\* The element a fold takes first.
First(s) == CHOOSE x \in s : TRUE

\* g adds w up over the subsets of S, the way a fold over S does.
IsSum(g, w, S) ==
  g = [s \in SUBSET S |-> IF s = {} THEN 0 ELSE w[First(s)] + g[s \ {First(s)}]]

SumOf(w, S) == (CHOOSE g : IsSum(g, w, S))[S]

LEMMA FirstIn ==
  ASSUME NEW s, s # {}
  PROVE  First(s) \in s
BY DEF First

LEMMA SumAt ==
  ASSUME NEW g, NEW w, NEW S, IsSum(g, w, S), NEW s \in SUBSET S
  PROVE  /\ s = {} => g[s] = 0
         /\ s # {} => g[s] = w[First(s)] + g[s \ {First(s)}]
BY DEF IsSum

LEMMA SumExists ==
  ASSUME NEW w, NEW S, IsFiniteSet(S)
  PROVE  \E g : IsSum(g, w, S)
<1> DEFINE Few(n) == {s \in SUBSET S : Cardinality(s) <= n}
           Adds(g, n) == g = [s \in Few(n) |->
                                IF s = {} THEN 0 ELSE w[First(s)] + g[s \ {First(s)}]]
           Bad == {n \in Nat : ~ \E g : Adds(g, n)}
<1>1. SUFFICES Bad = {}
  <2>1. Cardinality(S) \in Nat
    BY FS_CardinalityType
  <2>2. PICK g : Adds(g, Cardinality(S))
    BY <1>1, <2>1
  <2>3. Few(Cardinality(S)) = SUBSET S
    BY FS_Subset, <2>1
  <2> QED BY <2>2, <2>3 DEF IsSum
<1>2. SUFFICES ASSUME Bad # {} PROVE FALSE
  OBVIOUS
<1>3. PICK n \in Bad : \A m \in Bad : n <= m
  BY <1>2, SmallestNat
<1>4. \A s \in SUBSET S : IsFiniteSet(s) /\ Cardinality(s) \in Nat
  BY FS_Subset, FS_CardinalityType
<1>5. \A s \in SUBSET S :
        s # {} => s \ {First(s)} \in SUBSET S /\ Cardinality(s \ {First(s)}) = Cardinality(s) - 1
  BY <1>4, FirstIn, FS_RemoveElement
<1>6. CASE n = 0
  <2>1. \A s \in SUBSET S : Cardinality(s) <= 0 => s = {}
    BY <1>4, FS_EmptySet
  <2>2. Adds([s \in Few(0) |-> 0], 0)
    BY <2>1, Zenon
  <2> QED BY <2>2, <1>6
<1>7. CASE n # 0
  <2>0. n \in Nat
    BY <1>3
  <2>1. n - 1 \in Nat /\ n - 1 \notin Bad
    <3> HIDE DEF Bad
    <3> QED BY <1>7, <1>3, <2>0
  <2>2. PICK g : Adds(g, n - 1)
    BY <2>1
  <2> DEFINE h == [s \in Few(n) |-> IF s = {} THEN 0 ELSE w[First(s)] + g[s \ {First(s)}]]
  <2>3. \A s \in Few(n - 1) : s \in Few(n)
    BY <1>3, <1>4
  <2>4. \A s \in Few(n - 1) : g[s] = h[s]
    BY <2>2, <2>3
  <2>5. \A s \in Few(n) : s # {} => s \ {First(s)} \in Few(n - 1)
    BY <1>5, <1>4, <1>3
  <2>6. \A s \in Few(n) : h[s] = IF s = {} THEN 0 ELSE w[First(s)] + h[s \ {First(s)}]
    BY <2>5, <2>4
  <2>7. h = [s \in Few(n) |-> h[s]]
    OBVIOUS
  <2>8. Adds(h, n)
    BY <2>6, <2>7, Zenon
  <2> QED BY <2>8, <1>3
<1> QED BY <1>6, <1>7

LEMMA SumUnique ==
  ASSUME NEW w, NEW v, NEW S, IsFiniteSet(S), NEW T \in SUBSET S,
         \A x \in T : w[x] = v[x],
         NEW g, IsSum(g, w, S), NEW h, IsSum(h, v, T)
  PROVE  \A s \in SUBSET T : g[s] = h[s]
<1> DEFINE Bad == {n \in Nat : \E s \in SUBSET T : Cardinality(s) = n /\ g[s] # h[s]}
<1>1. \A s \in SUBSET T : IsFiniteSet(s) /\ Cardinality(s) \in Nat
  BY FS_Subset, FS_CardinalityType
<1>2. SUFFICES ASSUME Bad # {} PROVE FALSE
  BY <1>1
<1>3. PICK n \in Bad : \A m \in Bad : n <= m
  BY <1>2, SmallestNat
<1>4. PICK s \in SUBSET T : Cardinality(s) = n /\ g[s] # h[s]
  BY <1>3
<1>5. s # {}
  <2>1. {} \in SUBSET S /\ {} \in SUBSET T
    OBVIOUS
  <2>2. g[{}] = 0 /\ h[{}] = 0
    BY <2>1, SumAt, Zenon
  <2> QED BY <1>4, <2>2
<1> DEFINE r == s \ {First(s)}
<1>6a. First(s) \in s
  BY <1>5, FirstIn
<1>6b. Cardinality(r) = n - 1 /\ n - 1 \in Nat
  BY <1>6a, <1>4, <1>1, FS_RemoveElement, FS_EmptySet
<1>6. First(s) \in s /\ r \in SUBSET T /\ Cardinality(r) = n - 1 /\ n - 1 \in Nat
  BY <1>6a, <1>6b
<1>7. n - 1 \notin Bad
  BY <1>3
<1>8. g[r] = h[r]
  BY <1>6, <1>7
<1>9. g[s] = w[First(s)] + g[r]
  <2>1. s \in SUBSET S
    OBVIOUS
  <2>2. IsSum(g, w, S)
    OBVIOUS
  <2>3. \A q \in SUBSET S : q # {} => g[q] = w[First(q)] + g[q \ {First(q)}]
    <3> SUFFICES ASSUME NEW q \in SUBSET S PROVE q # {} => g[q] = w[First(q)] + g[q \ {First(q)}]
      OBVIOUS
    <3> QED BY <2>2, SumAt
  <2> QED BY <1>5, <2>1, <2>3
<1>10. h[s] = v[First(s)] + h[r]
  BY <1>5, SumAt
<1> QED BY <1>4, <1>6, <1>8, <1>9, <1>10

LEMMA SumInt ==
  ASSUME NEW S, IsFiniteSet(S), NEW w, \A x \in S : w[x] \in Int, NEW g, IsSum(g, w, S)
  PROVE  \A s \in SUBSET S : g[s] \in Int
<1> DEFINE Bad == {n \in Nat : \E s \in SUBSET S : Cardinality(s) = n /\ g[s] \notin Int}
<1>1. \A s \in SUBSET S : IsFiniteSet(s) /\ Cardinality(s) \in Nat
  BY FS_Subset, FS_CardinalityType
<1>2. SUFFICES ASSUME Bad # {} PROVE FALSE
  BY <1>1
<1>3. PICK n \in Bad : \A m \in Bad : n <= m
  BY <1>2, SmallestNat
<1>4. PICK s \in SUBSET S : Cardinality(s) = n /\ g[s] \notin Int
  BY <1>3
<1>5. s # {}
  <2>1. {} \in SUBSET S
    OBVIOUS
  <2>2. g[{}] = 0
    BY <2>1, SumAt
  <2> QED BY <1>4, <2>2
<1> DEFINE r == s \ {First(s)}
<1>6a. First(s) \in s
  BY <1>5, FirstIn
<1>6b. Cardinality(r) = n - 1 /\ n - 1 \in Nat
  BY <1>6a, <1>4, <1>1, FS_RemoveElement, FS_EmptySet
<1>6. First(s) \in s /\ r \in SUBSET S /\ Cardinality(r) = n - 1 /\ n - 1 \in Nat
  BY <1>6a, <1>6b
<1>7. n - 1 \notin Bad
  BY <1>3
<1>8. g[r] \in Int
  BY <1>6, <1>7
<1>9. g[s] = w[First(s)] + g[r]
  BY <1>5, SumAt
<1> QED BY <1>4, <1>6, <1>8, <1>9

\* Whichever element is taken first.
LEMMA SumAnyFirst ==
  ASSUME NEW S, IsFiniteSet(S), NEW w, \A x \in S : w[x] \in Int, NEW g, IsSum(g, w, S)
  PROVE  \A s \in SUBSET S : \A y \in s : g[s] = w[y] + g[s \ {y}]
<1> DEFINE Bad == {n \in Nat : \E s \in SUBSET S : Cardinality(s) = n /\ \E y \in s : g[s] # w[y] + g[s \ {y}]}
<1>1. \A s \in SUBSET S : IsFiniteSet(s) /\ Cardinality(s) \in Nat
  BY FS_Subset, FS_CardinalityType
<1>2. SUFFICES ASSUME Bad # {} PROVE FALSE
  BY <1>1
<1>3. PICK n \in Bad : \A m \in Bad : n <= m
  BY <1>2, SmallestNat
<1>4. PICK s \in SUBSET S : Cardinality(s) = n /\ \E y \in s : g[s] # w[y] + g[s \ {y}]
  BY <1>3
<1>5. PICK y \in s : g[s] # w[y] + g[s \ {y}]
  BY <1>4
<1>6. PICK x : x = First(s)
  OBVIOUS
<1>7. x \in s /\ g[s] = w[x] + g[s \ {x}]
  BY <1>5, <1>6, FirstIn, SumAt
<1>8. x # y
  BY <1>5, <1>7
<1>9. /\ s \ {x} \in SUBSET S /\ Cardinality(s \ {x}) = n - 1
      /\ s \ {y} \in SUBSET S /\ Cardinality(s \ {y}) = n - 1 /\ n - 1 \in Nat
  BY <1>7, <1>4, <1>1, FS_RemoveElement
<1>10. n - 1 \notin Bad
  BY <1>3
<1>11. g[s \ {x}] = w[y] + g[(s \ {x}) \ {y}]
  BY <1>9, <1>10, <1>8
<1>12. g[s \ {y}] = w[x] + g[(s \ {y}) \ {x}]
  BY <1>9, <1>10, <1>8, <1>7
<1>13. (s \ {x}) \ {y} = (s \ {y}) \ {x}
  OBVIOUS
<1>14. g[(s \ {x}) \ {y}] \in Int /\ w[x] \in Int /\ w[y] \in Int
  BY SumInt, <1>7
<1> DEFINE rest == g[(s \ {x}) \ {y}]
<1>15. g[s] = w[x] + (w[y] + rest) /\ g[s \ {y}] = w[x] + rest /\ rest \in Int
  BY <1>7, <1>11, <1>12, <1>13, <1>14
<1>16. w[x] \in Int /\ w[y] \in Int
  BY <1>14
<1> HIDE DEF rest
<1>17. g[s] = w[y] + g[s \ {y}]
  BY <1>15, <1>16
<1> QED BY <1>5, <1>17

-----------------------------------------------------------------------------
LEMMA SumIs ==
  ASSUME NEW S, IsFiniteSet(S), NEW w, NEW g, IsSum(g, w, S)
  PROVE  SumOf(w, S) = g[S]
<1>1. IsSum(CHOOSE h : IsSum(h, w, S), w, S)
  OBVIOUS
<1>2. PICK h : h = CHOOSE k : IsSum(k, w, S)
  OBVIOUS
<1>3. IsSum(h, w, S)
  BY <1>1, <1>2
<1>4. \A s \in SUBSET S : h[s] = g[s]
  <2>1. S \in SUBSET S /\ \A x \in S : w[x] = w[x]
    OBVIOUS
  <2> QED BY <1>3, <2>1, SumUnique
<1> QED BY <1>4, <1>2 DEF SumOf

LEMMA SumOfNone ==
  ASSUME NEW w
  PROVE  SumOf(w, {}) = 0
<1>1. IsFiniteSet({})
  BY FS_EmptySet
<1>2. PICK g : IsSum(g, w, {})
  BY <1>1, SumExists
<1>3. g[{}] = 0
  BY <1>2, SumAt
<1> QED BY <1>1, <1>2, <1>3, SumIs

\* The sum does not depend on anything but the values.
LEMMA SumSame ==
  ASSUME NEW S, IsFiniteSet(S), NEW w, NEW v, \A x \in S : w[x] = v[x]
  PROVE  SumOf(w, S) = SumOf(v, S)
<1>1. PICK g : IsSum(g, w, S)
  BY SumExists
<1>2. PICK h : IsSum(h, v, S)
  BY SumExists
<1>3. g[S] = h[S]
  BY <1>1, <1>2, SumUnique
<1> QED BY <1>1, <1>2, <1>3, SumIs

LEMMA SumOfInt ==
  ASSUME NEW S, IsFiniteSet(S), NEW w, \A x \in S : w[x] \in Int
  PROVE  SumOf(w, S) \in Int
<1>1. PICK g : IsSum(g, w, S)
  BY SumExists
<1>2. g[S] \in Int
  BY <1>1, SumInt
<1> QED BY <1>1, <1>2, SumIs

LEMMA SumWithout ==
  ASSUME NEW S, IsFiniteSet(S), NEW w, \A x \in S : w[x] \in Int, NEW y \in S
  PROVE  SumOf(w, S) = w[y] + SumOf(w, S \ {y})
<1>1. PICK g : IsSum(g, w, S)
  BY SumExists
<1>2. IsFiniteSet(S \ {y})
  BY FS_Subset
<1>3. PICK h : IsSum(h, w, S \ {y})
  BY SumExists, <1>2
<1>4. g[S] = w[y] + g[S \ {y}]
  BY <1>1, SumAnyFirst
<1>5. \A s \in SUBSET (S \ {y}) : g[s] = h[s]
  BY <1>1, <1>3, SumUnique
<1>6. SumOf(w, S) = g[S]
  BY <1>1, SumIs
<1>7. SumOf(w, S \ {y}) = h[S \ {y}]
  BY <1>2, <1>3, SumIs
<1> QED BY <1>4, <1>5, <1>6, <1>7

LEMMA SumWith ==
  ASSUME NEW S, IsFiniteSet(S), NEW y, y \notin S, NEW w, \A x \in S \cup {y} : w[x] \in Int
  PROVE  SumOf(w, S \cup {y}) = SumOf(w, S) + w[y]
<1>1. IsFiniteSet(S \cup {y}) /\ (S \cup {y}) \ {y} = S
  BY FS_AddElement
<1>2. SumOf(w, S \cup {y}) = w[y] + SumOf(w, (S \cup {y}) \ {y})
  BY <1>1, SumWithout
<1>3. SumOf(w, S) \in Int /\ w[y] \in Int
  BY SumOfInt
<1>4. SumOf(w, S \cup {y}) = w[y] + SumOf(w, S)
  BY <1>1, <1>2
<1> QED BY <1>3, <1>4

\* Terms that are no smaller add up to no less.
LEMMA SumGrows ==
  ASSUME NEW S, IsFiniteSet(S), NEW w, NEW v,
         \A x \in S : w[x] \in Int /\ v[x] \in Int /\ w[x] <= v[x]
  PROVE  SumOf(w, S) <= SumOf(v, S)
<1> DEFINE Bad == {n \in Nat : \E s \in SUBSET S : Cardinality(s) = n /\ ~(SumOf(w, s) <= SumOf(v, s))}
<1>1. \A s \in SUBSET S : IsFiniteSet(s) /\ Cardinality(s) \in Nat
  BY FS_Subset, FS_CardinalityType
<1>2. SUFFICES ASSUME Bad # {} PROVE FALSE
  BY <1>1
<1>3. PICK n \in Bad : \A m \in Bad : n <= m
  BY <1>2, SmallestNat
<1>4. PICK s \in SUBSET S : Cardinality(s) = n /\ ~(SumOf(w, s) <= SumOf(v, s))
  BY <1>3
<1>5. s # {}
  BY <1>4, SumOfNone
<1>6. PICK y \in s : TRUE
  BY <1>5
<1>7. s \ {y} \in SUBSET S /\ Cardinality(s \ {y}) = n - 1 /\ n - 1 \in Nat
  <2>1. IsFiniteSet(s) /\ s \ {y} \in SUBSET S
    BY <1>1, <1>4
  <2>2. Cardinality(s \ {y}) = Cardinality(s) - 1
    BY <1>6, <2>1, FS_RemoveElement
  <2>3. Cardinality(s \ {y}) \in Nat
    BY <1>1, <2>1
  <2> QED BY <1>4, <2>1, <2>2, <2>3
<1>8. n - 1 \notin Bad
  BY <1>3
<1>9. SumOf(w, s \ {y}) <= SumOf(v, s \ {y})
  BY <1>7, <1>8
<1>10. SumOf(w, s) = w[y] + SumOf(w, s \ {y})
  BY <1>1, SumWithout
<1>11. SumOf(v, s) = v[y] + SumOf(v, s \ {y})
  BY <1>1, SumWithout
<1>12. SumOf(w, s \ {y}) \in Int /\ SumOf(v, s \ {y}) \in Int
  BY <1>1, <1>7, SumOfInt
<1> QED BY <1>4, <1>9, <1>10, <1>11, <1>12

\* One term changes, and the sum by as much.
LEMMA SumOneMore ==
  ASSUME NEW S, IsFiniteSet(S), NEW y \in S, NEW d \in Int, NEW w, NEW v,
         \A x \in S : w[x] \in Int, v[y] = w[y] + d, \A x \in S \ {y} : v[x] = w[x]
  PROVE  SumOf(v, S) = SumOf(w, S) + d
<1>1. IsFiniteSet(S \ {y})
  BY FS_Subset
<1>2. \A x \in S : v[x] \in Int
  OBVIOUS
<1>3. SumOf(w, S) = w[y] + SumOf(w, S \ {y})
  BY SumWithout
<1>4. SumOf(v, S) = v[y] + SumOf(v, S \ {y})
  BY SumWithout, <1>2
<1>5. SumOf(v, S \ {y}) = SumOf(w, S \ {y})
  BY <1>1, SumSame
<1>6. SumOf(w, S \ {y}) \in Int
  BY <1>1, SumOfInt
<1> QED BY <1>3, <1>4, <1>5, <1>6

LEMMA SumZero ==
  ASSUME NEW S, IsFiniteSet(S), NEW w, \A x \in S : w[x] = 0
  PROVE  SumOf(w, S) = 0
<1> DEFINE Bad == {n \in Nat : \E s \in SUBSET S : Cardinality(s) = n /\ SumOf(w, s) # 0}
<1>1. \A s \in SUBSET S : IsFiniteSet(s) /\ Cardinality(s) \in Nat
  BY FS_Subset, FS_CardinalityType
<1>2. SUFFICES ASSUME Bad # {} PROVE FALSE
  BY <1>1
<1>3. PICK n \in Bad : \A m \in Bad : n <= m
  BY <1>2, SmallestNat
<1>4. PICK s \in SUBSET S : Cardinality(s) = n /\ SumOf(w, s) # 0
  BY <1>3
<1>5. s # {}
  BY <1>4, SumOfNone
<1>6. PICK y \in s : TRUE
  BY <1>5
<1>7. s \ {y} \in SUBSET S /\ Cardinality(s \ {y}) = n - 1 /\ n - 1 \in Nat
  <2>1. IsFiniteSet(s) /\ s \ {y} \in SUBSET S
    BY <1>1, <1>4
  <2>2. Cardinality(s \ {y}) = Cardinality(s) - 1
    BY <1>6, <2>1, FS_RemoveElement
  <2>3. Cardinality(s \ {y}) \in Nat
    BY <1>1, <2>1
  <2> QED BY <1>4, <2>1, <2>2, <2>3
<1>8. n - 1 \notin Bad
  BY <1>3
<1>9. SumOf(w, s \ {y}) = 0
  BY <1>7, <1>8
<1>10. SumOf(w, s) = w[y] + SumOf(w, s \ {y})
  BY <1>1, SumWithout
<1> QED BY <1>4, <1>9, <1>10

LEMMA ReceiptSum ==
  ASSUME NEW C, IsFiniteSet(C)
  PROVE  MapThenSumSet(LAMBDA c : c.deleted, C) = SumOf([c \in C |-> c.deleted], C)
<1> DEFINE IsIt(g) == g = [s \in SUBSET C |-> IF s = {} THEN 0 ELSE First(s).deleted + g[s \ {First(s)}]]
           w == [c \in C |-> c.deleted]
<1>1. MapThenSumSet(LAMBDA c : c.deleted, C) = (CHOOSE g : IsIt(g))[C]
  BY DEF MapThenSumSet, MapThenFoldSet, First
<1>2. PICK k : IsSum(k, w, C)
  BY SumExists
<1>3. \A s \in SUBSET C : s # {} => w[First(s)] = First(s).deleted
  BY FirstIn
<1>4. \A g : IsIt(g) <=> IsSum(g, w, C)
  BY <1>3 DEF IsSum
<1>5. PICK h : h = CHOOSE g : IsIt(g)
  OBVIOUS
<1>6. IsIt(h)
  BY <1>2, <1>4, <1>5
<1>7. IsSum(h, w, C)
  BY <1>6, <1>4
<1>8. SumOf(w, C) = h[C]
  BY <1>7, SumIs
<1> QED BY <1>1, <1>5, <1>8

-----------------------------------------------------------------------------
(* What sessions hold. *)

\* Budget rows as they are read, kept and written: some ids, a row for each.
BudgetTable == UNION {[S -> BudgetRow] : S \in SUBSET Ids}

TurnRow ==
  [pc : {"idle", "taken", "passed", "checking", "turn", "metered", "charging"},
   run : Runs \cup {0},
   units : 0..TurnUnits, took : 0..MaxTime, seen : BudgetTable]

TypeInv ==
  /\ BudgetsTypeOK
  /\ budgets \in BudgetTable /\ turn \in [Threads -> TurnRow]

LEMMA Bounds ==
  TurnUnits \in Nat /\ MaxTime \in Nat /\ MaxTurns \in Nat /\ MaxMoves \in Nat /\ MaxDowns \in Nat
BY Zenon, BudgetsAssumption

LEMMA OneMore ==
  ASSUME NEW m \in Nat, NEW n \in 0..m, n < m
  PROVE  n + 1 \in 0..m
OBVIOUS

LEMMA TableOf ==
  ASSUME NEW S \in SUBSET Ids, NEW f, f = [i \in S |-> f[i]], \A i \in S : f[i] \in BudgetRow
  PROVE  f \in BudgetTable
<1>1. f \in [S -> BudgetRow]
  OBVIOUS
<1> QED BY <1>1 DEF BudgetTable

LEMMA OfTable ==
  ASSUME NEW f \in BudgetTable
  PROVE  DOMAIN f \in SUBSET Ids /\ \A i \in DOMAIN f : f[i] \in BudgetRow
BY DEF BudgetTable

LEMMA NoRows == <<>> \in BudgetTable
<1>1. <<>> = [i \in {} |-> 0] /\ DOMAIN <<>> = {}
  OBVIOUS
<1> QED BY <1>1 DEF BudgetTable

LEMMA IdleIsATurn == Idle \in TurnRow
<1>1. 0 \in 0..TurnUnits /\ 0 \in 0..MaxTime
  BY Bounds
<1> QED BY <1>1, NoRows DEF Idle, TurnRow

LEMMA RolledType ==
  ASSUME NEW b \in BudgetRow, NEW t \in Nat
  PROVE  Rolled(b, t) \in BudgetRow
BY DEF Rolled, BudgetRow

LEMMA LoadedType ==
  ASSUME budgets \in BudgetTable, NEW r
  PROVE  Loaded(r) \in BudgetTable
<1>1. BudgetsFor(r) \in SUBSET Ids /\ \A i \in BudgetsFor(r) : budgets[i] \in BudgetRow
  BY OfTable DEF BudgetsFor
<1> QED BY <1>1, TableOf DEF Loaded

LEMMA AfterCheckType ==
  ASSUME turn \in [Threads -> TurnRow], NEW w \in Threads
  PROVE  AfterCheck(w) \in BudgetTable
<1>1. turn[w].seen \in BudgetTable /\ turn[w].took \in Nat
  BY Bounds DEF TurnRow
<1>2. Examined(w) \in SUBSET Ids /\ Examined(w) \subseteq DOMAIN turn[w].seen
  BY <1>1, OfTable DEF Examined
<1>3. \A i \in Examined(w) : Rolled(turn[w].seen[i], turn[w].took) \in BudgetRow
  BY <1>1, <1>2, OfTable, RolledType
<1> QED BY <1>2, <1>3, TableOf DEF AfterCheck

LEMMA ChargedType ==
  ASSUME NEW b \in BudgetRow, NEW u \in Nat, NEW t \in Nat
  PROVE  [b EXCEPT !.used = @ + u, !.started = IF @ = Blank THEN t ELSE @] \in BudgetRow
<1>0. b.used \in Nat /\ b.started \in Nat \cup {Blank}
  BY DEF BudgetRow
<1>1. b.used + u \in Nat /\ (IF b.started = Blank THEN t ELSE b.started) \in Nat \cup {Blank}
  BY <1>0
<1> DEFINE used == b.used + u
           started == IF b.started = Blank THEN t ELSE b.started
<1> HIDE DEF used, started
<1>2. [b EXCEPT !.used = used, !.started = started] \in BudgetRow
  BY <1>1 DEF BudgetRow, used, started
<1> QED BY <1>2 DEF used, started

LEMMA AfterChargeType ==
  ASSUME turn \in [Threads -> TurnRow], NEW w \in Threads
  PROVE  AfterCharge(w) \in BudgetTable
<1>1. turn[w].seen \in BudgetTable /\ turn[w].took \in Nat /\ turn[w].units \in Nat
  BY Bounds DEF TurnRow
<1>2. DOMAIN turn[w].seen \in SUBSET Ids
  BY <1>1, OfTable
<1>3. \A i \in DOMAIN turn[w].seen : Rolled(turn[w].seen[i], turn[w].took) \in BudgetRow
  BY <1>1, OfTable, RolledType
<1>4. \A i \in DOMAIN turn[w].seen : AfterCharge(w)[i] \in BudgetRow
  BY <1>1, <1>3, ChargedType DEF AfterCharge
<1> QED BY <1>2, <1>4, TableOf DEF AfterCharge

LEMMA WrittenType ==
  ASSUME budgets \in BudgetTable, NEW w, NEW made \in BudgetTable
  PROVE  Written(w, made) \in BudgetTable /\ Overtaken(w, made) \subseteq Ids
<1>1. DOMAIN budgets \in SUBSET Ids /\ \A i \in DOMAIN budgets : budgets[i] \in BudgetRow
  BY OfTable
<1>2. Dirty(w, made) \subseteq DOMAIN made /\ \A i \in DOMAIN made : made[i] \in BudgetRow
  BY OfTable DEF Dirty
<1>3. \A i \in DOMAIN budgets : Written(w, made)[i] \in BudgetRow
  <2> SUFFICES ASSUME NEW i \in DOMAIN budgets PROVE Written(w, made)[i] \in BudgetRow
    OBVIOUS
  <2>1. CASE i \notin Dirty(w, made)
    BY <1>1, <2>1 DEF Written
  <2>2. CASE i \in Dirty(w, made)
    <3>1. budgets[i] \in BudgetRow /\ made[i] \in BudgetRow
      BY <1>1, <1>2, <2>2
    <3>2. Written(w, made)[i] =
            [budgets[i] EXCEPT
               !.used = IF made[i].used = turn[w].seen[i].used THEN @ ELSE made[i].used,
               !.started = IF made[i].started = turn[w].seen[i].started
                           THEN @ ELSE made[i].started]
      BY <2>2 DEF Written
    <3> QED BY <3>1, <3>2 DEF BudgetRow
  <2> QED BY <2>1, <2>2
<1> QED BY <1>1, <1>3, TableOf DEF Written, Overtaken

LEMMA NewBudgetType ==
  ASSUME NEW q \in Requests, Acceptable(q)
  PROVE  NewBudget(q) \in BudgetRow
<1>1. q.limit \in Int /\ q.window \in Int
  BY Zenon, BudgetsAssumption
<1>2. q.limit > 0 /\ q.scope \in {"org", "team", "repo"}
  BY DEF Acceptable
<1>3. q.limit \in Nat \ {0} /\ (IF q.window > 0 THEN q.window ELSE 0) \in Nat
  BY <1>1, <1>2
<1>4. (IF q.scope = "org" THEN "" ELSE q.scope_id) \in {r.scope_id : r \in Requests} \cup {""}
  OBVIOUS
<1> QED BY <1>2, <1>3, <1>4 DEF NewBudget, BudgetRow

-----------------------------------------------------------------------------
(* Types. *)

LEMMA TypesFromTables ==
  ASSUME budgets' \in BudgetTable, turn' \in [Threads -> TurnRow],
         \A w \in Threads : turn'[w].pc # "idle" => turn'[w].run \in Runs,
         spent' \in [Runs -> Nat], team' \in [Runs -> Teams \cup {""}], failed' \subseteq Runs,
         now' \in 0..MaxTime, charged' \in [Ids -> [0..MaxTime -> Nat]], blurred' \subseteq Ids,
         crowd' \in [Runs -> Nat], came' \in Nat,
         born' \in Nat, turns' \in 0..MaxTurns, moves' \in 0..MaxMoves, downs' \in 0..MaxDowns
  PROVE  TypeInv'
<1>1. \A w \in Threads :
        /\ turn'[w].pc \in {"idle", "taken", "passed", "checking", "turn", "metered", "charging"}
        /\ turn'[w].units \in 0..TurnUnits /\ turn'[w].took \in 0..MaxTime
        /\ turn'[w].seen \in BudgetTable
  BY DEF TurnRow
<1>2. DOMAIN budgets' \subseteq Ids /\ \A i \in DOMAIN budgets' : budgets'[i] \in BudgetRow
  BY OfTable
<1>3. \A w \in Threads : /\ DOMAIN turn'[w].seen \subseteq Ids
                         /\ \A i \in DOMAIN turn'[w].seen : turn'[w].seen[i] \in BudgetRow
  BY <1>1, OfTable
<1> QED BY <1>1, <1>2, <1>3 DEF TypeInv, BudgetsTypeOK

\* What TypeInv says of a thread.
LEMMA AtWork ==
  ASSUME TypeInv, NEW w \in Threads
  PROVE  /\ turn[w] \in TurnRow /\ (turn[w].pc # "idle" => turn[w].run \in Runs)
         /\ turn[w].units \in Nat /\ turn[w].took \in 0..MaxTime /\ turn[w].seen \in BudgetTable
<1>1. turn[w] \in TurnRow
  BY DEF TypeInv
<1>2. turn[w].pc # "idle" => turn[w].run \in Runs
  BY DEF TypeInv, BudgetsTypeOK
<1> QED BY <1>1, <1>2, Bounds DEF TurnRow

LEMMA InitTypes == BudgetsInit => TypeInv
<1> SUFFICES ASSUME BudgetsInit PROVE TypeInv
  OBVIOUS
<1>1. budgets \in BudgetTable /\ turn \in [Threads -> TurnRow]
  BY NoRows, IdleIsATurn DEF BudgetsInit
<1>2. \A w \in Threads : turn[w] = Idle /\ Idle.pc = "idle"
  BY DEF BudgetsInit, Idle
<1>3. \A w \in Threads :
        /\ turn[w].pc \in {"idle", "taken", "passed", "checking", "turn", "metered", "charging"}
        /\ turn[w].pc # "idle" => turn[w].run \in Runs
        /\ turn[w].units \in 0..TurnUnits /\ turn[w].took \in 0..MaxTime
        /\ DOMAIN turn[w].seen \subseteq Ids
        /\ \A i \in DOMAIN turn[w].seen : turn[w].seen[i] \in BudgetRow
  BY <1>1, <1>2, OfTable DEF TurnRow
<1>4. DOMAIN budgets \subseteq Ids /\ \A i \in DOMAIN budgets : budgets[i] \in BudgetRow
  BY <1>1, OfTable
<1>5. team \in [Runs -> Teams \cup {""}]
  BY Zenon, BudgetsAssumption DEF BudgetsInit
<1>6. /\ spent \in [Runs -> Nat] /\ failed \subseteq Runs
      /\ now \in 0..MaxTime /\ charged \in [Ids -> [0..MaxTime -> Nat]] /\ blurred \subseteq Ids
      /\ crowd \in [Runs -> Nat] /\ came \in Nat
      /\ born \in Nat /\ turns \in 0..MaxTurns /\ moves \in 0..MaxMoves /\ downs \in 0..MaxDowns
  BY Bounds DEF BudgetsInit
<1> QED BY <1>1, <1>3, <1>4, <1>5, <1>6 DEF TypeInv, BudgetsTypeOK

(***************************************************************************)
(* Each step keeps the types.  The facts that any step needs are taken     *)
(* from TypeInv first, so that no step expands it.                         *)
(***************************************************************************)
LEMMA Known ==
  ASSUME TypeInv
  PROVE  /\ budgets \in BudgetTable /\ turn \in [Threads -> TurnRow]
         /\ \A w \in Threads : turn[w].pc # "idle" => turn[w].run \in Runs
         /\ spent \in [Runs -> Nat] /\ team \in [Runs -> Teams \cup {""}] /\ failed \subseteq Runs
         /\ now \in 0..MaxTime /\ charged \in [Ids -> [0..MaxTime -> Nat]] /\ blurred \subseteq Ids
         /\ crowd \in [Runs -> Nat] /\ came \in Nat
         /\ born \in Nat /\ turns \in 0..MaxTurns /\ moves \in 0..MaxMoves /\ downs \in 0..MaxDowns
BY DEF TypeInv, BudgetsTypeOK

LEMMA BornInNat ==
  ASSUME NEW n \in Ids
  PROVE  n \in Nat
BY Zenon, BudgetsAssumption

LEMMA Counted ==
  ASSUME TypeInv
  PROVE  now \in 0..MaxTime /\ turns \in 0..MaxTurns /\ moves \in 0..MaxMoves /\ downs \in 0..MaxDowns
BY Zenon, Known

\* A thread that goes on to another row: the others stay where they are.
LEMMA OneTurns ==
  ASSUME TypeInv, NEW w \in Threads, NEW row \in TurnRow, row.pc # "idle" => row.run \in Runs,
         turn' = [turn EXCEPT ![w] = row]
  PROVE  /\ turn' \in [Threads -> TurnRow]
         /\ \A v \in Threads : turn'[v].pc # "idle" => turn'[v].run \in Runs
BY Known

\* The steps up to a check's reading, and all that they make of a thread.
Checking(w) == (\E r \in Runs : Takes(w, r)) \/ CheckCeiling(w) \/ CheckReads(w)

CheckingRow(w, row) ==
  /\ turn' = [turn EXCEPT ![w] = row] /\ row \in TurnRow
  /\ row.pc \in {"idle", "taken", "passed", "checking"} /\ (row.pc # "idle" => row.run \in Runs)
  /\ \/ row.seen = Idle.seen /\ row.took = Idle.took
     \/ row.seen = turn[w].seen /\ row.took = turn[w].took /\ row.run = turn[w].run
     \/ row.seen = Loaded(row.run) /\ row.took = now /\ row.run \in Runs

LEMMA CheckingSteps ==
  ASSUME TypeInv, NEW w \in Threads, Checking(w)
  PROVE  /\ UNCHANGED <<budgets, spent, team, now, charged, blurred, came, born, moves, downs>>
         /\ \E row : CheckingRow(w, row)
<1>0. /\ UNCHANGED <<budgets, spent, team, now, charged, blurred, came, born, moves, downs>>
  BY DEF Checking, Takes, CheckCeiling, CheckReads, crowds, counters
<1>1. /\ turn[w] \in TurnRow /\ Idle \in TurnRow /\ now \in 0..MaxTime
      /\ Idle.pc = "idle"
  BY Known, IdleIsATurn DEF Idle
<1>2. ASSUME NEW r \in Runs, Takes(w, r) PROVE \E row : CheckingRow(w, row)
  <2> DEFINE row == [Idle EXCEPT !.pc = "taken", !.run = r]
  <2>1. turn' = [turn EXCEPT ![w] = row]
    BY <1>2 DEF Takes
  <2>2. row \in TurnRow /\ row.pc = "taken" /\ row.run = r
    BY <1>1 DEF TurnRow, Idle
  <2>3. row.seen = Idle.seen /\ row.took = Idle.took
    BY DEF Idle
  <2> HIDE DEF row
  <2> QED BY <2>1, <2>2, <2>3 DEF CheckingRow
<1>3. ASSUME CheckCeiling(w) PROVE \E row : CheckingRow(w, row)
  <2>1. turn[w].pc = "taken"
    BY <1>3 DEF CheckCeiling
  <2>2. turn[w].run \in Runs
    BY <2>1, AtWork
  <2>3. CASE turn' = [turn EXCEPT ![w] = Idle]
    BY <1>1, <2>3 DEF CheckingRow
  <2>4. CASE turn' = [turn EXCEPT ![w].pc = "passed"]
    <3> DEFINE row == [turn[w] EXCEPT !.pc = "passed"]
    <3>1. turn' = [turn EXCEPT ![w] = row]
      BY <2>4, Known
    <3>2. /\ row \in TurnRow /\ row.pc = "passed" /\ row.run = turn[w].run
          /\ row.seen = turn[w].seen /\ row.took = turn[w].took
      BY <1>1 DEF TurnRow
    <3> HIDE DEF row
    <3> QED BY <2>2, <3>1, <3>2 DEF CheckingRow
  <2> QED BY <1>3, <2>3, <2>4 DEF CheckCeiling
<1>4. ASSUME CheckReads(w) PROVE \E row : CheckingRow(w, row)
  <2> DEFINE row == [turn[w] EXCEPT !.pc = "checking", !.took = now, !.seen = Loaded(turn[w].run)]
  <2>1. turn[w].pc = "passed" /\ turn' = [turn EXCEPT ![w] = row]
    BY <1>4 DEF CheckReads
  <2>2. turn[w].run \in Runs /\ Loaded(turn[w].run) \in BudgetTable
    BY <2>1, AtWork, Known, LoadedType
  <2>3. /\ row \in TurnRow /\ row.pc = "checking" /\ row.run = turn[w].run
        /\ row.seen = Loaded(turn[w].run) /\ row.took = now
    BY <1>1, <2>2 DEF TurnRow
  <2> HIDE DEF row
  <2> QED BY <2>1, <2>2, <2>3 DEF CheckingRow
<1> QED BY <1>0, <1>2, <1>3, <1>4 DEF Checking

\* The threads past the ceiling check of a run can be counted.
LEMMA AFewUnderWay ==
  ASSUME NEW r
  PROVE  /\ IsFiniteSet(UnderWay(r)) /\ Cardinality(UnderWay(r)) \in Nat
         /\ IsFiniteSet(AtRun(r)) /\ Cardinality(AtRun(r)) \in Nat
<1>1. IsFiniteSet(Threads) /\ UnderWay(r) \subseteq Threads /\ AtRun(r) \subseteq Threads
  BY Zenon, BudgetsAssumption DEF UnderWay, AtRun
<1> QED BY <1>1, FS_Subset, FS_CardinalityType

LEMMA CheckingType ==
  ASSUME TypeInv, NEW w \in Threads, Checking(w)
  PROVE  TypeInv'
<1>1. PICK row : CheckingRow(w, row)
  BY CheckingSteps
<1>2. UNCHANGED <<budgets, spent, team, now, charged, blurred, came, born, moves, downs>>
  BY CheckingSteps
<1>3. /\ turn' \in [Threads -> TurnRow]
      /\ \A v \in Threads : turn'[v].pc # "idle" => turn'[v].run \in Runs
  BY <1>1, OneTurns DEF CheckingRow
<1>4. /\ turns' = turns \/ (turns < MaxTurns /\ turns' = turns + 1)
      /\ failed' = failed \/ (turn[w].pc = "taken" /\ failed' = failed \cup {turn[w].run})
  BY DEF Checking, Takes, CheckCeiling, CheckReads, counters
<1>5. turns' \in 0..MaxTurns
  BY <1>4, Counted, Bounds
<1>6. failed' \subseteq Runs
  <2>1. turn[w].pc = "taken" => turn[w].run \in Runs
    BY AtWork
  <2>2. failed \subseteq Runs
    BY Known
  <2> QED BY <1>4, <2>1, <2>2
<1>7. crowd' \in [Runs -> Nat]
  <2> DEFINE abreast == Cardinality(UnderWay(turn[w].run)) + 1
  <2>1. \/ crowd' = crowd
        \/ crowd' = [crowd EXCEPT ![turn[w].run] = IF @ < abreast THEN abreast ELSE @]
    BY DEF Checking, Takes, CheckCeiling, CheckReads, crowds
  <2>2. abreast \in Nat
    BY AFewUnderWay
  <2> HIDE DEF abreast
  <2> QED BY <2>1, <2>2, Known
<1> QED BY <1>2, <1>3, <1>5, <1>6, <1>7, Known, TypesFromTables

LEMMA CheckWritesType ==
  ASSUME TypeInv, NEW w \in Threads, CheckWrites(w)
  PROVE  TypeInv'
<1> DEFINE made == AfterCheck(w)
           on == [Idle EXCEPT !.pc = "turn", !.run = turn[w].run]
<1>1. turn[w].run \in Runs
  BY Known DEF CheckWrites
<1>2. on \in TurnRow /\ on.run \in Runs /\ Idle \in TurnRow /\ Idle.pc = "idle"
  BY <1>1, IdleIsATurn DEF TurnRow, Idle
<1>3. made \in BudgetTable
  BY Known, AfterCheckType
<1>4. UNCHANGED <<spent, team, now, charged, crowds, born, counters>>
  BY DEF CheckWrites
<1>5. \/ budgets' = Written(w, made) /\ blurred' = blurred \cup Overtaken(w, made)
      \/ budgets' = budgets /\ blurred' = blurred
  BY DEF CheckWrites
<1>6. turn' = [turn EXCEPT ![w] = on] \/ turn' = [turn EXCEPT ![w] = Idle]
  BY DEF CheckWrites
<1>7. failed' = failed \/ failed' = failed \cup {turn[w].run}
  BY DEF CheckWrites
<1> HIDE DEF made, on
<1>8. budgets' \in BudgetTable /\ blurred' \subseteq Ids
  BY <1>3, <1>5, Known, WrittenType
<1>9. /\ turn' \in [Threads -> TurnRow]
      /\ \A v \in Threads : turn'[v].pc # "idle" => turn'[v].run \in Runs
  BY <1>2, <1>6, OneTurns
<1>10. failed' \subseteq Runs
  BY <1>1, <1>7, Known
<1> QED BY <1>4, <1>8, <1>9, <1>10, Known, TypesFromTables DEF crowds, counters

LEMMA TurnEndsType ==
  ASSUME TypeInv, NEW w \in Threads, NEW u \in 0..TurnUnits, TurnEnds(w, u)
  PROVE  TypeInv'
<1> DEFINE row == [turn[w] EXCEPT !.pc = "metered", !.units = u]
<1>1. /\ spent' = [spent EXCEPT ![turn[w].run] = @ + u]
      /\ turn' = [turn EXCEPT ![w].pc = "metered", ![w].units = u]
      /\ UNCHANGED <<budgets, team, failed, now, charged, blurred, crowds, born, counters>>
  BY DEF TurnEnds
<1>2. turn[w] \in TurnRow /\ turn[w].run \in Runs
  BY AtWork DEF TurnEnds
<1>3. row \in TurnRow /\ row.run \in Runs
  BY <1>2 DEF TurnRow
<1>4. turn' = [turn EXCEPT ![w] = row]
  BY <1>1, Known
<1>a. spent \in [Runs -> Nat]
  BY Known
<1>b. u \in Nat
  BY Bounds
<1>5. spent' \in [Runs -> Nat]
  BY <1>1, <1>2, <1>a, <1>b
<1> HIDE DEF row
<1>6. /\ turn' \in [Threads -> TurnRow]
      /\ \A v \in Threads : turn'[v].pc # "idle" => turn'[v].run \in Runs
  BY <1>3, <1>4, OneTurns
<1> QED BY <1>1, <1>5, <1>6, Known, TypesFromTables DEF crowds, counters

LEMMA ChargeReadsType ==
  ASSUME TypeInv, NEW w \in Threads, ChargeReads(w)
  PROVE  TypeInv'
<1> DEFINE row == [turn[w] EXCEPT !.pc = "charging", !.took = now, !.seen = Loaded(turn[w].run)]
<1>1. UNCHANGED <<budgets, spent, team, failed, now, charged, blurred, crowds, born, counters>>
  BY DEF ChargeReads
<1>2. turn[w] \in TurnRow /\ turn[w].run \in Runs
  BY AtWork DEF ChargeReads
<1>3. Loaded(turn[w].run) \in BudgetTable /\ now \in 0..MaxTime
  BY Known, LoadedType
<1>4. row \in TurnRow /\ row.run \in Runs /\ Idle \in TurnRow /\ Idle.pc = "idle"
  BY <1>2, <1>3, IdleIsATurn DEF TurnRow, Idle
<1>5. turn' = [turn EXCEPT ![w] = Idle] \/ turn' = [turn EXCEPT ![w] = row]
  BY DEF ChargeReads
<1> HIDE DEF row
<1>6. /\ turn' \in [Threads -> TurnRow]
      /\ \A v \in Threads : turn'[v].pc # "idle" => turn'[v].run \in Runs
  BY <1>4, <1>5, OneTurns
<1> QED BY <1>1, <1>6, Known, TypesFromTables DEF crowds, counters

LEMMA ChargeWritesType ==
  ASSUME TypeInv, NEW w \in Threads, ChargeWrites(w)
  PROVE  TypeInv'
<1> DEFINE made == AfterCharge(w)
<1>1. /\ turn' = [turn EXCEPT ![w] = Idle]
      /\ UNCHANGED <<spent, team, failed, now, crowds, born, counters>>
  BY DEF ChargeWrites
<1>2. made \in BudgetTable
  BY Known, AfterChargeType
<1>3. \/ budgets' = Written(w, made) /\ blurred' = blurred \cup Overtaken(w, made)
      \/ budgets' = budgets /\ blurred' = blurred
  BY DEF ChargeWrites
<1>4. \/ charged' = charged
      \/ charged' = [i \in Ids |->
           IF i \in DOMAIN made
           THEN [charged[i] EXCEPT ![turn[w].took] = @ + turn[w].units]
           ELSE charged[i]]
  BY DEF ChargeWrites
<1> HIDE DEF made
<1>5. budgets' \in BudgetTable /\ blurred' \subseteq Ids
  BY <1>2, <1>3, Known, WrittenType
<1>a. charged \in [Ids -> [0..MaxTime -> Nat]]
  BY Known
<1>b. turn[w].units \in Nat /\ turn[w].took \in 0..MaxTime
  BY AtWork
<1>6. \A i \in Ids : charged[i] \in [0..MaxTime -> Nat] /\
        [charged[i] EXCEPT ![turn[w].took] = @ + turn[w].units] \in [0..MaxTime -> Nat]
  <2> DEFINE days == 0..MaxTime
             u == turn[w].units
             t == turn[w].took
  <2>1. u \in Nat /\ t \in days /\ charged \in [Ids -> [days -> Nat]]
    BY <1>a, <1>b
  <2> HIDE DEF days, u, t
  <2>2. \A f \in [days -> Nat] : [f EXCEPT ![t] = @ + u] \in [days -> Nat]
    BY <2>1
  <2>3. \A i \in Ids : charged[i] \in [days -> Nat]
    BY <2>1
  <2>4. \A i \in Ids : charged[i] \in [days -> Nat] /\
          [charged[i] EXCEPT ![t] = @ + u] \in [days -> Nat]
    BY <2>2, <2>3
  <2> QED BY <2>4 DEF days, u, t
<1>7. charged' \in [Ids -> [0..MaxTime -> Nat]]
  BY <1>4, <1>6, Known
<1>8. Idle \in TurnRow /\ Idle.pc = "idle"
  BY IdleIsATurn DEF Idle
<1>9. /\ turn' \in [Threads -> TurnRow]
      /\ \A v \in Threads : turn'[v].pc # "idle" => turn'[v].run \in Runs
  BY <1>1, <1>8, OneTurns
<1> QED BY <1>1, <1>5, <1>7, <1>9, Known, TypesFromTables DEF crowds, counters

LEMMA AlsoNat ==
  ASSUME NEW m \in Nat, NEW n \in Nat
  PROVE  m + n \in Nat
OBVIOUS

\* People, the clock and crashes.
LEMMA PeopleType ==
  ASSUME TypeInv,
         \/ \E q \in Requests : CreateBudget(q)
         \/ \E i \in DOMAIN budgets : DeleteBudget(i)
         \/ \E r \in Runs, t \in Teams \cup {""} : SetUserTeam(r, t)
         \/ Tick
         \/ Down
  PROVE  TypeInv'
<1>0. DOMAIN budgets \in SUBSET Ids /\ \A j \in DOMAIN budgets : budgets[j] \in BudgetRow
  BY Known, OfTable
<1>1. ASSUME NEW q \in Requests, CreateBudget(q) PROVE TypeInv'
  <2>1. /\ born' = born + 1 /\ born' \in Ids /\ Acceptable(q)
        /\ budgets' = [i \in DOMAIN budgets \cup {born'} |->
                         IF i = born' THEN NewBudget(q) ELSE budgets[i]]
        /\ UNCHANGED <<spent, team, failed, turn, now, charged, blurred, crowds, counters>>
    BY <1>1 DEF CreateBudget
  <2>2. NewBudget(q) \in BudgetRow
    BY <2>1, NewBudgetType
  <2>3. \A i \in DOMAIN budgets \cup {born'} : budgets'[i] \in BudgetRow
    BY <1>0, <2>1, <2>2
  <2>4. budgets' \in BudgetTable
    BY <1>0, <2>1, <2>3, TableOf
  <2>5. born' \in Nat
    BY <2>1, BornInNat
  <2> QED BY <2>1, <2>4, <2>5, Known, TypesFromTables DEF crowds, counters
<1>2. ASSUME NEW i \in DOMAIN budgets, DeleteBudget(i) PROVE TypeInv'
  <2>1. /\ budgets' = [j \in DOMAIN budgets \ {i} |-> budgets[j]]
        /\ UNCHANGED <<spent, team, failed, turn, now, charged, blurred, crowds, born, counters>>
    BY <1>2 DEF DeleteBudget
  <2>2. \A j \in DOMAIN budgets \ {i} : budgets'[j] \in BudgetRow
    BY <1>0, <2>1
  <2>3. budgets' \in BudgetTable
    BY <1>0, <2>1, <2>2, TableOf
  <2> QED BY <2>1, <2>3, Known, TypesFromTables DEF crowds, counters
<1>3. ASSUME NEW r \in Runs, NEW t \in Teams \cup {""}, SetUserTeam(r, t) PROVE TypeInv'
  <2>1. /\ moves < MaxMoves /\ moves' = moves + 1 /\ team' = [team EXCEPT ![r] = t]
        /\ came' = came + Cardinality(AtRun(r))
        /\ UNCHANGED <<budgets, spent, failed, turn, now, charged, blurred, crowd, born, turns, downs>>
    BY <1>3 DEF SetUserTeam
  <2>2. team' \in [Runs -> Teams \cup {""}]
    BY <2>1, Known
  <2>3. moves' \in 0..MaxMoves
    <3>1. moves \in 0..MaxMoves /\ moves < MaxMoves /\ moves' = moves + 1
      BY <2>1, Counted
    <3> QED BY <3>1, OneMore, Zenon, Bounds
  <2>4. came' \in Nat
    <3>1. PICK n \in Nat : n = Cardinality(AtRun(r))
      BY AFewUnderWay
    <3>2. came \in Nat
      BY Known
    <3>3. came' = came + n
      BY <2>1, <3>1
    <3> QED BY <3>1, <3>2, <3>3, AlsoNat
  <2> QED BY <2>1, <2>2, <2>3, <2>4, Known, TypesFromTables
<1>4. CASE Tick
  <2>1. /\ now < MaxTime /\ now' = now + 1
        /\ UNCHANGED <<budgets, spent, team, failed, turn, charged, blurred, crowds, born, counters>>
    BY <1>4 DEF Tick
  <2>2. now' \in 0..MaxTime
    <3>1. now \in 0..MaxTime /\ now < MaxTime /\ now' = now + 1
      BY <2>1, Counted
    <3> QED BY <3>1, OneMore, Zenon, Bounds
  <2> QED BY <2>1, <2>2, Known, TypesFromTables DEF crowds, counters
<1>5. CASE Down
  <2>1. /\ downs < MaxDowns /\ downs' = downs + 1 /\ turn' = [w \in Threads |-> Idle]
        /\ UNCHANGED <<budgets, spent, team, failed, now, charged, blurred, crowds, born, turns, moves>>
    BY <1>5 DEF Down
  <2>2. turn' \in [Threads -> TurnRow] /\ \A w \in Threads : turn'[w].pc = "idle"
    BY <2>1, IdleIsATurn DEF Idle
  <2>3. downs' \in 0..MaxDowns
    <3>1. downs \in 0..MaxDowns /\ downs < MaxDowns /\ downs' = downs + 1
      BY <2>1, Counted
    <3> QED BY <3>1, OneMore, Zenon, Bounds
  <2> QED BY <2>1, <2>2, <2>3, Known, TypesFromTables DEF crowds
<1> QED BY <1>1, <1>2, <1>3, <1>4, <1>5

LEMMA StepTypes == TypeInv /\ [BudgetsNext]_budgetVars => TypeInv'
<1> SUFFICES ASSUME TypeInv, [BudgetsNext]_budgetVars PROVE TypeInv'
  OBVIOUS
<1>1. CASE BudgetsNext
  BY <1>1, CheckingType, CheckWritesType, TurnEndsType, ChargeReadsType, ChargeWritesType,
     PeopleType DEF BudgetsNext, Checking
<1>2. CASE UNCHANGED budgetVars
  BY <1>2, Known, TypesFromTables DEF budgetVars, crowds, counters
<1> QED BY <1>1, <1>2

\* The variables have their types, and what a session holds are rows.
THEOREM BudgetsAreTyped == BudgetsSpec => []BudgetsTypeOK
<1>1. BudgetsInit => TypeInv
  BY InitTypes
<1>2. TypeInv /\ [BudgetsNext]_budgetVars => TypeInv'
  BY StepTypes
<1>3. TypeInv => BudgetsTypeOK
  BY DEF TypeInv
<1> QED BY <1>1, <1>2, <1>3, PTL DEF BudgetsSpec

-----------------------------------------------------------------------------
(* The ceiling of a run. *)

\* Were every turn under way as dear as one can be, a run would still stay below.
WillStayBelow(r) ==
  MaxRunUnits[RepoOf[r]] > 0 =>
    spent[r] + TurnUnits * Cardinality(UnderWay(r)) < MaxRunUnits[RepoOf[r]] + TurnUnits * crowd[r]

CeilingInv == \A r \in Runs : WillStayBelow(r)

LEMMA SmallerTimes ==
  ASSUME NEW t \in Nat, NEW a \in Nat, NEW b \in Nat
  PROVE  /\ t * a \in Nat /\ t * b \in Nat /\ (a <= b => t * a <= t * b)
         /\ t * (a + 1) = t * a + t
OBVIOUS

LEMMA CeilingType ==
  ASSUME NEW r \in Runs
  PROVE  MaxRunUnits[RepoOf[r]] \in Nat
<1>1. MaxRunUnits \in [Range(RepoOf) -> Nat] /\ DOMAIN RepoOf = Runs
  BY Zenon, BudgetsAssumption
<1>2. RepoOf[r] \in Range(RepoOf)
  BY <1>1 DEF Range
<1> QED BY <1>1, <1>2

(***************************************************************************)
(* What a step does to the turns and to what was spent: it lets a turn     *)
(* start, or ends one, or at most drops some.                              *)
(***************************************************************************)
FewerElsewhere(r) ==
  \A q \in Runs \ {r} : UnderWay(q)' \subseteq UnderWay(q) /\ crowd'[q] = crowd[q]

TurnStarts(w, r) ==
  /\ ~AtRunCeiling(r) /\ spent' = spent
  /\ UnderWay(r)' \subseteq UnderWay(r) \cup {w}
  /\ Cardinality(UnderWay(r)) + 1 <= crowd'[r]
  /\ FewerElsewhere(r)

TurnIsOver(w, r, u) ==
  /\ w \in UnderWay(r) /\ UnderWay(r)' \subseteq UnderWay(r) \ {w}
  /\ spent' = [spent EXCEPT ![r] = @ + u] /\ crowd' = crowd
  /\ FewerElsewhere(r)

GoesOn ==
  /\ spent' = spent /\ crowd' = crowd
  /\ \A q \in Runs : UnderWay(q)' \subseteq UnderWay(q)

\* One thread goes on to another row.
LEMMA OneGoesOn ==
  ASSUME TypeInv, NEW w \in Threads, NEW row, turn' = [turn EXCEPT ![w] = row], NEW q
  PROVE  /\ UnderWay(q)' \subseteq UnderWay(q) \cup {w}
         /\ row.run # q => UnderWay(q)' \subseteq UnderWay(q)
         /\ row.pc \notin {"passed", "checking", "turn"} =>
              UnderWay(q)' \subseteq UnderWay(q) \ {w}
<1>1. turn'[w] = row /\ \A v \in Threads \ {w} : turn'[v] = turn[v]
  BY Known
<1>2. \A v \in UnderWay(q)' :
        /\ v \in Threads /\ turn'[v].pc \in {"passed", "checking", "turn"} /\ turn'[v].run = q
        /\ v # w => v \in UnderWay(q)
  BY <1>1 DEF UnderWay, AtRun
<1> QED BY <1>1, <1>2

LEMMA StepIsOneOf ==
  ASSUME TypeInv, BudgetsNext
  PROVE  \/ \E w \in Threads, r \in Runs : TurnStarts(w, r)
         \/ \E w \in Threads, r \in Runs, u \in 0..TurnUnits : TurnIsOver(w, r, u)
         \/ GoesOn
<1>0. \A w \in Threads : turn[w] \in TurnRow
  BY Known
<1>a. Idle.pc = "idle"
  BY DEF Idle
\* A thread that is no further than it was, or not past the check: nothing starts.
<1>b. ASSUME NEW w \in Threads, NEW row, turn' = [turn EXCEPT ![w] = row],
             spent' = spent, crowd' = crowd,
             row.pc \in {"passed", "checking", "turn"} => w \in UnderWay(row.run)
      PROVE  GoesOn
  <2>1. ASSUME NEW q PROVE UnderWay(q)' \subseteq UnderWay(q)
    <3>1. /\ UnderWay(q)' \subseteq UnderWay(q) \cup {w}
          /\ row.run # q => UnderWay(q)' \subseteq UnderWay(q)
          /\ row.pc \notin {"passed", "checking", "turn"} =>
               UnderWay(q)' \subseteq UnderWay(q) \ {w}
      BY <1>b, OneGoesOn
    <3>2. row.run = q /\ row.pc \in {"passed", "checking", "turn"} => w \in UnderWay(q)
      BY <1>b
    <3> QED BY <3>1, <3>2
  <2> QED BY <1>b, <2>1 DEF GoesOn
<1>1. ASSUME NEW w \in Threads, NEW r \in Runs, Takes(w, r) PROVE GoesOn
  <2>1. /\ turn' = [turn EXCEPT ![w] = [Idle EXCEPT !.pc = "taken", !.run = r]]
        /\ spent' = spent /\ crowd' = crowd
    BY <1>1 DEF Takes, crowds
  <2>2. [Idle EXCEPT !.pc = "taken", !.run = r].pc = "taken"
    BY DEF Idle
  <2> QED BY <1>b, <2>1, <2>2
<1>2. ASSUME NEW w \in Threads, CheckCeiling(w)
      PROVE  (\E r \in Runs : TurnStarts(w, r)) \/ GoesOn
  <2>1. turn[w].pc = "taken" /\ spent' = spent
    BY <1>2 DEF CheckCeiling
  <2>2. PICK r \in Runs : r = turn[w].run
    BY <2>1, AtWork
  <2>3. CASE AtRunCeiling(r)
    <3>1. turn' = [turn EXCEPT ![w] = Idle] /\ crowd' = crowd
      BY <1>2, <2>2, <2>3 DEF CheckCeiling
    <3> QED BY <1>a, <1>b, <2>1, <3>1
  <2>4. CASE ~AtRunCeiling(r)
    <3> DEFINE row == [turn[w] EXCEPT !.pc = "passed"]
               abreast == Cardinality(UnderWay(r)) + 1
    <3>1. /\ turn' = [turn EXCEPT ![w].pc = "passed"]
          /\ crowd' = [crowd EXCEPT ![r] = IF @ < abreast THEN abreast ELSE @]
      BY <1>2, <2>2, <2>4 DEF CheckCeiling
    <3>2. turn' = [turn EXCEPT ![w] = row] /\ row.run = r
      BY <1>0, <2>2, <3>1, Known DEF TurnRow
    <3>a. abreast \in Nat
      BY AFewUnderWay
    <3>3. abreast \in Nat /\ crowd \in [Runs -> Nat]
      BY <3>a, Known
    <3> HIDE DEF row, abreast
    <3>4. UnderWay(r)' \subseteq UnderWay(r) \cup {w}
      BY <3>2, OneGoesOn
    <3>b. ASSUME NEW q \in Runs \ {r} PROVE UnderWay(q)' \subseteq UnderWay(q)
      <4>1. row.run # q
        BY <3>2
      <4> QED BY <3>2, <4>1, OneGoesOn
    <3>5. abreast <= crowd'[r] /\ \A q \in Runs \ {r} : crowd'[q] = crowd[q]
      BY <3>1, <3>3
    <3> QED BY <2>1, <2>4, <3>4, <3>b, <3>5 DEF TurnStarts, FewerElsewhere, abreast
  <2> QED BY <2>3, <2>4
<1>3. ASSUME NEW w \in Threads, CheckReads(w) PROVE GoesOn
  <2> DEFINE row == [turn[w] EXCEPT !.pc = "checking", !.took = now, !.seen = Loaded(turn[w].run)]
  <2>1. /\ turn[w].pc = "passed" /\ turn' = [turn EXCEPT ![w] = row]
        /\ spent' = spent /\ crowd' = crowd
    BY <1>3 DEF CheckReads, crowds
  <2>2. row.run = turn[w].run /\ w \in UnderWay(turn[w].run)
    BY <1>0, <2>1 DEF TurnRow, UnderWay, AtRun
  <2> HIDE DEF row
  <2> QED BY <1>b, <2>1, <2>2
<1>4. ASSUME NEW w \in Threads, CheckWrites(w) PROVE GoesOn
  <2> DEFINE on == [Idle EXCEPT !.pc = "turn", !.run = turn[w].run]
  <2>1. turn[w].pc = "checking" /\ spent' = spent /\ crowd' = crowd
    BY <1>4 DEF CheckWrites, crowds
  <2>2. turn' = [turn EXCEPT ![w] = on] \/ turn' = [turn EXCEPT ![w] = Idle]
    BY <1>4 DEF CheckWrites
  <2>3. on.run = turn[w].run /\ w \in UnderWay(turn[w].run)
    BY <2>1 DEF Idle, UnderWay, AtRun
  <2> HIDE DEF on
  <2> QED BY <1>a, <1>b, <2>1, <2>2, <2>3
<1>5. ASSUME NEW w \in Threads, NEW u \in 0..TurnUnits, TurnEnds(w, u)
      PROVE  \E r \in Runs : TurnIsOver(w, r, u)
  <2> DEFINE row == [turn[w] EXCEPT !.pc = "metered", !.units = u]
  <2>1. /\ turn[w].pc = "turn" /\ spent' = [spent EXCEPT ![turn[w].run] = @ + u]
        /\ turn' = [turn EXCEPT ![w].pc = "metered", ![w].units = u] /\ crowd' = crowd
    BY <1>5 DEF TurnEnds, crowds
  <2>2. turn' = [turn EXCEPT ![w] = row] /\ row.pc = "metered"
    BY <1>0, <2>1, Known DEF TurnRow
  <2>3. PICK r \in Runs : r = turn[w].run
    BY <2>1, AtWork
  <2>4. w \in UnderWay(r)
    BY <2>1, <2>3 DEF UnderWay, AtRun
  <2> HIDE DEF row
  <2>a. row.pc \notin {"passed", "checking", "turn"}
    BY <2>2
  <2>5. ASSUME NEW q PROVE UnderWay(q)' \subseteq UnderWay(q) \ {w}
    BY <2>2, <2>a, OneGoesOn
  <2> QED BY <2>1, <2>3, <2>4, <2>5 DEF TurnIsOver, FewerElsewhere
<1>6. ASSUME NEW w \in Threads, ChargeReads(w) PROVE GoesOn
  <2> DEFINE row == [turn[w] EXCEPT !.pc = "charging", !.took = now, !.seen = Loaded(turn[w].run)]
  <2>1. spent' = spent /\ crowd' = crowd
    BY <1>6 DEF ChargeReads, crowds
  <2>2. turn' = [turn EXCEPT ![w] = Idle] \/ turn' = [turn EXCEPT ![w] = row]
    BY <1>6 DEF ChargeReads
  <2>3. row.pc = "charging"
    BY <1>0 DEF TurnRow
  <2> HIDE DEF row
  <2> QED BY <1>a, <1>b, <2>1, <2>2, <2>3
<1>7. ASSUME NEW w \in Threads, ChargeWrites(w) PROVE GoesOn
  <2>1. spent' = spent /\ crowd' = crowd /\ turn' = [turn EXCEPT ![w] = Idle]
    BY <1>7 DEF ChargeWrites, crowds
  <2> QED BY <1>a, <1>b, <2>1
<1>8. ASSUME \/ \E q \in Requests : CreateBudget(q)
             \/ \E i \in DOMAIN budgets : DeleteBudget(i)
             \/ \E r \in Runs, t \in Teams \cup {""} : SetUserTeam(r, t)
             \/ Tick
      PROVE  GoesOn
  <2>1. spent' = spent /\ crowd' = crowd /\ turn' = turn
    BY <1>8 DEF CreateBudget, DeleteBudget, SetUserTeam, Tick, crowds
  <2> QED BY <2>1 DEF GoesOn, UnderWay, AtRun
<1>9. CASE Down
  <2>1. spent' = spent /\ crowd' = crowd /\ \A v \in Threads : turn'[v].pc = "idle"
    BY <1>9 DEF Down, Idle, crowds
  <2> QED BY <2>1 DEF GoesOn, UnderWay, AtRun
<1> QED BY <1>1, <1>2, <1>3, <1>4, <1>5, <1>6, <1>7, <1>8, <1>9 DEF BudgetsNext

\* What the invariant says of a run, in numbers.
LEMMA StaysUnder ==
  ASSUME TypeInv, TypeInv', NEW r \in Runs, NEW n \in Nat, NEW c \in Nat,
         Cardinality(UnderWay(r)') <= n, c <= crowd'[r],
         MaxRunUnits[RepoOf[r]] > 0 =>
           spent'[r] + TurnUnits * n < MaxRunUnits[RepoOf[r]] + TurnUnits * c
  PROVE  WillStayBelow(r)'
<1>1. PICK m \in Nat, k \in Nat, t \in Nat, most \in Nat, d \in Nat :
        /\ m = Cardinality(UnderWay(r)') /\ k = spent'[r] /\ t = TurnUnits
        /\ most = MaxRunUnits[RepoOf[r]] /\ d = crowd'[r]
  <2>1. spent' \in [Runs -> Nat] /\ crowd' \in [Runs -> Nat]
    BY DEF TypeInv, BudgetsTypeOK
  <2>2. Cardinality(UnderWay(r)') \in Nat
    <3>1. IsFiniteSet(Threads) /\ UnderWay(r)' \subseteq Threads
      BY Zenon, BudgetsAssumption DEF UnderWay, AtRun
    <3> QED BY <3>1, FS_Subset, FS_CardinalityType
  <2> QED BY <2>1, <2>2, CeilingType, Bounds
<1>2. t * m <= t * n /\ t * c <= t * d /\ t * m \in Nat /\ t * n \in Nat /\ t * c \in Nat /\ t * d \in Nat
  <2>1. m <= n /\ c <= d
    BY <1>1
  <2> QED BY <2>1, SmallerTimes
<1>3. most > 0 => k + t * m < most + t * d
  BY <1>1, <1>2
<1> QED BY <1>1, <1>3 DEF WillStayBelow

LEMMA FewerUnderWay ==
  ASSUME NEW r, NEW q, UnderWay(r)' \subseteq UnderWay(q)
  PROVE  Cardinality(UnderWay(r)') <= Cardinality(UnderWay(q))
BY AFewUnderWay, FS_Subset

LEMMA FewerStay ==
  ASSUME TypeInv, TypeInv', CeilingInv, NEW r \in Runs,
         UnderWay(r)' \subseteq UnderWay(r), spent'[r] = spent[r], crowd'[r] = crowd[r]
  PROVE  WillStayBelow(r)'
<1>1. Cardinality(UnderWay(r)') <= Cardinality(UnderWay(r)) /\ Cardinality(UnderWay(r)) \in Nat
  BY FewerUnderWay, AFewUnderWay
<1>2. crowd \in [Runs -> Nat]
  BY Known
<1>3. crowd[r] \in Nat /\ crowd[r] <= crowd'[r]
  BY <1>2
<1>4. MaxRunUnits[RepoOf[r]] > 0 =>
        spent'[r] + TurnUnits * Cardinality(UnderWay(r)) < MaxRunUnits[RepoOf[r]] + TurnUnits * crowd[r]
  BY DEF CeilingInv, WillStayBelow
<1> QED BY <1>1, <1>3, <1>4, StaysUnder

LEMMA TurnStartsKeeps ==
  ASSUME TypeInv, TypeInv', CeilingInv, NEW w \in Threads, NEW r \in Runs, TurnStarts(w, r)
  PROVE  CeilingInv'
<1>1. ASSUME NEW q \in Runs, q # r PROVE WillStayBelow(q)'
  BY <1>1, FewerStay DEF TurnStarts, FewerElsewhere
<1>2. WillStayBelow(r)'
  <2>1. PICK n \in Nat : n = Cardinality(UnderWay(r)) + 1
    BY AFewUnderWay
  <2>2. Cardinality(UnderWay(r)') <= n
    <3>1. IsFiniteSet(UnderWay(r)) /\ IsFiniteSet(UnderWay(r) \cup {w})
          /\ Cardinality(UnderWay(r) \cup {w}) <= Cardinality(UnderWay(r)) + 1
      <4>1. IsFiniteSet(UnderWay(r)) /\ Cardinality(UnderWay(r)) \in Nat
        BY AFewUnderWay
      <4>2. /\ IsFiniteSet(UnderWay(r) \cup {w})
            /\ \/ Cardinality(UnderWay(r) \cup {w}) = Cardinality(UnderWay(r))
               \/ Cardinality(UnderWay(r) \cup {w}) = Cardinality(UnderWay(r)) + 1
        BY <4>1, FS_AddElement
      <4> QED BY <4>1, <4>2
    <3>2. /\ Cardinality(UnderWay(r)') <= Cardinality(UnderWay(r) \cup {w})
          /\ Cardinality(UnderWay(r)') \in Nat /\ Cardinality(UnderWay(r) \cup {w}) \in Nat
      BY <3>1, FS_Subset, FS_CardinalityType DEF TurnStarts
    <3> QED BY <2>1, <3>1, <3>2
  <2>3. n <= crowd'[r]
    BY <2>1 DEF TurnStarts
  <2>4. MaxRunUnits[RepoOf[r]] > 0 => spent'[r] + TurnUnits * n < MaxRunUnits[RepoOf[r]] + TurnUnits * n
    <3>1. MaxRunUnits[RepoOf[r]] \in Nat /\ spent[r] \in Nat /\ spent'[r] = spent[r]
      BY CeilingType, Known DEF TurnStarts
    <3>2. MaxRunUnits[RepoOf[r]] > 0 => spent[r] < MaxRunUnits[RepoOf[r]]
      BY <3>1 DEF TurnStarts, AtRunCeiling
    <3>3. TurnUnits * n \in Nat
      BY <2>1, Bounds, SmallerTimes
    <3> QED BY <3>1, <3>2, <3>3
  <2> QED BY <2>2, <2>3, <2>4, StaysUnder
<1> QED BY <1>1, <1>2 DEF CeilingInv

LEMMA TurnIsOverKeeps ==
  ASSUME TypeInv, TypeInv', CeilingInv, NEW w \in Threads, NEW r \in Runs, NEW u \in 0..TurnUnits,
         TurnIsOver(w, r, u)
  PROVE  CeilingInv'
<1>a. spent \in [Runs -> Nat] /\ crowd \in [Runs -> Nat]
  BY Known
<1>b. u \in Nat /\ u <= TurnUnits
  BY Bounds
<1>0. spent \in [Runs -> Nat] /\ crowd \in [Runs -> Nat] /\ u \in Nat /\ u <= TurnUnits
  BY <1>a, <1>b
<1>1. ASSUME NEW q \in Runs, q # r PROVE WillStayBelow(q)'
  <2>1. spent'[q] = spent[q]
    BY <1>0, <1>1 DEF TurnIsOver
  <2> QED BY <1>1, <2>1, FewerStay DEF TurnIsOver, FewerElsewhere
<1>2. WillStayBelow(r)'
  <2>1. PICK n \in Nat, c \in Nat : n + 1 = Cardinality(UnderWay(r)) /\ c = crowd[r]
    <3>1. IsFiniteSet(UnderWay(r)) /\ w \in UnderWay(r)
      BY AFewUnderWay DEF TurnIsOver
    <3>2. Cardinality(UnderWay(r) \ {w}) = Cardinality(UnderWay(r)) - 1
          /\ Cardinality(UnderWay(r) \ {w}) \in Nat /\ Cardinality(UnderWay(r)) \in Nat
      BY <3>1, FS_RemoveElement, FS_CardinalityType
    <3> QED BY <1>0, <3>2
  <2>2. Cardinality(UnderWay(r)') <= n
    <3>1. IsFiniteSet(UnderWay(r)) /\ w \in UnderWay(r) /\ UnderWay(r)' \subseteq UnderWay(r) \ {w}
      BY AFewUnderWay DEF TurnIsOver
    <3>2. IsFiniteSet(UnderWay(r) \ {w}) /\ Cardinality(UnderWay(r) \ {w}) = Cardinality(UnderWay(r)) - 1
      BY <3>1, FS_RemoveElement
    <3>3. Cardinality(UnderWay(r)') <= Cardinality(UnderWay(r) \ {w})
      BY <3>1, <3>2, FS_Subset
    <3> QED BY <2>1, <3>2, <3>3
  <2>3. c <= crowd'[r]
    BY <1>0, <2>1 DEF TurnIsOver
  <2>4. MaxRunUnits[RepoOf[r]] > 0 => spent'[r] + TurnUnits * n < MaxRunUnits[RepoOf[r]] + TurnUnits * c
    <3>1. MaxRunUnits[RepoOf[r]] > 0 =>
            spent[r] + TurnUnits * (n + 1) < MaxRunUnits[RepoOf[r]] + TurnUnits * c
      BY <2>1 DEF CeilingInv, WillStayBelow
    <3>2. /\ MaxRunUnits[RepoOf[r]] \in Nat /\ spent[r] \in Nat /\ spent'[r] = spent[r] + u
      BY <1>0, CeilingType DEF TurnIsOver
    <3>3. TurnUnits * (n + 1) = TurnUnits * n + TurnUnits /\ TurnUnits * n \in Nat
          /\ TurnUnits * c \in Nat
      BY Bounds, SmallerTimes
    <3> QED BY <1>0, <3>1, <3>2, <3>3, Bounds
  <2> QED BY <2>2, <2>3, <2>4, StaysUnder
<1> QED BY <1>1, <1>2 DEF CeilingInv

LEMMA CeilingAtFirst == BudgetsInit => CeilingInv
<1> SUFFICES ASSUME BudgetsInit, NEW r \in Runs PROVE WillStayBelow(r)
  BY DEF CeilingInv
<1>1. UnderWay(r) = {}
  BY DEF BudgetsInit, Idle, UnderWay, AtRun
<1>2. Cardinality(UnderWay(r)) = 0
  BY <1>1, FS_EmptySet
<1>3. spent[r] = 0 /\ crowd[r] = 0 /\ MaxRunUnits[RepoOf[r]] \in Nat
  BY CeilingType DEF BudgetsInit
<1>4. TurnUnits * 0 = 0
  BY Bounds
<1> QED BY <1>2, <1>3, <1>4 DEF WillStayBelow

LEMMA CeilingStep == TypeInv /\ CeilingInv /\ [BudgetsNext]_budgetVars => CeilingInv'
<1> SUFFICES ASSUME TypeInv, CeilingInv, [BudgetsNext]_budgetVars PROVE CeilingInv'
  OBVIOUS
<1>0. TypeInv'
  BY StepTypes
<1>1. ASSUME GoesOn PROVE CeilingInv'
  BY <1>0, <1>1, FewerStay DEF GoesOn, CeilingInv
<1>2. CASE BudgetsNext
  BY <1>0, <1>1, <1>2, StepIsOneOf, TurnStartsKeeps, TurnIsOverKeeps
<1>3. CASE UNCHANGED budgetVars
  <2>1. GoesOn
    BY <1>3 DEF budgetVars, crowds, GoesOn, UnderWay, AtRun
  <2> QED BY <1>1, <2>1
<1> QED BY <1>2, <1>3

LEMMA CeilingHolds == TypeInv /\ CeilingInv => RunCeilingHolds
<1> SUFFICES ASSUME TypeInv, CeilingInv, NEW r \in Runs, MaxRunUnits[RepoOf[r]] > 0
             PROVE  spent[r] < MaxRunUnits[RepoOf[r]] + TurnUnits * crowd[r]
  BY DEF RunCeilingHolds
<1>1. PICK n \in Nat, c \in Nat, k \in Nat, most \in Nat :
        n = Cardinality(UnderWay(r)) /\ c = crowd[r] /\ k = spent[r] /\ most = MaxRunUnits[RepoOf[r]]
  BY AFewUnderWay, Known, CeilingType
<1>2. k + TurnUnits * n < most + TurnUnits * c
  BY <1>1 DEF CeilingInv, WillStayBelow
<1>3. TurnUnits * n \in Nat /\ TurnUnits * c \in Nat
  BY Bounds, SmallerTimes
<1> QED BY <1>1, <1>2, <1>3

(***************************************************************************)
(* A run goes past its repository's max_run_units by less than one turn    *)
(* for each thread that was ever past its check at once (check_budget, and *)
(* the steps that are added up), whatever the workers, the requests to     *)
(* advance it, the budgets and the crashes.                                *)
(***************************************************************************)
THEOREM CeilingIsKept == BudgetsSpec => []RunCeilingHolds
<1>1. BudgetsInit => TypeInv /\ CeilingInv
  BY InitTypes, CeilingAtFirst
<1>2. TypeInv /\ [BudgetsNext]_budgetVars => TypeInv'
  BY StepTypes
<1>3. TypeInv /\ CeilingInv /\ [BudgetsNext]_budgetVars => CeilingInv'
  BY CeilingStep
<1>4. TypeInv /\ CeilingInv => RunCeilingHolds
  BY CeilingHolds
<1> QED BY <1>1, <1>2, <1>3, <1>4, PTL DEF BudgetsSpec

-----------------------------------------------------------------------------
(* How far past its limit a budget can go. *)

\* The threads that may still charge a budget without having seen it used up.
MayCharge(w, i) ==
  \/ /\ turn[w].pc = "checking" /\ i \in BudgetsFor(turn[w].run)
     /\ i \in DOMAIN turn[w].seen => turn[w].seen[i].used < turn[w].seen[i].limit
  \/ turn[w].pc \in {"turn", "metered"} /\ i \in BudgetsFor(turn[w].run)
  \/ turn[w].pc = "charging" /\ i \in DOMAIN turn[w].seen

Chargers(i) == {w \in Threads : MayCharge(w, i)}

\* With n charges still to come, and m turns so far that came with a new team.
StaysBelow(used, limit, n, m) ==
  \/ used < limit
  \/ used + TurnUnits * n < limit + TurnUnits * (Cardinality(Threads) + m)

\* With every charge that is still to come a budget would stay below the bound.
BurnInv ==
  \A i \in DOMAIN budgets \ blurred :
    StaysBelow(budgets[i].used, budgets[i].limit, Cardinality(Chargers(i)), came)

LEMMA Times ==
  ASSUME NEW t \in Nat, NEW a \in Nat, NEW b \in Nat
  PROVE  /\ t * a \in Nat /\ a <= b => t * a <= t * b
         /\ t * (a + 1) = t * a + t
OBVIOUS

LEMMA ThreadsAreFinite == IsFiniteSet(Threads) /\ IsFiniteSet(Runs) /\ Cardinality(Threads) \in Nat
<1>1. IsFiniteSet(Threads) /\ IsFiniteSet(Runs)
  BY Zenon, BudgetsAssumption
<1> QED BY <1>1, FS_CardinalityType

LEMMA SomeThreads ==
  ASSUME NEW S \in SUBSET Threads
  PROVE  IsFiniteSet(S) /\ Cardinality(S) \in Nat /\ Cardinality(S) <= Cardinality(Threads)
BY ThreadsAreFinite, FS_Subset, FS_CardinalityType

\* Nobody new may charge the budget, and its counter does not grow.
LEMMA StaysAsItWas ==
  ASSUME NEW S \in SUBSET Threads, NEW T \in SUBSET S, NEW used \in Nat, NEW limit \in Nat,
         NEW more \in Nat, more <= used, NEW m \in Nat, NEW k \in Nat, m <= k,
         StaysBelow(used, limit, Cardinality(S), m)
  PROVE  StaysBelow(more, limit, Cardinality(T), k)
<1>1. /\ Cardinality(S) \in Nat /\ Cardinality(T) \in Nat /\ Cardinality(T) <= Cardinality(S)
      /\ Cardinality(Threads) \in Nat
  BY SomeThreads, ThreadsAreFinite, FS_Subset
<1>2. PICK s \in Nat, t \in Nat, n \in Nat, u \in Nat :
        s = Cardinality(S) /\ t = Cardinality(T) /\ n = Cardinality(Threads) /\ u = TurnUnits
  BY <1>1, Bounds
<1>3. u * t <= u * s /\ u * (n + m) <= u * (n + k) /\ u * t \in Nat /\ u * s \in Nat
      /\ u * (n + m) \in Nat /\ u * (n + k) \in Nat
  BY <1>1, <1>2, Times
<1> QED BY <1>2, <1>3 DEF StaysBelow

\* One who may charge the budget does, and may no longer.
LEMMA StaysWhenCharged ==
  ASSUME NEW S \in SUBSET Threads, NEW w \in S, NEW T \in SUBSET (S \ {w}),
         NEW used \in Nat, NEW limit \in Nat, NEW more \in Nat, more <= used + TurnUnits,
         NEW m \in Nat, StaysBelow(used, limit, Cardinality(S), m)
  PROVE  StaysBelow(more, limit, Cardinality(T), m)
<1>1. /\ Cardinality(S) \in Nat /\ Cardinality(T) \in Nat /\ Cardinality(Threads) \in Nat
      /\ Cardinality(S \ {w}) = Cardinality(S) - 1
      /\ Cardinality(T) <= Cardinality(S \ {w}) /\ Cardinality(S) <= Cardinality(Threads)
  BY SomeThreads, ThreadsAreFinite, FS_Subset, FS_RemoveElement
<1>2. PICK s \in Nat, t \in Nat, n \in Nat, u \in Nat :
        s = Cardinality(S) /\ t = Cardinality(T) /\ n = Cardinality(Threads) /\ u = TurnUnits
  BY <1>1, Bounds
<1>3. t + 1 <= s /\ t + 1 <= n + m /\ n + m \in Nat /\ t + 1 \in Nat
  BY <1>1, <1>2
<1>4. /\ u * (t + 1) = u * t + u /\ u * (t + 1) <= u * s /\ u * (t + 1) <= u * (n + m)
      /\ u * t \in Nat /\ u * s \in Nat /\ u * (n + m) \in Nat
  BY <1>3, Times
<1> QED BY <1>2, <1>4 DEF StaysBelow

\* Some more may charge the budget, by a change of team.
LEMMA StaysWhenJoined ==
  ASSUME NEW S \in SUBSET Threads, NEW A \in SUBSET Threads, NEW T \in SUBSET (S \cup A),
         NEW used \in Nat, NEW limit \in Nat, NEW m \in Nat,
         StaysBelow(used, limit, Cardinality(S), m)
  PROVE  StaysBelow(used, limit, Cardinality(T), m + Cardinality(A))
<1>1. IsFiniteSet(S) /\ IsFiniteSet(A) /\ IsFiniteSet(T)
      /\ Cardinality(S) \in Nat /\ Cardinality(A) \in Nat /\ Cardinality(T) \in Nat
  BY SomeThreads
<1>2. IsFiniteSet(S \cup A) /\ Cardinality(S \cup A) <= Cardinality(S) + Cardinality(A)
  <2>1. IsFiniteSet(S \cap A) /\ Cardinality(S \cap A) \in Nat
    BY <1>1, FS_Intersection, FS_CardinalityType
  <2>2. /\ IsFiniteSet(S \cup A)
        /\ Cardinality(S \cup A) = Cardinality(S) + Cardinality(A) - Cardinality(S \cap A)
    BY <1>1, FS_Union
  <2> QED BY <1>1, <2>1, <2>2
<1>3. Cardinality(T) <= Cardinality(S \cup A) /\ Cardinality(S \cup A) \in Nat
  BY <1>2, FS_Subset, FS_CardinalityType
<1>4. PICK s \in Nat, a \in Nat, t \in Nat, n \in Nat, u \in Nat :
        s = Cardinality(S) /\ a = Cardinality(A) /\ t = Cardinality(T)
        /\ n = Cardinality(Threads) /\ u = TurnUnits
  BY <1>1, Bounds, ThreadsAreFinite
<1>5. t <= s + a
  BY <1>1, <1>2, <1>3, <1>4
<1>6. /\ u * t <= u * (s + a) /\ u * (s + a) = u * s + u * a
      /\ u * ((n + m) + a) = u * (n + m) + u * a
      /\ u * t \in Nat /\ u * s \in Nat /\ u * a \in Nat /\ u * (n + m) \in Nat
  <2>1. u * t <= u * (s + a)
    BY <1>5, Times
  <2>2. u * t \in Nat /\ u * s \in Nat /\ u * a \in Nat /\ u * (n + m) \in Nat
    BY Times
  <2>3. u * (s + a) = u * s + u * a /\ u * ((n + m) + a) = u * (n + m) + u * a
    OBVIOUS
  <2> QED BY <2>1, <2>2, <2>3
<1>7. (n + m) + a = n + (m + a)
  OBVIOUS
<1> QED BY <1>4, <1>6, <1>7 DEF StaysBelow

(***************************************************************************)
(* What a commit leaves in a row.                                          *)
(***************************************************************************)
Identity(b) == <<b.scope, b.scope_id, b.limit, b.window>>

\* Sessions make rows of the same budget of the rows they read.
SameBudgets(w, made) ==
  /\ DOMAIN made \subseteq DOMAIN turn[w].seen
  /\ \A i \in DOMAIN made : Identity(made[i]) = Identity(turn[w].seen[i])

LEMMA SameIdentity ==
  ASSUME NEW b, NEW c, Identity(b) = Identity(c)
  PROVE  b.scope = c.scope /\ b.scope_id = c.scope_id /\ b.limit = c.limit /\ b.window = c.window
BY DEF Identity

LEMMA RolledFields ==
  ASSUME NEW b \in BudgetRow, NEW t
  PROVE  /\ Identity(Rolled(b, t)) = Identity(b)
         /\ (b.window > 0 /\ (b.started = Blank \/ t - b.started >= b.window)) =>
              Rolled(b, t).used = 0 /\ Rolled(b, t).started = t
         /\ ~(b.window > 0 /\ (b.started = Blank \/ t - b.started >= b.window)) => Rolled(b, t) = b
BY DEF Rolled, Identity, BudgetRow

LEMMA CheckedFields ==
  ASSUME turn \in [Threads -> TurnRow], NEW w \in Threads
  PROVE  /\ SameBudgets(w, AfterCheck(w))
         /\ DOMAIN AfterCheck(w) = Examined(w)
         /\ \A i \in Examined(w) :
              /\ i \in DOMAIN turn[w].seen /\ turn[w].seen[i] \in BudgetRow
              /\ AfterCheck(w)[i] = Rolled(turn[w].seen[i], turn[w].took)
<1>1. turn[w].seen \in BudgetTable
  BY DEF TurnRow
<1>2. Examined(w) \subseteq DOMAIN turn[w].seen
  BY DEF Examined
<1>3. \A i \in Examined(w) : turn[w].seen[i] \in BudgetRow
  BY <1>1, <1>2, OfTable
<1>4. \A i \in Examined(w) : AfterCheck(w)[i] = Rolled(turn[w].seen[i], turn[w].took)
  BY DEF AfterCheck
<1>5. DOMAIN AfterCheck(w) = Examined(w)
  BY DEF AfterCheck
<1> QED BY <1>2, <1>3, <1>4, <1>5, RolledFields DEF SameBudgets

LEMMA ChargedFields ==
  ASSUME turn \in [Threads -> TurnRow], NEW w \in Threads
  PROVE  /\ SameBudgets(w, AfterCharge(w))
         /\ DOMAIN AfterCharge(w) = DOMAIN turn[w].seen
         /\ \A i \in DOMAIN turn[w].seen :
              LET b == Rolled(turn[w].seen[i], turn[w].took) IN
              /\ turn[w].seen[i] \in BudgetRow
              /\ AfterCharge(w)[i].used = b.used + turn[w].units
              /\ AfterCharge(w)[i].started = IF b.started = Blank THEN turn[w].took ELSE b.started
<1>1. turn[w].seen \in BudgetTable /\ turn[w].took \in Nat
  BY Bounds DEF TurnRow
<1>2. \A i \in DOMAIN turn[w].seen : turn[w].seen[i] \in BudgetRow
  BY <1>1, OfTable
<1>3. DOMAIN AfterCharge(w) = DOMAIN turn[w].seen
  BY DEF AfterCharge
<1>4. ASSUME NEW i \in DOMAIN turn[w].seen, NEW b, b = Rolled(turn[w].seen[i], turn[w].took)
      PROVE  /\ AfterCharge(w)[i].used = b.used + turn[w].units
             /\ AfterCharge(w)[i].started = IF b.started = Blank THEN turn[w].took ELSE b.started
             /\ Identity(AfterCharge(w)[i]) = Identity(turn[w].seen[i])
  <2>1. b \in BudgetRow /\ Identity(b) = Identity(turn[w].seen[i])
    BY <1>1, <1>2, <1>4, RolledType, RolledFields
  <2> DEFINE used == b.used + turn[w].units
             started == IF b.started = Blank THEN turn[w].took ELSE b.started
  <2>2. AfterCharge(w)[i] = [b EXCEPT !.used = used, !.started = started]
    BY <1>4, Zenon DEF AfterCharge
  <2> HIDE DEF used, started
  <2>3. /\ AfterCharge(w)[i].used = used /\ AfterCharge(w)[i].started = started
        /\ Identity(AfterCharge(w)[i]) = Identity(b)
    BY <2>1, <2>2 DEF BudgetRow, Identity
  <2> QED BY <2>1, <2>3 DEF used, started
<1>5. \A i \in DOMAIN turn[w].seen : Identity(AfterCharge(w)[i]) = Identity(turn[w].seen[i])
  BY <1>4
<1>6. SameBudgets(w, AfterCharge(w))
  BY <1>3, <1>5 DEF SameBudgets
<1>7. \A i \in DOMAIN turn[w].seen :
              LET b == Rolled(turn[w].seen[i], turn[w].took) IN
              /\ AfterCharge(w)[i].used = b.used + turn[w].units
              /\ AfterCharge(w)[i].started = IF b.started = Blank THEN turn[w].took ELSE b.started
  BY <1>4
<1> QED BY <1>2, <1>3, <1>6, <1>7

\* A row that is written is what was made of it, if nobody else wrote it, and of the
\* same budget in any case.
LEMMA WrittenFields ==
  ASSUME budgets \in BudgetTable, NEW w, NEW made, NEW i \in DOMAIN budgets
  PROVE  /\ DOMAIN Written(w, made) = DOMAIN budgets
         /\ Identity(Written(w, made)[i]) = Identity(budgets[i])
         /\ i \notin Dirty(w, made) => Written(w, made)[i] = budgets[i]
         /\ Written(w, made)[i].used = budgets[i].used
              \/ (i \in Dirty(w, made) /\ Written(w, made)[i].used = made[i].used)
         /\ Written(w, made)[i].started = budgets[i].started
              \/ (i \in Dirty(w, made) /\ Written(w, made)[i].started = made[i].started)
         /\ i \in Dirty(w, made) /\ i \notin Overtaken(w, made) =>
              /\ budgets[i] = turn[w].seen[i]
              /\ Written(w, made)[i].used = made[i].used
              /\ Written(w, made)[i].started = made[i].started
<1>1. budgets[i] \in BudgetRow /\ DOMAIN Written(w, made) = DOMAIN budgets
  BY OfTable DEF Written
<1>2. CASE i \notin Dirty(w, made)
  <2>1. Written(w, made)[i] = budgets[i]
    BY <1>2 DEF Written
  <2> QED BY <1>1, <1>2, <2>1
<1>3. CASE i \in Dirty(w, made)
  <2> DEFINE used == IF made[i].used = turn[w].seen[i].used THEN budgets[i].used ELSE made[i].used
             started == IF made[i].started = turn[w].seen[i].started
                        THEN budgets[i].started ELSE made[i].started
  <2>1. Written(w, made)[i] = [budgets[i] EXCEPT !.used = used, !.started = started]
    BY <1>3, Zenon DEF Written
  <2>a. /\ used = budgets[i].used \/ used = made[i].used
        /\ started = budgets[i].started \/ started = made[i].started
        /\ budgets[i] = turn[w].seen[i] => used = made[i].used /\ started = made[i].started
    OBVIOUS
  <2>b. i \notin Overtaken(w, made) => budgets[i] = turn[w].seen[i]
    BY <1>3 DEF Overtaken
  <2> HIDE DEF used, started
  <2>2. /\ Written(w, made)[i].used = used /\ Written(w, made)[i].started = started
        /\ Identity(Written(w, made)[i]) = Identity(budgets[i])
    BY <1>1, <2>1 DEF BudgetRow, Identity
  <2> QED BY <1>1, <1>3, <2>2, <2>a, <2>b
<1> QED BY <1>2, <1>3

(***************************************************************************)
(* Burn: what each step does to one budget.                                *)
(***************************************************************************)
LEMMA SameFor ==
  ASSUME NEW i, i \in DOMAIN budgets, Identity(budgets'[i]) = Identity(budgets[i]),
         i \in DOMAIN budgets', NEW r, team'[r] = team[r]
  PROVE  (i \in BudgetsFor(r))' <=> i \in BudgetsFor(r)
<1>1. budgets'[i].scope = budgets[i].scope /\ budgets'[i].scope_id = budgets[i].scope_id
  BY DEF Identity
<1> QED BY <1>1 DEF BudgetsFor

\* Threads that stay where they are may charge what they might, if people do.
LEMMA SameMayCharge ==
  ASSUME NEW i, i \in DOMAIN budgets, Identity(budgets'[i]) = Identity(budgets[i]),
         i \in DOMAIN budgets', NEW v, turn'[v] = turn[v], team'[turn[v].run] = team[turn[v].run],
         MayCharge(v, i)'
  PROVE  MayCharge(v, i)
BY SameFor DEF MayCharge

LEMMA RowFields ==
  ASSUME NEW b \in BudgetRow
  PROVE  b.used \in Nat /\ b.limit \in Nat /\ b.limit > 0 /\ b.window \in Nat
         /\ b.started \in Nat \cup {Blank}
<1>1. b.limit \in Nat \ {0}
  BY DEF BudgetRow
<1>2. b.limit \in Nat /\ b.limit > 0
  BY <1>1
<1>3. b.used \in Nat /\ b.window \in Nat /\ b.started \in Nat \cup {Blank}
  BY DEF BudgetRow
<1> QED BY <1>2, <1>3

LEMMA BudgetFields ==
  ASSUME NEW f \in BudgetTable, NEW i \in DOMAIN f
  PROVE  f[i].used \in Nat /\ f[i].limit \in Nat /\ f[i].limit > 0 /\ i \in Ids
<1>1. f[i] \in BudgetRow /\ i \in Ids
  BY OfTable
<1> QED BY <1>1, RowFields

LEMMA LimitStays ==
  ASSUME NEW i, Identity(budgets'[i]) = Identity(budgets[i])
  PROVE  budgets'[i].limit = budgets[i].limit
BY DEF Identity

LEMMA CameInNat == TypeInv => came \in Nat
BY Known

BelowNow(i) == StaysBelow(budgets[i].used, budgets[i].limit, Cardinality(Chargers(i)), came)

LEMMA BelowAtOnce ==
  ASSUME NEW i, budgets'[i].used < budgets'[i].limit
  PROVE  BelowNow(i)'
BY DEF BelowNow, StaysBelow

\* Steps that let nobody new charge, and none that does.
LEMMA BurnStays ==
  ASSUME TypeInv, TypeInv', NEW i \in DOMAIN budgets, i \in DOMAIN budgets', BelowNow(i),
         Identity(budgets'[i]) = Identity(budgets[i]), budgets'[i].used <= budgets[i].used,
         came' = came, \A v \in Threads : MayCharge(v, i)' => MayCharge(v, i)
  PROVE  BelowNow(i)'
<1>1. PICK S \in SUBSET Threads : S = Chargers(i)
  BY DEF Chargers
<1>2. PICK T \in SUBSET Threads : T = Chargers(i)'
  BY DEF Chargers
<1>3. T \subseteq S
  BY <1>1, <1>2 DEF Chargers
<1>4. budgets[i].used \in Nat /\ budgets[i].limit \in Nat /\ budgets'[i].used \in Nat
  <2>1. budgets \in BudgetTable /\ budgets' \in BudgetTable
    BY DEF TypeInv
  <2> QED BY <2>1, BudgetFields
<1>5. came \in Nat /\ budgets'[i].limit = budgets[i].limit
  BY CameInNat, LimitStays
<1>6. StaysBelow(budgets[i].used, budgets[i].limit, Cardinality(S), came)
  BY <1>1 DEF BelowNow
<1>7. StaysBelow(budgets'[i].used, budgets[i].limit, Cardinality(T), came)
  BY <1>3, <1>4, <1>5, <1>6, StaysAsItWas
<1> QED BY <1>2, <1>5, <1>7 DEF BelowNow

\* What is read is what is there.
LEMMA ReadsWhatIsThere ==
  ASSUME NEW r
  PROVE  /\ DOMAIN Loaded(r) = BudgetsFor(r) /\ BudgetsFor(r) \subseteq DOMAIN budgets
         /\ \A i \in BudgetsFor(r) : Loaded(r)[i] = budgets[i]
BY DEF Loaded, BudgetsFor

LEMMA CheckingBurn ==
  ASSUME TypeInv, TypeInv', NEW w \in Threads, Checking(w),
         NEW i \in DOMAIN budgets, BelowNow(i)
  PROVE  BelowNow(i)'
<1>1. budgets' = budgets /\ team' = team /\ came' = came
  BY CheckingSteps
<1>2. /\ \A v \in Threads \ {w} : turn'[v] = turn[v]
      /\ turn'[w].pc \in {"idle", "taken", "passed", "checking"}
      /\ turn'[w].pc = "checking" => turn'[w].seen = Loaded(turn'[w].run)
  <2>1. PICK row : CheckingRow(w, row)
    BY CheckingSteps
  <2>2. turn'[w] = row /\ \A v \in Threads \ {w} : turn'[v] = turn[v]
    BY <2>1, Known DEF CheckingRow
  <2>3. ASSUME turn'[w].pc = "checking" PROVE turn'[w].seen = Loaded(turn'[w].run)
    <3>0. turn[w] \in TurnRow
      BY Known
    <3>a. ASSUME NEW r \in Runs, Takes(w, r) PROVE FALSE
      <4>1. turn'[w] = [Idle EXCEPT !.pc = "taken", !.run = r]
        BY <3>a, Known DEF Takes
      <4> QED BY <2>3, <4>1 DEF Idle
    <3>b. ASSUME CheckCeiling(w) PROVE FALSE
      <4>1. turn' = [turn EXCEPT ![w] = Idle] \/ turn' = [turn EXCEPT ![w].pc = "passed"]
        BY <3>b DEF CheckCeiling
      <4>2. turn'[w] = Idle \/ turn'[w] = [turn[w] EXCEPT !.pc = "passed"]
        BY <4>1, Known
      <4> QED BY <2>3, <3>0, <4>2 DEF Idle, TurnRow
    <3>1. ~CheckCeiling(w) /\ ~(\E r \in Runs : Takes(w, r))
      BY <3>a, <3>b
    <3>2. turn' = [turn EXCEPT ![w] =
                    [@ EXCEPT !.pc = "checking", !.took = now, !.seen = Loaded(turn[w].run)]]
      BY <3>1 DEF Checking, CheckReads
    <3>3. turn'[w].run = turn[w].run /\ turn'[w].seen = Loaded(turn[w].run)
      BY <3>0, <3>2, Known DEF TurnRow
    <3> QED BY <3>3
  <2> QED BY <2>1, <2>2, <2>3 DEF CheckingRow
<1>3. CASE budgets[i].used < budgets[i].limit
  BY <1>1, <1>3, BelowAtOnce
<1>4. CASE ~(budgets[i].used < budgets[i].limit)
  <2>1. ~MayCharge(w, i)'
    <3>1. \A r : i \in BudgetsFor(r)' => i \in BudgetsFor(r)
      BY <1>1 DEF BudgetsFor
    <3> QED BY <1>2, <1>4, <3>1, ReadsWhatIsThere DEF MayCharge
  <2>2. \A v \in Threads \ {w} : MayCharge(v, i)' => MayCharge(v, i)
    BY <1>1, <1>2, SameMayCharge
  <2>3. budgets[i].used \in Nat
    BY Known, BudgetFields
  <2> QED BY <1>1, <2>1, <2>2, <2>3, BurnStays
<1> QED BY <1>3, <1>4

LEMMA CheckWritesBurn ==
  ASSUME TypeInv, TypeInv', NEW w \in Threads, CheckWrites(w),
         NEW i \in DOMAIN budgets, i \notin blurred', BelowNow(i)
  PROVE  BelowNow(i)'
<1> DEFINE made == AfterCheck(w)
<1>1. turn[w].pc = "checking" /\ team' = team /\ came' = came
  BY DEF CheckWrites, crowds
<1>a. budgets \in BudgetTable
  BY Known
<1>2. SameBudgets(w, made) /\ DOMAIN made = Examined(w)
  BY CheckedFields, Known
<1>3. \/ budgets' = Written(w, made) /\ blurred' = blurred \cup Overtaken(w, made)
      \/ budgets' = budgets
  BY DEF CheckWrites
<1>4. /\ turn' = [turn EXCEPT ![w] = [Idle EXCEPT !.pc = "turn", !.run = turn[w].run]]
      /\ Exhausted(w) = {} /\ budgets' = Written(w, made)
      /\ blurred' = blurred \cup Overtaken(w, made)
      \/ turn' = [turn EXCEPT ![w] = Idle]
  BY DEF CheckWrites
<1>5. \A v \in Threads \ {w} : turn'[v] = turn[v]
  BY <1>4, Known
<1>6. i \in DOMAIN budgets' /\ Identity(budgets'[i]) = Identity(budgets[i])
  BY <1>3, <1>a, WrittenFields
<1>7. \A v \in Threads \ {w} : MayCharge(v, i)' => MayCharge(v, i)
  BY <1>1, <1>5, <1>6, SameMayCharge
<1>8. budgets[i].used \in Nat /\ budgets'[i].used \in Nat /\ budgets'[i].limit > 0
  <2>1. budgets \in BudgetTable /\ budgets' \in BudgetTable
    BY DEF TypeInv
  <2> QED BY <1>6, <2>1, BudgetFields
\* Where its window has run out the counter is set back to 0.
<1>9. budgets'[i].used = budgets[i].used
      \/ (budgets'[i].used = 0 /\ budgets'[i].used < budgets'[i].limit)
  <2>1. CASE i \in Dirty(w, made) /\ budgets' = Written(w, made)
                /\ blurred' = blurred \cup Overtaken(w, made)
    <3>1. i \notin Overtaken(w, made) /\ i \in Examined(w)
      BY <1>2, <2>1 DEF Dirty
    <3>2. budgets[i] = turn[w].seen[i] /\ budgets'[i].used = made[i].used
      BY <2>1, <3>1, <1>a, WrittenFields
    <3>3. made[i] = Rolled(turn[w].seen[i], turn[w].took) /\ turn[w].seen[i] \in BudgetRow
      BY <3>1, CheckedFields, Known
    <3>4. made[i].used = turn[w].seen[i].used \/ made[i].used = 0
      BY <3>3, RolledFields
    <3> QED BY <1>8, <3>2, <3>4
  <2>2. CASE i \notin Dirty(w, made) \/ budgets' = budgets
    BY <1>3, <2>2, <1>a, WrittenFields
  <2> QED BY <1>3, <2>1, <2>2
<1>10. CASE budgets'[i].used < budgets'[i].limit
  BY <1>10, BelowAtOnce
<1>11. CASE ~(budgets'[i].used < budgets'[i].limit)
  <2>1. budgets'[i].used = budgets[i].used
    BY <1>9, <1>11
  <2>2. MayCharge(w, i)' => MayCharge(w, i)
    <3>1. CASE turn' = [turn EXCEPT ![w] = Idle]
      <4>1. turn'[w] = Idle
        BY <3>1, Known
      <4> QED BY <4>1 DEF MayCharge, Idle
    <3>2. CASE /\ turn' = [turn EXCEPT ![w] = [Idle EXCEPT !.pc = "turn", !.run = turn[w].run]]
               /\ Exhausted(w) = {} /\ budgets' = Written(w, made)
               /\ blurred' = blurred \cup Overtaken(w, made)
      <4>1. turn'[w] = [Idle EXCEPT !.pc = "turn", !.run = turn[w].run]
        BY <3>2, Known
      <4>2. turn'[w].pc = "turn" /\ turn'[w].run = turn[w].run
        BY <4>1 DEF Idle
      <4>3. SUFFICES ASSUME MayCharge(w, i)', i \in DOMAIN turn[w].seen,
                            ~(turn[w].seen[i].used < turn[w].seen[i].limit)
                     PROVE  FALSE
        <5>1. (i \in BudgetsFor(turn[w].run))' => i \in BudgetsFor(turn[w].run)
          BY <1>1, <1>6, <4>2, SameFor
        <5>2. MayCharge(w, i)' => (i \in BudgetsFor(turn[w].run))'
          BY <4>2 DEF MayCharge
        <5> QED BY <1>1, <4>3, <5>1, <5>2 DEF MayCharge
      <4>4. i \in Examined(w) /\ i \notin Exhausted(w)
        BY <3>2, <4>3 DEF Examined
      <4>5. made[i] = Rolled(turn[w].seen[i], turn[w].took) /\ turn[w].seen[i] \in BudgetRow
        BY <4>4, CheckedFields, Known
      <4>6. ~(made[i].used >= made[i].limit)
        BY <4>3, <4>4, <4>5 DEF Exhausted
      <4>7. made[i] # turn[w].seen[i] /\ made[i] \in BudgetRow
        <5>1. turn[w].took \in Nat
          BY AtWork, Bounds
        <5>2. made[i] \in BudgetRow
          BY <4>5, <5>1, RolledType
        <5>3. /\ made[i].used \in Nat /\ made[i].limit \in Nat
              /\ turn[w].seen[i].used \in Nat /\ turn[w].seen[i].limit \in Nat
          BY <4>5, <5>2, RowFields
        <5> HIDE DEF made
        <5> QED BY <4>3, <4>6, <5>2, <5>3
      <4>8. i \in Dirty(w, made) /\ i \notin Overtaken(w, made)
        BY <1>2, <3>2, <4>4, <4>7 DEF Dirty
      <4>9. budgets'[i].used = made[i].used /\ budgets[i] = turn[w].seen[i]
        BY <3>2, <4>8, <1>a, WrittenFields
      <4>10. made[i].used = 0
        BY <4>5, <4>7, RolledFields
      <4> QED BY <1>8, <1>9, <1>11, <4>9, <4>10, <4>3
    <3> QED BY <1>4, <3>1, <3>2
  <2>3. budgets'[i].used <= budgets[i].used
    BY <2>1, <1>8
  <2> QED BY <1>1, <1>6, <1>7, <2>2, <2>3, BurnStays
<1> QED BY <1>10, <1>11

\* A turn that ends, or charges that are read: who might charge still may.
LEMMA MeteredBurn ==
  ASSUME TypeInv, TypeInv', NEW w \in Threads,
         (\E u \in 0..TurnUnits : TurnEnds(w, u)) \/ ChargeReads(w),
         NEW i \in DOMAIN budgets, BelowNow(i)
  PROVE  BelowNow(i)'
<1>1. budgets' = budgets /\ team' = team /\ came' = came
  BY DEF TurnEnds, ChargeReads, crowds
<1>2. /\ \A v \in Threads \ {w} : turn'[v] = turn[v]
      /\ turn[w].pc \in {"turn", "metered"}
      /\ \/ turn'[w].pc = "metered" /\ turn'[w].run = turn[w].run
         \/ turn'[w].pc = "charging" /\ turn'[w].seen = Loaded(turn[w].run)
         \/ turn'[w].pc = "idle"
  <2>0. turn[w] \in TurnRow /\ DOMAIN turn = Threads
    BY Known
  <2>1. ASSUME NEW u \in 0..TurnUnits, TurnEnds(w, u)
        PROVE  /\ \A v \in Threads \ {w} : turn'[v] = turn[v]
               /\ turn[w].pc = "turn" /\ turn'[w].pc = "metered" /\ turn'[w].run = turn[w].run
    <3>1. turn[w].pc = "turn" /\ turn' = [turn EXCEPT ![w].pc = "metered", ![w].units = u]
      BY <2>1 DEF TurnEnds
    <3> QED BY <2>0, <3>1 DEF TurnRow
  <2>2. ASSUME ChargeReads(w)
        PROVE  /\ \A v \in Threads \ {w} : turn'[v] = turn[v]
               /\ turn[w].pc = "metered"
               /\ \/ turn'[w].pc = "charging" /\ turn'[w].seen = Loaded(turn[w].run)
                  \/ turn'[w].pc = "idle"
    <3>1. /\ turn[w].pc = "metered"
          /\ turn' = [turn EXCEPT ![w] =
                IF @.units = 0 THEN Idle
                ELSE [@ EXCEPT !.pc = "charging", !.took = now, !.seen = Loaded(turn[w].run)]]
      BY <2>2 DEF ChargeReads
    <3> QED BY <2>0, <3>1 DEF TurnRow, Idle
  <2> QED BY <2>1, <2>2
<1>3. MayCharge(w, i)' => MayCharge(w, i)
  <2>2. turn'[w].run = turn[w].run =>
          (i \in BudgetsFor(turn[w].run))' = (i \in BudgetsFor(turn[w].run))
    BY <1>1 DEF BudgetsFor
  <2> QED BY <1>2, <2>2, ReadsWhatIsThere DEF MayCharge
<1>4. \A v \in Threads : MayCharge(v, i)' => MayCharge(v, i)
  BY <1>1, <1>2, <1>3, SameMayCharge
<1>5. budgets[i].used \in Nat
  BY Known, BudgetFields
<1> QED BY <1>1, <1>4, <1>5, BurnStays

LEMMA ChargeWritesBurn ==
  ASSUME TypeInv, TypeInv', NEW w \in Threads, ChargeWrites(w),
         NEW i \in DOMAIN budgets, i \notin blurred', BelowNow(i)
  PROVE  BelowNow(i)'
<1> DEFINE made == AfterCharge(w)
<1>1. turn[w].pc = "charging" /\ team' = team /\ came' = came /\ turn' = [turn EXCEPT ![w] = Idle]
  BY DEF ChargeWrites, crowds
<1>a. budgets \in BudgetTable /\ budgets' \in BudgetTable /\ turn \in [Threads -> TurnRow]
  BY DEF TypeInv
<1>2. \/ budgets' = Written(w, made) /\ blurred' = blurred \cup Overtaken(w, made)
      \/ budgets' = budgets
  BY DEF ChargeWrites
<1>3. i \in DOMAIN budgets' /\ Identity(budgets'[i]) = Identity(budgets[i])
  BY <1>2, <1>a, WrittenFields
<1>4. turn'[w] = Idle /\ \A v \in Threads \ {w} : turn'[v] = turn[v]
  BY <1>1, <1>a
<1>5. \A v \in Threads : MayCharge(v, i)' => MayCharge(v, i) /\ v # w
  <2>1. ~MayCharge(w, i)'
    BY <1>4 DEF MayCharge, Idle
  <2>2. \A v \in Threads \ {w} : MayCharge(v, i)' => MayCharge(v, i)
    BY <1>1, <1>3, <1>4, SameMayCharge
  <2> QED BY <2>1, <2>2
<1>6. /\ budgets[i].used \in Nat /\ budgets[i].limit \in Nat /\ budgets'[i].used \in Nat
      /\ budgets'[i].limit = budgets[i].limit /\ came \in Nat
  BY <1>a, <1>3, BudgetFields, LimitStays, CameInNat
<1>7. CASE budgets'[i] = budgets[i]
  BY <1>1, <1>3, <1>5, <1>6, <1>7, BurnStays
<1>8. CASE budgets'[i] # budgets[i]
  <2>1. budgets' = Written(w, made) /\ i \in Dirty(w, made) /\ i \notin Overtaken(w, made)
    BY <1>2, <1>8, <1>a, WrittenFields
  <2>2. budgets[i] = turn[w].seen[i] /\ budgets'[i].used = made[i].used /\ i \in DOMAIN turn[w].seen
    BY <2>1, <1>a, WrittenFields, ChargedFields DEF Dirty
  <2>3. PICK b : b = Rolled(turn[w].seen[i], turn[w].took)
    OBVIOUS
  <2>4. made[i].used = b.used + turn[w].units /\ turn[w].seen[i] \in BudgetRow
    BY <1>a, <2>2, <2>3, ChargedFields
  <2>5. b.used = turn[w].seen[i].used \/ b.used = 0
    BY <2>3, <2>4, RolledFields
  <2>6. turn[w].units \in Nat /\ turn[w].units <= TurnUnits
    <3>1. turn[w].units \in 0..TurnUnits
      BY <1>a DEF TurnRow
    <3> QED BY <3>1, Bounds
  <2> HIDE DEF made
  <2>7. budgets'[i].used <= budgets[i].used + TurnUnits
    BY <1>6, <2>2, <2>4, <2>5, <2>6, Bounds
  <2>8. MayCharge(w, i)
    BY <1>1, <2>2 DEF MayCharge
  <2>9. PICK S \in SUBSET Threads, T \in SUBSET Threads : S = Chargers(i) /\ T = Chargers(i)'
    BY DEF Chargers
  <2>10. w \in S /\ T \in SUBSET (S \ {w})
    BY <2>8, <2>9, <1>5 DEF Chargers
  <2>11. StaysBelow(budgets[i].used, budgets[i].limit, Cardinality(S), came)
    BY <2>9 DEF BelowNow
  <2>12. StaysBelow(budgets'[i].used, budgets[i].limit, Cardinality(T), came)
    BY <1>6, <2>7, <2>10, <2>11, StaysWhenCharged
  <2> QED BY <1>1, <1>6, <2>9, <2>12 DEF BelowNow
<1> QED BY <1>7, <1>8

\* The threads at a run come to a budget with its person.
LEMMA SetUserTeamBurn ==
  ASSUME TypeInv, TypeInv', NEW r \in Runs, NEW t \in Teams \cup {""},
         SetUserTeam(r, t), NEW i \in DOMAIN budgets, BelowNow(i)
  PROVE  BelowNow(i)'
<1>1. /\ budgets' = budgets /\ turn' = turn /\ team' = [team EXCEPT ![r] = t]
      /\ came' = came + Cardinality(AtRun(r))
  BY DEF SetUserTeam
<1>2. \A q \in Runs : q # r => team'[q] = team[q]
  BY <1>1, Known
<1>3. \A v \in Threads :
        turn[v].pc # "idle" /\ turn[v].run # r /\ MayCharge(v, i)' => MayCharge(v, i)
  <2> SUFFICES ASSUME NEW v \in Threads, turn[v].pc # "idle", turn[v].run # r, MayCharge(v, i)'
               PROVE  MayCharge(v, i)
    OBVIOUS
  <2>1. turn[v].run \in Runs
    BY AtWork
  <2> QED BY <1>1, <1>2, <2>1, SameMayCharge
<1>4. \A v \in Threads : MayCharge(v, i)' => turn[v].pc # "idle"
  BY <1>1 DEF MayCharge
<1>5. PICK A \in SUBSET Threads : A = AtRun(r)
  BY DEF AtRun
<1>6. PICK S \in SUBSET Threads, T \in SUBSET Threads : S = Chargers(i) /\ T = Chargers(i)'
  BY DEF Chargers
<1>7. T \subseteq S \cup A
  BY <1>3, <1>4, <1>5, <1>6 DEF Chargers, AtRun
<1>8. budgets[i].used \in Nat /\ budgets[i].limit \in Nat /\ came \in Nat
  <2>1. budgets \in BudgetTable
    BY Known
  <2>2. came \in Nat
    BY CameInNat
  <2> QED BY <2>1, <2>2, BudgetFields
<1>9. StaysBelow(budgets[i].used, budgets[i].limit, Cardinality(S), came)
  BY <1>6 DEF BelowNow
<1>10. StaysBelow(budgets[i].used, budgets[i].limit, Cardinality(T), came + Cardinality(A))
  BY <1>7, <1>8, <1>9, StaysWhenJoined
<1> QED BY <1>1, <1>5, <1>6, <1>10 DEF BelowNow

\* Budgets made and removed, the clock and crashes.
LEMMA OthersBurn ==
  ASSUME TypeInv, TypeInv',
         \/ \E q \in Requests : CreateBudget(q)
         \/ \E j \in DOMAIN budgets : DeleteBudget(j)
         \/ Tick
         \/ Down,
         NEW i \in DOMAIN budgets', i \in DOMAIN budgets => BelowNow(i)
  PROVE  BelowNow(i)'
<1>a. budgets \in BudgetTable /\ budgets' \in BudgetTable
  BY DEF TypeInv
<1>0. team' = team /\ came' = came
  BY DEF CreateBudget, DeleteBudget, Tick, Down, crowds
<1>1. \/ i \in DOMAIN budgets /\ budgets'[i] = budgets[i]
      \/ budgets'[i].used = 0
  <2>1. ASSUME NEW q \in Requests, CreateBudget(q)
        PROVE  (i \in DOMAIN budgets /\ budgets'[i] = budgets[i]) \/ budgets'[i].used = 0
    <3>1. budgets' = [j \in DOMAIN budgets \cup {born'} |->
                        IF j = born' THEN NewBudget(q) ELSE budgets[j]]
      BY <2>1 DEF CreateBudget
    <3>2. NewBudget(q).used = 0
      BY DEF NewBudget
    <3> QED BY <3>1, <3>2
  <2>2. ASSUME NEW j \in DOMAIN budgets, DeleteBudget(j)
        PROVE  i \in DOMAIN budgets /\ budgets'[i] = budgets[i]
    BY <2>2 DEF DeleteBudget
  <2>3. ASSUME Tick \/ Down
        PROVE  i \in DOMAIN budgets /\ budgets'[i] = budgets[i]
    BY <2>3 DEF Tick, Down
  <2> QED BY <2>1, <2>2, <2>3
<1>2. turn' = turn \/ turn' = [w \in Threads |-> Idle]
  BY DEF CreateBudget, DeleteBudget, Tick, Down
<1>3. CASE budgets'[i].used = 0
  BY <1>a, <1>3, BudgetFields, BelowAtOnce
<1>4. CASE i \in DOMAIN budgets /\ budgets'[i] = budgets[i]
  <2>1. ASSUME NEW v \in Threads, MayCharge(v, i)' PROVE MayCharge(v, i)
    <3>1. CASE turn' = turn
      BY <1>0, <1>4, <2>1, <3>1, SameMayCharge
    <3>2. CASE turn' = [w \in Threads |-> Idle]
      BY <2>1, <3>2 DEF MayCharge, Idle
    <3> QED BY <1>2, <3>1, <3>2
  <2>2. budgets[i].used \in Nat
    BY <1>a, <1>4, BudgetFields
  <2> QED BY <1>0, <1>4, <2>1, <2>2, BurnStays
<1> QED BY <1>1, <1>3, <1>4

LEMMA BlurredStays ==
  ASSUME [BudgetsNext]_budgetVars
  PROVE  blurred \subseteq blurred'
BY DEF BudgetsNext, budgetVars, Takes, CheckCeiling, CheckReads, CheckWrites, TurnEnds, ChargeReads, ChargeWrites,
       CreateBudget, DeleteBudget, SetUserTeam, Tick, Down

LEMMA BurnKeeps ==
  ASSUME TypeInv, TypeInv', BurnInv, BudgetsNext
  PROVE  BurnInv'
<1> SUFFICES ASSUME NEW i \in DOMAIN budgets', i \notin blurred' PROVE BelowNow(i)'
  BY DEF BurnInv, BelowNow
<1>1. i \notin blurred
  BY BlurredStays
<1>2. i \in DOMAIN budgets => BelowNow(i)
  BY <1>1 DEF BurnInv, BelowNow
<1>3. ASSUME \/ \E q \in Requests : CreateBudget(q)
             \/ \E j \in DOMAIN budgets : DeleteBudget(j)
             \/ Tick
             \/ Down
      PROVE BelowNow(i)'
  BY <1>2, <1>3, OthersBurn
<1>a. budgets \in BudgetTable
  BY Known
<1>4. ASSUME NEW w \in Threads,
             \/ Checking(w)
             \/ CheckWrites(w)
             \/ \E u \in 0..TurnUnits : TurnEnds(w, u)
             \/ ChargeReads(w)
             \/ ChargeWrites(w)
      PROVE  BelowNow(i)'
  <2>1. i \in DOMAIN budgets
    <3>1. DOMAIN Written(w, AfterCheck(w)) = DOMAIN budgets
          /\ DOMAIN Written(w, AfterCharge(w)) = DOMAIN budgets
      BY DEF Written
    <3> QED BY <1>4, <3>1, CheckingSteps DEF CheckWrites, TurnEnds, ChargeReads, ChargeWrites
  <2> QED BY <1>2, <1>4, <2>1, CheckingBurn, CheckWritesBurn, MeteredBurn, ChargeWritesBurn
<1>5. ASSUME NEW r \in Runs, NEW t \in Teams \cup {""}, SetUserTeam(r, t) PROVE BelowNow(i)'
  <2>1. i \in DOMAIN budgets
    BY <1>5 DEF SetUserTeam
  <2> QED BY <1>2, <1>5, <2>1, SetUserTeamBurn
<1> QED BY <1>3, <1>4, <1>5 DEF BudgetsNext, Checking

LEMMA BurnStep ==
  TypeInv /\ BurnInv /\ [BudgetsNext]_budgetVars => BurnInv'
<1> SUFFICES ASSUME TypeInv, BurnInv, [BudgetsNext]_budgetVars PROVE BurnInv'
  OBVIOUS
<1>1. TypeInv'
  BY StepTypes
<1>2. CASE BudgetsNext
  BY <1>1, <1>2, BurnKeeps
<1>3. CASE UNCHANGED budgetVars
  BY <1>3 DEF budgetVars, crowds, BurnInv, Chargers, MayCharge, BudgetsFor
<1> QED BY <1>2, <1>3

LEMMA BurnIsBounded == TypeInv /\ BurnInv => BurnBounded
<1> SUFFICES ASSUME TypeInv, BurnInv, NEW i \in DOMAIN budgets \ blurred
             PROVE  budgets[i].used < budgets[i].limit + TurnUnits * (Cardinality(Threads) + came)
  BY DEF BurnBounded
<1>1. budgets[i].used \in Nat /\ budgets[i].limit \in Nat /\ came \in Nat
  <2>1. budgets \in BudgetTable
    BY Known
  <2>2. came \in Nat
    BY CameInNat
  <2> QED BY <2>1, <2>2, BudgetFields
<1>2. Chargers(i) \in SUBSET Threads
  BY DEF Chargers
<1>3. PICK s \in Nat, n \in Nat : s = Cardinality(Chargers(i)) /\ n = Cardinality(Threads)
  BY <1>2, SomeThreads, ThreadsAreFinite
<1>4. TurnUnits * s \in Nat /\ TurnUnits * (n + came) \in Nat
  BY <1>1, <1>3, Times, Bounds
<1>5. StaysBelow(budgets[i].used, budgets[i].limit, s, came)
  BY <1>3 DEF BurnInv
<1> QED BY <1>1, <1>3, <1>4, <1>5 DEF StaysBelow

(***************************************************************************)
(* A budget goes past its limit by the turns under way when it was         *)
(* reached, one a thread, and by those that came to it with their person's *)
(* new team after their check: check_budget before, charge after, for      *)
(* every number of threads, runs, budgets and crashes.                     *)
(***************************************************************************)
THEOREM TheBurnIsBounded == BudgetsSpec => []BurnBounded
<1>1. BudgetsInit => TypeInv
  BY InitTypes
<1>2. BudgetsInit => BurnInv
  BY DEF BudgetsInit, BurnInv
<1>3. TypeInv /\ [BudgetsNext]_budgetVars => TypeInv'
  BY StepTypes
<1>4. TypeInv /\ BurnInv /\ [BudgetsNext]_budgetVars => BurnInv'
  BY BurnStep
<1>5. TypeInv /\ BurnInv => BurnBounded
  BY BurnIsBounded
<1> QED BY <1>1, <1>2, <1>3, <1>4, <1>5, PTL DEF BudgetsSpec

-----------------------------------------------------------------------------
(* What sessions have read. *)

\* Rows say nothing of the future, and new ids are larger than the old ones.
RowsInv == \A i \in DOMAIN budgets : i <= born /\ budgets[i].started <= now

\* What a thread's session holds was read before now, of budgets that it is to be
\* charged to; those that are still there are the same budgets.
ReadBefore(row) ==
  /\ row.took <= now
  /\ row.pc = "charging" => row.units > 0
  /\ \A i \in DOMAIN row.seen :
       /\ i <= born /\ row.seen[i].started <= row.took
       /\ i \in DOMAIN budgets => Identity(row.seen[i]) = Identity(budgets[i])
       /\ row.seen[i].scope = "repo" => row.seen[i].scope_id = RepoOf[row.run]

SeenInv == RowsInv /\ \A w \in Threads : ReadBefore(turn[w])

LEMMA BudgetsGoOn ==
  ASSUME TypeInv, BudgetsNext
  PROVE  /\ now <= now' /\ born <= born'
         /\ \A i \in DOMAIN budgets' :
              \/ i \in DOMAIN budgets /\ Identity(budgets'[i]) = Identity(budgets[i])
              \/ i = born + 1 /\ born' = born + 1 /\ budgets'[i].started = Blank
<1>0. now \in Nat /\ born \in Nat /\ budgets \in BudgetTable
  <2>1. now \in 0..MaxTime /\ born \in Nat /\ budgets \in BudgetTable
    BY Known
  <2> QED BY <2>1, Bounds
<1> DEFINE Fine == /\ now <= now' /\ born <= born'
                   /\ \A i \in DOMAIN budgets' :
                        \/ i \in DOMAIN budgets /\ Identity(budgets'[i]) = Identity(budgets[i])
                        \/ i = born + 1 /\ born' = born + 1 /\ budgets'[i].started = Blank
<1>1. ASSUME budgets' = budgets, now <= now', born' = born PROVE Fine
  BY <1>0, <1>1
<1>2. ASSUME NEW w, NEW made, budgets' = Written(w, made), now' = now, born' = born PROVE Fine
  <2>1. now <= now' /\ born <= born'
    BY <1>0, <1>2
  <2>2. \A i \in DOMAIN budgets' :
          i \in DOMAIN budgets /\ Identity(budgets'[i]) = Identity(budgets[i])
    <3>1. DOMAIN budgets' = DOMAIN budgets
      BY <1>2 DEF Written
    <3> QED BY <1>0, <1>2, <3>1, WrittenFields
  <2> QED BY <2>1, <2>2
<1>3. ASSUME NEW q \in Requests, CreateBudget(q) PROVE Fine
  <2>1. /\ budgets' = [i \in DOMAIN budgets \cup {born'} |->
                        IF i = born' THEN NewBudget(q) ELSE budgets[i]]
        /\ born' = born + 1 /\ now' = now
    BY <1>3 DEF CreateBudget
  <2>2. NewBudget(q).started = Blank
    BY DEF NewBudget
  <2> QED BY <1>0, <2>1, <2>2
<1>4. ASSUME NEW j \in DOMAIN budgets, DeleteBudget(j) PROVE Fine
  BY <1>0, <1>4 DEF DeleteBudget
<1>5. ASSUME NEW w \in Threads, CheckWrites(w) PROVE Fine
  <2>1. budgets' = budgets \/ budgets' = Written(w, AfterCheck(w))
    BY <1>5 DEF CheckWrites
  <2>2. now' = now /\ born' = born
    BY <1>5 DEF CheckWrites
  <2> HIDE DEF Fine
  <2> QED BY <1>0, <1>1, <1>2, <2>1, <2>2
<1>6. ASSUME NEW w \in Threads, ChargeWrites(w) PROVE Fine
  <2>1. budgets' = budgets \/ budgets' = Written(w, AfterCharge(w))
    BY <1>6 DEF ChargeWrites
  <2>2. now' = now /\ born' = born
    BY <1>6 DEF ChargeWrites
  <2> HIDE DEF Fine
  <2> QED BY <1>0, <1>1, <1>2, <2>1, <2>2
<1>7. ASSUME \/ \E w \in Threads :
                  \/ Checking(w)
                  \/ \E u \in 0..TurnUnits : TurnEnds(w, u)
                  \/ ChargeReads(w)
             \/ \E r \in Runs, t \in Teams \cup {""} : SetUserTeam(r, t)
             \/ Tick
             \/ Down
      PROVE  Fine
  <2>1. budgets' = budgets /\ born' = born /\ (now' = now \/ now' = now + 1)
    BY <1>7, CheckingSteps DEF TurnEnds, ChargeReads, SetUserTeam, Tick, Down
  <2>2. now <= now'
    BY <1>0, <2>1
  <2> HIDE DEF Fine
  <2> QED BY <1>1, <2>1, <2>2
<1> HIDE DEF Fine
<1>8. Fine
  BY <1>3, <1>4, <1>5, <1>6, <1>7 DEF BudgetsNext, Checking
<1> QED BY <1>8 DEF Fine

\* What was read before stays so.
LEMMA ReadsStay ==
  ASSUME TypeInv, BudgetsNext, NEW row \in TurnRow, ReadBefore(row)
  PROVE  ReadBefore(row)'
<1>0. /\ now \in Nat /\ born \in Nat /\ row.took \in Nat /\ row.seen \in BudgetTable
      /\ now' \in Nat /\ born' \in Nat
  <2>1. now \in 0..MaxTime /\ born \in Nat
    BY Known
  <2>2. row.took \in 0..MaxTime /\ row.seen \in BudgetTable
    BY DEF TurnRow
  <2>3. now' \in 0..MaxTime /\ born' \in Nat
    BY StepTypes DEF TypeInv, BudgetsTypeOK
  <2> QED BY <2>1, <2>2, <2>3, Bounds
<1>1. now <= now' /\ born <= born'
  BY BudgetsGoOn
<1>2. row.took <= now'
  BY <1>0, <1>1 DEF ReadBefore
<1>3. ASSUME NEW i \in DOMAIN row.seen
      PROVE  /\ i <= born'
             /\ i \in DOMAIN budgets' => Identity(row.seen[i]) = Identity(budgets'[i])
  <2>1. i \in Nat /\ i <= born
    BY <1>0, OfTable, BornInNat DEF ReadBefore
  <2>2. i # born + 1 /\ i <= born'
    BY <1>0, <1>1, <2>1
  <2>3. i \in DOMAIN budgets' =>
          i \in DOMAIN budgets /\ Identity(budgets'[i]) = Identity(budgets[i])
    BY <2>2, BudgetsGoOn
  <2> QED BY <2>2, <2>3 DEF ReadBefore
<1> QED BY <1>2, <1>3 DEF ReadBefore

LEMMA IdleHasRead == TypeInv => ReadBefore(Idle)
<1> SUFFICES ASSUME TypeInv PROVE ReadBefore(Idle)
  OBVIOUS
<1>1. now \in 0..MaxTime
  BY Known
<1>2. 0 <= now
  BY <1>1, Bounds
<1>3. DOMAIN <<>> = {}
  OBVIOUS
<1> QED BY <1>2, <1>3 DEF ReadBefore, Idle

\* What has just been read.
LEMMA JustRead ==
  ASSUME TypeInv, RowsInv, NEW row, row.took = now, NEW r, row.run = r, row.seen = Loaded(r),
         row.pc = "charging" => row.units > 0
  PROVE  ReadBefore(row)
<1>1. now \in 0..MaxTime
  BY Known
<1>2. row.took <= now
  BY <1>1, Bounds
<1>3. ASSUME NEW i \in DOMAIN row.seen
      PROVE  /\ i <= born /\ row.seen[i].started <= row.took
             /\ i \in DOMAIN budgets => Identity(row.seen[i]) = Identity(budgets[i])
             /\ row.seen[i].scope = "repo" => row.seen[i].scope_id = RepoOf[row.run]
  <2>1. i \in BudgetsFor(r) /\ i \in DOMAIN budgets /\ row.seen[i] = budgets[i]
    BY ReadsWhatIsThere
  <2>2. budgets[i].scope = "repo" => budgets[i].scope_id = RepoOf[r]
    BY <2>1 DEF BudgetsFor
  <2> QED BY <2>1, <2>2 DEF RowsInv
<1> QED BY <1>2, <1>3 DEF ReadBefore

\* A thread goes on to a row that is as it should be.
LEMMA TurnsRead ==
  ASSUME TypeInv, BudgetsNext, SeenInv, NEW w \in Threads, NEW row \in TurnRow,
         turn' = [turn EXCEPT ![w] = row], ReadBefore(row)
  PROVE  \A v \in Threads : ReadBefore(turn[v])'
<1> SUFFICES ASSUME NEW v \in Threads PROVE ReadBefore(turn[v])'
  OBVIOUS
<1>1. PICK new \in TurnRow : new = turn'[v] /\ ReadBefore(new)
  <2>1. turn'[v] = IF v = w THEN row ELSE turn[v]
    BY Known
  <2>2. turn[v] \in TurnRow /\ ReadBefore(turn[v])
    BY AtWork DEF SeenInv
  <2> QED BY <2>1, <2>2
<1>2. ReadBefore(new)'
  BY <1>1, ReadsStay
<1> QED BY <1>1, <1>2 DEF ReadBefore

LEMMA StepReads ==
  ASSUME TypeInv, SeenInv, BudgetsNext
  PROVE  \A v \in Threads : ReadBefore(turn[v])'
<1>1. ASSUME turn' = turn PROVE \A v \in Threads : ReadBefore(turn[v])'
  <2> SUFFICES ASSUME NEW v \in Threads PROVE ReadBefore(turn[v])'
    OBVIOUS
  <2>1. PICK row \in TurnRow : row = turn[v]
    BY AtWork
  <2>2. ReadBefore(row)'
    BY <2>1, ReadsStay DEF SeenInv
  <2> QED BY <1>1, <2>1, <2>2 DEF ReadBefore
<1>2. ReadBefore(Idle) /\ Idle \in TurnRow
  BY IdleHasRead, IdleIsATurn
<1>3. ASSUME NEW w \in Threads, Checking(w)
      PROVE  \A v \in Threads : ReadBefore(turn[v])'
  <2>1. PICK row : CheckingRow(w, row)
    BY <1>3, CheckingSteps
  <2>2. /\ turn' = [turn EXCEPT ![w] = row] /\ row \in TurnRow /\ row.pc # "charging"
        /\ \/ row.seen = Idle.seen /\ row.took = Idle.took
           \/ row.seen = turn[w].seen /\ row.took = turn[w].took /\ row.run = turn[w].run
           \/ row.seen = Loaded(row.run) /\ row.took = now
    BY <2>1 DEF CheckingRow
  <2>3. ReadBefore(turn[w])
    BY DEF SeenInv
  <2>4. Idle.seen = <<>> /\ DOMAIN <<>> = {}
    BY DEF Idle
  <2>5. CASE row.seen = Idle.seen /\ row.took = Idle.took
    <3>1. ReadBefore(row)
      BY <1>2, <2>2, <2>4, <2>5 DEF ReadBefore
    <3> QED BY <2>2, <3>1, TurnsRead
  <2>6. CASE row.seen = turn[w].seen /\ row.took = turn[w].took /\ row.run = turn[w].run
    <3>1. ReadBefore(row)
      BY <2>2, <2>3, <2>6 DEF ReadBefore
    <3> QED BY <2>2, <3>1, TurnsRead
  <2>7. CASE row.seen = Loaded(row.run) /\ row.took = now
    <3>1. ReadBefore(row)
      BY <2>2, <2>7, JustRead DEF SeenInv
    <3> QED BY <2>2, <3>1, TurnsRead
  <2> QED BY <2>2, <2>5, <2>6, <2>7
<1>4. ASSUME NEW w \in Threads, CheckWrites(w)
      PROVE  \A v \in Threads : ReadBefore(turn[v])'
  <2> DEFINE on == [Idle EXCEPT !.pc = "turn", !.run = turn[w].run]
  <2>1. turn' = [turn EXCEPT ![w] = on] \/ turn' = [turn EXCEPT ![w] = Idle]
    BY <1>4 DEF CheckWrites
  <2>2. turn[w].run \in Runs
    BY <1>4, AtWork DEF CheckWrites
  <2>a. on \in TurnRow
    BY <1>2, <2>2 DEF TurnRow, Idle
  <2>b. on.pc # "charging" /\ on.took = Idle.took /\ on.seen = <<>>
    BY DEF Idle
  <2>3. /\ on \in TurnRow /\ on.pc # "charging" /\ on.took = Idle.took
        /\ DOMAIN on.seen = {}
    BY <2>a, <2>b
  <2> HIDE DEF on
  <2>4. ReadBefore(on)
    BY <1>2, <2>3 DEF ReadBefore
  <2> QED BY <1>2, <2>1, <2>3, <2>4, TurnsRead
<1>5. ASSUME NEW w \in Threads, NEW u \in 0..TurnUnits, TurnEnds(w, u)
      PROVE  \A v \in Threads : ReadBefore(turn[v])'
  <2> DEFINE row == [turn[w] EXCEPT !.pc = "metered", !.units = u]
  <2>1. turn' = [turn EXCEPT ![w].pc = "metered", ![w].units = u]
    BY <1>5 DEF TurnEnds
  <2>2. turn[w] \in TurnRow /\ ReadBefore(turn[w])
    BY AtWork DEF SeenInv
  <2>3. turn' = [turn EXCEPT ![w] = row]
    BY <2>1, Known
  <2>4. /\ row \in TurnRow /\ row.pc # "charging" /\ row.took = turn[w].took
        /\ row.seen = turn[w].seen /\ row.run = turn[w].run
    BY <2>2 DEF TurnRow
  <2> HIDE DEF row
  <2>5. ReadBefore(row)
    BY <2>2, <2>4 DEF ReadBefore
  <2> QED BY <2>3, <2>4, <2>5, TurnsRead
<1>6. ASSUME NEW w \in Threads, ChargeReads(w)
      PROVE  \A v \in Threads : ReadBefore(turn[v])'
  <2> DEFINE row == [turn[w] EXCEPT !.pc = "charging", !.took = now, !.seen = Loaded(turn[w].run)]
  <2>1. \/ turn' = [turn EXCEPT ![w] = Idle]
        \/ turn' = [turn EXCEPT ![w] = row] /\ turn[w].units # 0
    BY <1>6 DEF ChargeReads
  <2>2. turn[w] \in TurnRow /\ turn[w].units \in Nat
    BY AtWork
  <2>3. Loaded(turn[w].run) \in BudgetTable /\ now \in 0..MaxTime
    BY Known, LoadedType
  <2>4. /\ row \in TurnRow /\ row.took = now /\ row.units = turn[w].units
        /\ row.seen = Loaded(turn[w].run) /\ row.run = turn[w].run
    BY <2>2, <2>3 DEF TurnRow
  <2> HIDE DEF row
  <2>5. turn[w].units # 0 => row.units > 0
    BY <2>2, <2>4
  <2>6. turn[w].units # 0 => ReadBefore(row)
    BY <2>4, <2>5, JustRead DEF SeenInv
  <2> QED BY <1>2, <2>1, <2>4, <2>6, TurnsRead
<1>7. ASSUME NEW w \in Threads, ChargeWrites(w)
      PROVE  \A v \in Threads : ReadBefore(turn[v])'
  <2>1. turn' = [turn EXCEPT ![w] = Idle]
    BY <1>7 DEF ChargeWrites
  <2> QED BY <1>2, <2>1, TurnsRead
<1>8. ASSUME \/ \E q \in Requests : CreateBudget(q)
             \/ \E i \in DOMAIN budgets : DeleteBudget(i)
             \/ \E r \in Runs, t \in Teams \cup {""} : SetUserTeam(r, t)
             \/ Tick
      PROVE  \A v \in Threads : ReadBefore(turn[v])'
  BY <1>1, <1>8 DEF CreateBudget, DeleteBudget, SetUserTeam, Tick
<1>9. ASSUME Down PROVE \A v \in Threads : ReadBefore(turn[v])'
  <2>1. turn' = [w \in Threads |-> Idle]
    BY <1>9 DEF Down
  <2>2. ReadBefore(Idle)'
    BY <1>2, ReadsStay
  <2> QED BY <2>1, <2>2 DEF ReadBefore
<1> QED BY <1>3, <1>4, <1>5, <1>6, <1>7, <1>8, <1>9 DEF BudgetsNext, Checking

\* Whoever writes a row sets its window going at a time that has come.
LEMMA MadeOfThePast ==
  ASSUME TypeInv, SeenInv, NEW w \in Threads, NEW made,
         made = AfterCheck(w) \/ made = AfterCharge(w),
         NEW i \in DOMAIN made
  PROVE  made[i].started <= now
<1>0. /\ turn[w].took \in Nat /\ now \in Nat /\ turn \in [Threads -> TurnRow]
      /\ turn[w].seen \in BudgetTable
  <2>1. turn[w].took \in 0..MaxTime /\ now \in 0..MaxTime /\ turn \in [Threads -> TurnRow]
    BY AtWork, Known
  <2>2. turn[w].seen \in BudgetTable
    BY AtWork
  <2> QED BY <2>1, <2>2, Bounds
<1>1. turn[w].took <= now
  BY DEF SeenInv, ReadBefore
<1>2. i \in DOMAIN turn[w].seen
  <2>1. SameBudgets(w, made)
    BY <1>0, CheckedFields, ChargedFields
  <2> QED BY <2>1 DEF SameBudgets
<1>3. PICK s \in BudgetRow : s = turn[w].seen[i]
  BY <1>0, <1>2, OfTable
<1>4. s.started <= turn[w].took /\ s.started \in Nat \cup {Blank}
  BY <1>2, <1>3, RowFields DEF SeenInv, ReadBefore
<1>5. Rolled(s, turn[w].took).started \in {s.started, turn[w].took}
  BY <1>3, RolledFields
<1>6. made[i].started \in {s.started, turn[w].took}
  <2>1. CASE made = AfterCheck(w)
    BY <1>0, <1>3, <1>5, <2>1, CheckedFields
  <2>2. CASE made = AfterCharge(w)
    <3>1. PICK b : b = Rolled(turn[w].seen[i], turn[w].took)
      OBVIOUS
    <3>2. made[i].started = IF b.started = Blank THEN turn[w].took ELSE b.started
      BY <1>0, <1>2, <2>2, <3>1, ChargedFields
    <3> QED BY <1>3, <1>5, <3>1, <3>2
  <2> QED BY <2>1, <2>2
<1> QED BY <1>0, <1>1, <1>4, <1>6 DEF Blank

LEMMA RowsStay ==
  ASSUME TypeInv, SeenInv, BudgetsNext
  PROVE  RowsInv'
<1>0. now \in Nat /\ born \in Nat /\ budgets \in BudgetTable
  <2>1. now \in 0..MaxTime /\ born \in Nat /\ budgets \in BudgetTable
    BY Known
  <2> QED BY <2>1, Bounds
<1>a. now' \in Nat /\ born' \in Nat /\ budgets' \in BudgetTable
  <2>1. TypeInv'
    BY StepTypes
  <2>2. now' \in 0..MaxTime /\ born' \in Nat /\ budgets' \in BudgetTable
    BY <2>1 DEF TypeInv, BudgetsTypeOK
  <2> QED BY <2>2, Bounds
<1> SUFFICES ASSUME NEW i \in DOMAIN budgets' PROVE i <= born' /\ budgets'[i].started <= now'
  BY DEF RowsInv
<1>1. CASE i = born + 1 /\ born' = born + 1 /\ budgets'[i].started = Blank
  BY <1>a, <1>1 DEF Blank
<1>2. CASE i \in DOMAIN budgets
  <2>1. i <= born /\ budgets[i].started <= now
    BY <1>2 DEF SeenInv, RowsInv
  <2>2. i \in Nat /\ budgets[i].started \in Nat \cup {Blank}
    <3>1. i \in Ids /\ budgets[i] \in BudgetRow
      BY <1>0, <1>2, OfTable
    <3> QED BY <3>1, BornInNat, RowFields
  <2>3. i <= born' /\ now <= now'
    BY <1>0, <1>a, <2>1, <2>2, BudgetsGoOn
  <2>4. budgets'[i].started <= now
    <3>1. ASSUME NEW w \in Threads, NEW made, made = AfterCheck(w) \/ made = AfterCharge(w),
                 budgets' = Written(w, made)
          PROVE  budgets'[i].started <= now
      <4>1. \/ budgets'[i].started = budgets[i].started
            \/ i \in DOMAIN made /\ budgets'[i].started = made[i].started
        BY <1>0, <1>2, <3>1, WrittenFields DEF Dirty
      <4> QED BY <2>1, <3>1, <4>1, MadeOfThePast
    <3>2. \/ budgets'[i] = budgets[i]
          \/ \E w \in Threads : budgets' = Written(w, AfterCheck(w))
          \/ \E w \in Threads : budgets' = Written(w, AfterCharge(w))
      <4>1. ASSUME NEW q \in Requests, CreateBudget(q)
            PROVE  budgets'[i] = budgets[i]
        <5>1. /\ budgets' = [j \in DOMAIN budgets \cup {born'} |->
                              IF j = born' THEN NewBudget(q) ELSE budgets[j]]
              /\ born' = born + 1
          BY <4>1 DEF CreateBudget
        <5>2. i # born'
          BY <1>0, <2>1, <2>2, <5>1
        <5> QED BY <1>2, <5>1, <5>2
      <4>2. ASSUME NEW j \in DOMAIN budgets, DeleteBudget(j)
            PROVE  budgets'[i] = budgets[i]
        BY <4>2 DEF DeleteBudget
      <4>3. ASSUME NEW w \in Threads, CheckWrites(w)
            PROVE  budgets' = budgets \/ budgets' = Written(w, AfterCheck(w))
        BY <4>3 DEF CheckWrites
      <4>4. ASSUME NEW w \in Threads, ChargeWrites(w)
            PROVE  budgets' = budgets \/ budgets' = Written(w, AfterCharge(w))
        BY <4>4 DEF ChargeWrites
      <4>5. ASSUME \/ \E w \in Threads :
                        \/ Checking(w)
                        \/ \E u \in 0..TurnUnits : TurnEnds(w, u)
                        \/ ChargeReads(w)
                   \/ \E r \in Runs, t \in Teams \cup {""} : SetUserTeam(r, t)
                   \/ Tick
                   \/ Down
            PROVE  budgets' = budgets
        BY <4>5, CheckingSteps DEF TurnEnds, ChargeReads, SetUserTeam, Tick, Down
      <4> QED BY <4>1, <4>2, <4>3, <4>4, <4>5 DEF BudgetsNext, Checking
    <3> QED BY <2>1, <3>1, <3>2
  <2>5. budgets'[i].started \in Nat \cup {Blank}
    BY <1>a, OfTable, RowFields
  <2> QED BY <1>0, <1>a, <2>3, <2>4, <2>5 DEF Blank
<1> QED BY <1>1, <1>2, BudgetsGoOn

LEMMA SeenStep == TypeInv /\ SeenInv /\ [BudgetsNext]_budgetVars => SeenInv'
<1> SUFFICES ASSUME TypeInv, SeenInv, [BudgetsNext]_budgetVars PROVE SeenInv'
  OBVIOUS
<1>1. CASE BudgetsNext
  BY <1>1, RowsStay, StepReads DEF SeenInv
<1>2. CASE UNCHANGED budgetVars
  BY <1>2 DEF budgetVars, SeenInv, RowsInv, ReadBefore
<1> QED BY <1>1, <1>2

LEMMA SeenAtFirst == BudgetsInit => SeenInv
<1> SUFFICES ASSUME BudgetsInit PROVE SeenInv
  OBVIOUS
<1>1. DOMAIN budgets = {} /\ \A w \in Threads : turn[w] = Idle
  BY DEF BudgetsInit
<1>2. ReadBefore(Idle)
  BY InitTypes, IdleHasRead
<1> QED BY <1>1, <1>2 DEF SeenInv, RowsInv

-----------------------------------------------------------------------------
(* A counter is what was charged. *)

Clock == 0..MaxTime
Charges == [Clock -> Nat]

\* Times that a budget's present window takes in.
InWindow(b) == {u \in Clock : b.window > 0 => u >= b.started}

\* The counter of b is the sum of the charges c in its window, and no charge was made
\* after it.
Says(b, c) ==
  /\ b.used = SumOf(c, InWindow(b))
  /\ b.window > 0 =>
       \A t \in Clock : c[t] > 0 => b.started # Blank /\ t - b.started < b.window

\* A window that is open at t.
OpenAt(b, t) == b.window > 0 => b.started # Blank /\ b.started <= t /\ t - b.started < b.window

LEMMA WindowsAreFinite ==
  ASSUME NEW b
  PROVE  IsFiniteSet(InWindow(b)) /\ InWindow(b) \subseteq Clock /\ Clock \subseteq Nat
<1>1. IsFiniteSet(0..MaxTime)
  BY Bounds, FS_Interval
<1>2. InWindow(b) \subseteq 0..MaxTime
  BY DEF InWindow, Clock
<1>3. IsFiniteSet(InWindow(b))
  BY <1>1, <1>2, FS_Subset
<1> QED BY <1>2, <1>3, Bounds DEF Clock

LEMMA RolledSays ==
  ASSUME NEW b \in BudgetRow, NEW c \in Charges, Says(b, c), NEW t \in Clock, b.started <= t
  PROVE  Says(Rolled(b, t), c) /\ OpenAt(Rolled(b, t), t) /\ Rolled(b, t).started <= t
<1>0. /\ b.window \in Nat /\ b.started \in Nat \cup {Blank} /\ t \in Nat
      /\ b.window = Rolled(b, t).window
  <2>1. Identity(Rolled(b, t)) = Identity(b)
    BY RolledFields
  <2>2. b.window \in Nat /\ b.started \in Nat \cup {Blank}
    BY RowFields
  <2> QED BY <2>1, <2>2, SameIdentity, WindowsAreFinite
<1>1. CASE b.window > 0 /\ (b.started = Blank \/ t - b.started >= b.window)
  <2>1. PICK r : r = Rolled(b, t)
    OBVIOUS
  <2>2. r.used = 0 /\ r.started = t /\ r.window = b.window
    BY <1>0, <1>1, <2>1, RolledFields
  <2>3. \A u \in Clock : c[u] \in Nat /\ u \in Nat
    BY WindowsAreFinite DEF Charges
  <2>4. ASSUME NEW u \in Clock, c[u] > 0 PROVE u < t
    <3>1. b.started # Blank /\ u - b.started < b.window
      BY <1>1, <2>4 DEF Says
    <3>2. b.started \in Nat /\ t - b.started >= b.window
      BY <1>0, <1>1, <3>1
    <3> QED BY <1>0, <2>3, <3>1, <3>2
  <2>5. \A u \in InWindow(r) : c[u] = 0
    <3> SUFFICES ASSUME NEW u \in InWindow(r) PROVE c[u] = 0
      OBVIOUS
    <3>1. u \in Clock /\ u >= t
      BY <1>1, <2>2 DEF InWindow
    <3>2. ~(u < t)
      BY <1>0, <2>3, <3>1
    <3>3. ~(c[u] > 0)
      BY <2>4, <3>1, <3>2
    <3> QED BY <2>3, <3>1, <3>3
  <2>6. SumOf(c, InWindow(r)) = 0
    BY <2>5, WindowsAreFinite, SumZero
  <2>7. \A u \in Clock : c[u] > 0 => r.started # Blank /\ u - r.started < r.window
    <3> SUFFICES ASSUME NEW u \in Clock, c[u] > 0
                 PROVE  r.started # Blank /\ u - r.started < r.window
      OBVIOUS
    <3>1. u < t /\ u \in Nat
      BY <2>3, <2>4
    <3> QED BY <1>0, <1>1, <2>2, <3>1 DEF Blank
  <2>8. Says(r, c)
    BY <2>2, <2>6, <2>7 DEF Says
  <2>9. OpenAt(r, t) /\ r.started <= t
    BY <1>0, <1>1, <2>2 DEF OpenAt, Blank
  <2> QED BY <2>1, <2>8, <2>9
<1>2. CASE ~(b.window > 0 /\ (b.started = Blank \/ t - b.started >= b.window))
  <2>1. Rolled(b, t) = b
    BY <1>2, RolledFields
  <2>2. OpenAt(b, t)
    BY <1>0, <1>2 DEF OpenAt, Blank
  <2> QED BY <2>1, <2>2
<1> QED BY <1>1, <1>2

LEMMA OneMoreCharge ==
  ASSUME NEW S, IsFiniteSet(S), NEW t \in S, NEW u \in Nat, NEW c, NEW d,
         \A x \in S : c[x] \in Int, d[t] = c[t] + u, \A x \in S \ {t} : d[x] = c[x]
  PROVE  SumOf(d, S) = SumOf(c, S) + u
<1>1. u \in Int
  OBVIOUS
<1> QED BY <1>1, SumOneMore

LEMMA ChargedSays ==
  ASSUME NEW b \in BudgetRow, NEW c \in Charges, Says(b, c), NEW t \in Clock, OpenAt(b, t),
         NEW u \in Nat, NEW d, d[t] = c[t] + u, \A x \in Clock \ {t} : d[x] = c[x],
         NEW n, n.used = b.used + u, n.window = b.window,
         n.started = IF b.started = Blank THEN t ELSE b.started
  PROVE  Says(n, d)
<1>0. b.window \in Nat /\ b.started \in Nat \cup {Blank} /\ t \in Nat
  BY RowFields, WindowsAreFinite
<1>1. InWindow(n) = InWindow(b)
  BY DEF InWindow, OpenAt
<1>2. t \in InWindow(b)
  BY <1>0 DEF InWindow, OpenAt
<1>3. \A x \in InWindow(b) : c[x] \in Int
  BY WindowsAreFinite DEF Charges
<1>4. SumOf(d, InWindow(b)) = SumOf(c, InWindow(b)) + u
  <2>1. IsFiniteSet(InWindow(b)) /\ \A x \in InWindow(b) \ {t} : d[x] = c[x]
    BY <1>3, WindowsAreFinite
  <2> QED BY <1>2, <1>3, <2>1, OneMoreCharge
<1>5. n.used = SumOf(d, InWindow(n))
  BY <1>1, <1>4 DEF Says
<1>6. ASSUME n.window > 0, NEW x \in Clock, d[x] > 0
      PROVE  n.started # Blank /\ x - n.started < n.window
  <2>1. b.started # Blank /\ n.started = b.started /\ t - b.started < b.window
    BY <1>6 DEF OpenAt
  <2>2. CASE x = t
    BY <2>1, <2>2
  <2>3. CASE x # t
    <3>1. c[x] > 0
      BY <1>3, <1>6, <2>3
    <3> QED BY <1>6, <2>1, <3>1 DEF Says
  <2> QED BY <2>2, <2>3
<1> QED BY <1>5, <1>6 DEF Says

\* Says looks at three fields.
LEMMA SameSays ==
  ASSUME NEW b, NEW n, NEW c, Says(b, c),
         n.used = b.used, n.started = b.started, n.window = b.window
  PROVE  Says(n, c)
BY DEF Says, InWindow

ChargedInv == \A i \in DOMAIN budgets \ blurred : Says(budgets[i], charged[i])
UnbornInv == \A i \in Ids : i > born => \A t \in Clock : charged[i][t] = 0
CountInv == ChargedInv /\ UnbornInv

LEMMA NewBudgetSays ==
  ASSUME NEW q, NEW c, \A t \in Clock : c[t] = 0
  PROVE  Says(NewBudget(q), c)
<1>1. NewBudget(q).used = 0
  BY DEF NewBudget
<1>2. PICK b : b = NewBudget(q)
  OBVIOUS
<1>3. SumOf(c, InWindow(b)) = 0
  BY WindowsAreFinite, SumZero
<1>4. \A t \in Clock : ~(c[t] > 0)
  OBVIOUS
<1> QED BY <1>1, <1>2, <1>3, <1>4 DEF Says

\* A row that a session wrote alone is what it made of what it read.
LEMMA CheckWritesCounts ==
  ASSUME TypeInv, SeenInv, CountInv, NEW w \in Threads, CheckWrites(w)
  PROVE  CountInv'
<1>0. /\ budgets \in BudgetTable /\ turn \in [Threads -> TurnRow] /\ charged \in [Ids -> Charges]
      /\ turn[w].took \in Clock
  <2>1. budgets \in BudgetTable /\ turn \in [Threads -> TurnRow]
    BY Known
  <2>2. charged \in [Ids -> [0..MaxTime -> Nat]]
    BY Known
  <2>3. turn[w].took \in 0..MaxTime
    BY AtWork
  <2> QED BY <2>1, <2>2, <2>3 DEF Charges, Clock
<1> DEFINE made == AfterCheck(w)
<1>1. charged' = charged /\ born' = born
  BY DEF CheckWrites
<1>2. \/ budgets' = Written(w, made) /\ blurred' = blurred \cup Overtaken(w, made)
      \/ budgets' = budgets /\ blurred' = blurred
  BY DEF CheckWrites
<1>3. ASSUME NEW i \in DOMAIN budgets', i \notin blurred' PROVE Says(budgets'[i], charged[i])
  <2>1. i \in DOMAIN budgets /\ i \notin blurred
    BY <1>2, <1>3 DEF Written
  <2>2. Says(budgets[i], charged[i])
    BY <2>1 DEF CountInv, ChargedInv
  <2>3. CASE budgets'[i] = budgets[i]
    BY <2>2, <2>3
  <2>4. CASE budgets'[i] # budgets[i]
    <3>1. /\ i \in Dirty(w, made) /\ i \notin Overtaken(w, made) /\ budgets' = Written(w, made)
      BY <1>0, <1>2, <1>3, <2>1, <2>4, WrittenFields
    <3>2. /\ budgets[i] = turn[w].seen[i] /\ i \in DOMAIN made
          /\ budgets'[i].used = made[i].used /\ budgets'[i].started = made[i].started
          /\ Identity(budgets'[i]) = Identity(budgets[i])
      BY <1>0, <2>1, <3>1, WrittenFields DEF Dirty
    <3>3. PICK r : r = Rolled(budgets[i], turn[w].took)
      OBVIOUS
    <3>4. made[i] = r /\ budgets[i] \in BudgetRow /\ i \in DOMAIN turn[w].seen
      BY <1>0, <3>2, <3>3, CheckedFields
    <3>5. budgets[i].started <= turn[w].took
      BY <3>2, <3>4 DEF SeenInv, ReadBefore
    <3>6. i \in Ids /\ charged[i] \in Charges
      <4>1. i \in Ids
        BY <1>0, <2>1, OfTable
      <4> QED BY <1>0, <4>1
    <3>7. Says(r, charged[i])
      BY <1>0, <2>2, <3>3, <3>4, <3>5, <3>6, RolledSays
    <3>8. r.window = budgets'[i].window
      <4>1. Identity(r) = Identity(budgets[i])
        BY <3>3, <3>4, RolledFields
      <4> QED BY <3>2, <4>1, SameIdentity
    <3>9. budgets'[i].used = r.used /\ budgets'[i].started = r.started
      BY <3>2, <3>4
    <3> QED BY <3>7, <3>8, <3>9, SameSays
  <2> QED BY <2>3, <2>4
<1>4. ChargedInv'
  BY <1>1, <1>3 DEF ChargedInv
<1>5. UnbornInv'
  BY <1>1 DEF CountInv, UnbornInv
<1> QED BY <1>4, <1>5 DEF CountInv

\* A charge always changes the row.
LEMMA ChargesShow ==
  ASSUME NEW b \in BudgetRow, NEW t \in Clock, b.started <= t, NEW u \in Nat, u > 0,
         NEW n, n.used = Rolled(b, t).used + u,
         n.started = IF Rolled(b, t).started = Blank THEN t ELSE Rolled(b, t).started
  PROVE  n # b
<1>0. b.window \in Nat /\ b.started \in Nat \cup {Blank} /\ t \in Nat /\ b.used \in Nat
  BY RowFields, WindowsAreFinite
<1>1. CASE b.window > 0 /\ (b.started = Blank \/ t - b.started >= b.window)
  <2>1. Rolled(b, t).started = t
    BY <1>1, RolledFields
  <2>2. n.started = t /\ b.started # t
    BY <1>0, <1>1, <2>1 DEF Blank
  <2> QED BY <2>2
<1>2. CASE ~(b.window > 0 /\ (b.started = Blank \/ t - b.started >= b.window))
  <2>1. n.used = b.used + u
    BY <1>2, RolledFields
  <2>2. n.used # b.used
    BY <1>0, <2>1
  <2> QED BY <2>2
<1> QED BY <1>1, <1>2

LEMMA ChargeWritesCounts ==
  ASSUME TypeInv, SeenInv, CountInv, NEW w \in Threads, ChargeWrites(w)
  PROVE  CountInv'
<1> DEFINE made == AfterCharge(w)
           t == turn[w].took
           u == turn[w].units
<1>0. /\ budgets \in BudgetTable /\ turn \in [Threads -> TurnRow] /\ charged \in [Ids -> Charges]
      /\ t \in Clock /\ u \in Nat /\ u > 0 /\ turn[w].seen \in BudgetTable /\ born' = born
  <2>1. budgets \in BudgetTable /\ turn \in [Threads -> TurnRow]
    BY Known
  <2>2. charged \in [Ids -> [0..MaxTime -> Nat]]
    BY Known
  <2>3. t \in 0..MaxTime /\ u \in Nat /\ turn[w].seen \in BudgetTable
    BY AtWork
  <2>4. u > 0 /\ born' = born
    BY DEF SeenInv, ReadBefore, ChargeWrites
  <2> QED BY <2>1, <2>2, <2>3, <2>4 DEF Charges, Clock
<1>1. CASE ~Commits(w, made)
  <2>1. budgets' = budgets /\ blurred' = blurred /\ charged' = charged
    BY <1>1 DEF ChargeWrites
  <2> QED BY <1>0, <2>1 DEF CountInv, ChargedInv, UnbornInv
<1>2. CASE Commits(w, made)
  <2>1. /\ budgets' = Written(w, made) /\ blurred' = blurred \cup Overtaken(w, made)
        /\ charged' = [i \in Ids |->
               IF i \in DOMAIN made THEN [charged[i] EXCEPT ![t] = @ + u] ELSE charged[i]]
    BY <1>2 DEF ChargeWrites
  <2>2. DOMAIN made = DOMAIN turn[w].seen
    BY <1>0, ChargedFields
  <2> HIDE DEF t, u
  <2>3. ASSUME NEW i \in DOMAIN budgets', i \notin blurred'
        PROVE  Says(budgets'[i], charged'[i])
    <3>1. i \in DOMAIN budgets /\ i \notin blurred
      BY <2>1, <2>3 DEF Written
    <3>2. Says(budgets[i], charged[i]) /\ i \in Ids
      BY <1>0, <3>1, OfTable DEF CountInv, ChargedInv
    <3>3. CASE i \notin DOMAIN made
      <4>1. budgets'[i] = budgets[i] /\ charged'[i] = charged[i]
        BY <1>0, <2>1, <3>1, <3>2, <3>3, WrittenFields DEF Dirty
      <4> QED BY <3>2, <4>1
    <3>4. CASE i \in DOMAIN made
      <4>1. PICK s \in BudgetRow : s = turn[w].seen[i]
        BY <1>0, <2>2, <3>4, OfTable
      <4>2. PICK b : b = Rolled(s, t)
        OBVIOUS
      <4>3. /\ made[i].used = b.used + u
            /\ made[i].started = IF b.started = Blank THEN t ELSE b.started
        BY <1>0, <2>2, <3>4, <4>1, <4>2, ChargedFields DEF t, u
      <4>4. s.started <= t
        BY <2>2, <3>4, <4>1 DEF SeenInv, ReadBefore, t
      <4>5. made[i] # s
        BY <1>0, <4>2, <4>3, <4>4, ChargesShow
      <4>6. i \in Dirty(w, made) /\ i \notin Overtaken(w, made)
        BY <2>1, <2>3, <3>4, <4>1, <4>5 DEF Dirty
      <4>7. /\ budgets[i] = s /\ Identity(budgets'[i]) = Identity(s)
            /\ budgets'[i].used = made[i].used /\ budgets'[i].started = made[i].started
        BY <1>0, <2>1, <3>1, <4>1, <4>6, WrittenFields
      <4>8. charged[i] \in Charges /\ charged'[i] = [charged[i] EXCEPT ![t] = @ + u]
        BY <1>0, <2>1, <3>2, <3>4
      <4>9. /\ Says(b, charged[i]) /\ OpenAt(b, t) /\ b \in BudgetRow
            /\ Identity(b) = Identity(s)
        <5>1. Says(s, charged[i])
          BY <3>2, <4>7
        <5>2. t \in Nat
          BY <1>0, WindowsAreFinite
        <5> QED BY <1>0, <4>1, <4>2, <4>4, <4>8, <5>1, <5>2, RolledSays, RolledType, RolledFields
      <4>10. PICK n : n = budgets'[i]
        OBVIOUS
      <4>11. /\ n.used = b.used + u /\ n.window = b.window
             /\ n.started = IF b.started = Blank THEN t ELSE b.started
        <5>1. n.window = s.window /\ b.window = s.window
          BY <4>7, <4>9, <4>10, SameIdentity
        <5> QED BY <4>3, <4>7, <4>10, <5>1
      <4>12. PICK d : d = [charged[i] EXCEPT ![t] = @ + u]
        OBVIOUS
      <4>13. d[t] = charged[i][t] + u /\ \A x \in Clock \ {t} : d[x] = charged[i][x]
        BY <1>0, <4>8, <4>12 DEF Charges
      <4>14. Says(n, d)
        <5> HIDE DEF made
        <5>1. PICK c \in Charges : c = charged[i]
          BY <4>8
        <5>2. Says(b, c) /\ d[t] = c[t] + u /\ \A x \in Clock \ {t} : d[x] = c[x]
          BY <4>9, <4>13, <5>1
        <5> QED BY <1>0, <4>9, <4>11, <5>2, ChargedSays
      <4> QED BY <4>8, <4>10, <4>12, <4>14
    <3> QED BY <3>3, <3>4
  <2>4. ChargedInv'
    BY <2>3 DEF ChargedInv
  <2>5. UnbornInv'
    <3> SUFFICES ASSUME NEW i \in Ids, i > born PROVE \A x \in Clock : charged'[i][x] = 0
      BY <1>0 DEF UnbornInv
    <3>1. i \notin DOMAIN turn[w].seen
      <4>1. i \in Nat /\ born \in Nat
        <5>1. born \in Nat
          BY Known
        <5> QED BY <5>1, BornInNat
      <4>2. i \in DOMAIN turn[w].seen => i <= born
        BY DEF SeenInv, ReadBefore
      <4> QED BY <4>1, <4>2
    <3>2. charged'[i] = charged[i]
      BY <2>1, <2>2, <3>1
    <3> QED BY <3>2 DEF CountInv, UnbornInv
  <2> QED BY <2>4, <2>5 DEF CountInv
<1> QED BY <1>1, <1>2

LEMMA CreateBudgetCounts ==
  ASSUME TypeInv, CountInv, NEW q \in Requests, CreateBudget(q)
  PROVE  CountInv'
<1>1. /\ budgets' = [i \in DOMAIN budgets \cup {born'} |->
                       IF i = born' THEN NewBudget(q) ELSE budgets[i]]
      /\ born' = born + 1 /\ born' \in Ids /\ charged' = charged /\ blurred' = blurred
  BY DEF CreateBudget
<1>2. born \in Nat
  BY Known
<1>3. \A x \in Clock : charged[born'][x] = 0
  BY <1>1, <1>2 DEF CountInv, UnbornInv
<1>4. Says(NewBudget(q), charged[born'])
  BY <1>3, NewBudgetSays
<1>5. ChargedInv'
  BY <1>1, <1>4 DEF CountInv, ChargedInv
<1>6. UnbornInv'
  <2> SUFFICES ASSUME NEW i \in Ids, i > born' PROVE \A x \in Clock : charged[i][x] = 0
    BY <1>1 DEF UnbornInv
  <2>1. i > born
    BY <1>1, <1>2, BornInNat
  <2> QED BY <2>1 DEF CountInv, UnbornInv
<1> QED BY <1>5, <1>6 DEF CountInv

LEMMA CountStep == TypeInv /\ SeenInv /\ CountInv /\ [BudgetsNext]_budgetVars => CountInv'
<1> SUFFICES ASSUME TypeInv, SeenInv, CountInv, [BudgetsNext]_budgetVars PROVE CountInv'
  OBVIOUS
<1>1. ASSUME budgets' = budgets, charged' = charged, born' = born, blurred' = blurred
      PROVE  CountInv'
  BY <1>1 DEF CountInv, ChargedInv, UnbornInv
<1>2. CASE UNCHANGED budgetVars
  BY <1>1, <1>2 DEF budgetVars
<1>3. ASSUME \/ \E w \in Threads :
                  \/ Checking(w)
                  \/ \E u \in 0..TurnUnits : TurnEnds(w, u)
                  \/ ChargeReads(w)
             \/ \E r \in Runs, t \in Teams \cup {""} : SetUserTeam(r, t)
             \/ Tick
             \/ Down
      PROVE  CountInv'
  <2>1. budgets' = budgets /\ charged' = charged /\ born' = born /\ blurred' = blurred
    BY <1>3, CheckingSteps DEF TurnEnds, ChargeReads, SetUserTeam, Tick, Down
  <2> QED BY <1>1, <2>1
<1>4. ASSUME NEW i \in DOMAIN budgets, DeleteBudget(i) PROVE CountInv'
  <2>1. /\ budgets' = [j \in DOMAIN budgets \ {i} |-> budgets[j]]
        /\ charged' = charged /\ born' = born /\ blurred' = blurred
    BY <1>4 DEF DeleteBudget
  <2> QED BY <2>1 DEF CountInv, ChargedInv, UnbornInv
<1> QED BY <1>2, <1>3, <1>4, CheckWritesCounts, ChargeWritesCounts, CreateBudgetCounts
        DEF BudgetsNext, Checking

-----------------------------------------------------------------------------
(* No counter says more than the recorded steps. *)

\* What a thread has recorded and not yet charged, of the runs in P.
Due(row, P) == IF row.pc \in {"metered", "charging"} /\ row.run \in P THEN row.units ELSE 0
DueBy(P) == [w \in Threads |-> Due(turn[w], P)]

\* The units of these runs that a counter may have been charged with.
Chargeable(P) == SumOf(spent, P) - SumOf(DueBy(P), Threads)

\* The runs whose turns a budget is charged for.
Payers(b) == {x \in Runs : b.scope = "repo" => b.scope_id = RepoOf[x]}

Covers(b) == b.used <= Chargeable(Payers(b))

RecordedInv ==
  /\ \A P \in SUBSET Runs : Chargeable(P) \in Nat
  /\ \A i \in DOMAIN budgets : Covers(budgets[i])
  /\ \A w \in Threads : \A i \in DOMAIN turn[w].seen : Covers(turn[w].seen[i])

LEMMA DueType ==
  ASSUME NEW row \in TurnRow, NEW P
  PROVE  Due(row, P) \in Nat /\ row.units \in Nat
<1>1. row.units \in 0..TurnUnits
  BY DEF TurnRow
<1>2. row.units \in Nat
  BY <1>1, Bounds
<1> QED BY <1>2 DEF Due

LEMMA SumsTyped ==
  ASSUME NEW P \in SUBSET Runs, NEW s \in [Runs -> Nat], NEW f \in [Threads -> TurnRow]
  PROVE  /\ IsFiniteSet(P) /\ SumOf(s, P) \in Int
         /\ SumOf([w \in Threads |-> Due(f[w], P)], Threads) \in Int
         /\ \A w \in Threads : [v \in Threads |-> Due(f[v], P)][w] \in Int
<1>1. IsFiniteSet(P) /\ IsFiniteSet(Threads)
  BY ThreadsAreFinite, FS_Subset
<1>2. \A r \in P : s[r] \in Int
  OBVIOUS
<1>3. SumOf(s, P) \in Int
  BY <1>1, <1>2, SumOfInt
<1>4. PICK d : d = [w \in Threads |-> Due(f[w], P)]
  OBVIOUS
<1>5. \A w \in Threads : d[w] \in Int
  BY <1>4, DueType
<1>6. SumOf(d, Threads) \in Int
  BY <1>1, <1>5, SumOfInt
<1> QED BY <1>1, <1>3, <1>4, <1>5, <1>6

\* Nothing is recorded, and no thread comes to owe more.
LEMMA OwesNoMore ==
  ASSUME TypeInv, TypeInv', NEW P \in SUBSET Runs, spent' = spent,
         \A w \in Threads : Due(turn'[w], P) <= Due(turn[w], P)
  PROVE  Chargeable(P) <= Chargeable(P)'
<1>0. /\ turn \in [Threads -> TurnRow] /\ turn' \in [Threads -> TurnRow]
      /\ spent \in [Runs -> Nat]
  BY DEF TypeInv, BudgetsTypeOK
<1>1. PICK d : d = [w \in Threads |-> Due(turn[w], P)]
  OBVIOUS
<1>2. PICK e : e = [w \in Threads |-> Due(turn'[w], P)]
  OBVIOUS
<1>3. \A w \in Threads : e[w] \in Int /\ d[w] \in Int /\ e[w] <= d[w]
  BY <1>0, <1>1, <1>2, DueType
<1>4. SumOf(e, Threads) <= SumOf(d, Threads)
  BY <1>3, ThreadsAreFinite, SumGrows
<1>5. SumOf(e, Threads) \in Int /\ SumOf(d, Threads) \in Int /\ SumOf(spent, P) \in Int
  BY <1>0, <1>1, <1>2, SumsTyped
<1>6. /\ Chargeable(P) = SumOf(spent, P) - SumOf(d, Threads)
      /\ Chargeable(P)' = SumOf(spent, P) - SumOf(e, Threads)
  BY <1>1, <1>2 DEF Chargeable, DueBy
<1> QED BY <1>4, <1>5, <1>6

\* A turn's units are owed from the moment they are recorded.
LEMMA OwesWhatIsRecorded ==
  ASSUME TypeInv, TypeInv', NEW P \in SUBSET Runs, NEW w \in Threads, NEW u \in Nat,
         turn[w].run \in Runs, spent' = [spent EXCEPT ![turn[w].run] = @ + u],
         turn[w].pc = "turn", turn'[w].pc = "metered", turn'[w].run = turn[w].run,
         turn'[w].units = u, \A v \in Threads \ {w} : turn'[v] = turn[v]
  PROVE  Chargeable(P)' = Chargeable(P)
<1>0. /\ turn \in [Threads -> TurnRow] /\ turn' \in [Threads -> TurnRow]
      /\ spent \in [Runs -> Nat] /\ spent' \in [Runs -> Nat]
  BY DEF TypeInv, BudgetsTypeOK
<1>1. PICK d : d = [v \in Threads |-> Due(turn[v], P)]
  OBVIOUS
<1>2. PICK e : e = [v \in Threads |-> Due(turn'[v], P)]
  OBVIOUS
<1>3. PICK s \in [Runs -> Nat], t \in [Runs -> Nat], r \in Runs : s = spent /\ t = spent' /\ r = turn[w].run
  BY <1>0
<1>4. t[r] = s[r] + u /\ \A q \in Runs \ {r} : t[q] = s[q]
  BY <1>3
<1>5. /\ \A v \in Threads : d[v] \in Int
      /\ \A v \in Threads \ {w} : e[v] = d[v]
      /\ d[w] = 0 /\ e[w] = IF r \in P THEN u ELSE 0
  BY <1>0, <1>1, <1>2, <1>3, DueType DEF Due
<1>6. /\ SumOf(e, Threads) \in Int /\ SumOf(d, Threads) \in Int /\ SumOf(s, P) \in Int
      /\ SumOf(t, P) \in Int /\ IsFiniteSet(P)
  BY <1>0, <1>1, <1>2, <1>3, SumsTyped
<1>7. /\ Chargeable(P) = SumOf(s, P) - SumOf(d, Threads)
      /\ Chargeable(P)' = SumOf(t, P) - SumOf(e, Threads)
  BY <1>1, <1>2, <1>3 DEF Chargeable, DueBy
<1>8. CASE r \in P
  <2>1. SumOf(t, P) = SumOf(s, P) + u
    <3>1. (\A q \in P : s[q] \in Int) /\ \A q \in P \ {r} : t[q] = s[q]
      BY <1>4
    <3> QED BY <1>4, <1>6, <1>8, <3>1, OneMoreCharge
  <2>2. SumOf(e, Threads) = SumOf(d, Threads) + u
    <3>1. e[w] = d[w] + u
      BY <1>5, <1>8
    <3> QED BY <1>5, <3>1, ThreadsAreFinite, OneMoreCharge
  <2> QED BY <1>6, <1>7, <2>1, <2>2
<1>9. CASE r \notin P
  <2>1. \A q \in P : t[q] = s[q]
    BY <1>4, <1>9
  <2>2. SumOf(t, P) = SumOf(s, P)
    BY <1>6, <2>1, SumSame
  <2>3. \A v \in Threads : e[v] = d[v]
    BY <1>5, <1>9
  <2>4. SumOf(e, Threads) = SumOf(d, Threads)
    BY <2>3, ThreadsAreFinite, SumSame
  <2> QED BY <1>7, <2>2, <2>4
<1> QED BY <1>8, <1>9

\* A charge: what was owed may be in the counters.
LEMMA OwesWhatIsLeft ==
  ASSUME TypeInv, TypeInv', NEW P \in SUBSET Runs, NEW w \in Threads, spent' = spent,
         turn[w].pc = "charging", turn[w].run \in P, turn'[w].pc = "idle",
         \A v \in Threads \ {w} : turn'[v] = turn[v]
  PROVE  Chargeable(P)' = Chargeable(P) + turn[w].units
<1>0. /\ turn \in [Threads -> TurnRow] /\ turn' \in [Threads -> TurnRow]
      /\ spent \in [Runs -> Nat]
  BY DEF TypeInv, BudgetsTypeOK
<1>1. PICK d : d = [v \in Threads |-> Due(turn[v], P)]
  OBVIOUS
<1>2. PICK e : e = [v \in Threads |-> Due(turn'[v], P)]
  OBVIOUS
<1>3. PICK u \in Nat : u = turn[w].units
  BY AtWork
<1>4. /\ \A v \in Threads : e[v] \in Int
      /\ \A v \in Threads \ {w} : d[v] = e[v]
      /\ d[w] = u /\ e[w] = 0
  BY <1>0, <1>1, <1>2, <1>3, DueType DEF Due
<1>5. d[w] = e[w] + u
  BY <1>4
<1>6. SumOf(d, Threads) = SumOf(e, Threads) + u
  BY <1>4, <1>5, ThreadsAreFinite, OneMoreCharge
<1>7. SumOf(e, Threads) \in Int /\ SumOf(d, Threads) \in Int /\ SumOf(spent, P) \in Int
  BY <1>0, <1>1, <1>2, SumsTyped
<1>8. /\ Chargeable(P) = SumOf(spent, P) - SumOf(d, Threads)
      /\ Chargeable(P)' = SumOf(spent, P) - SumOf(e, Threads)
  BY <1>1, <1>2 DEF Chargeable, DueBy
<1> QED BY <1>3, <1>6, <1>7, <1>8

LEMMA ChargeableInt ==
  ASSUME TypeInv, NEW P \in SUBSET Runs
  PROVE  Chargeable(P) \in Int
<1>1. turn \in [Threads -> TurnRow] /\ spent \in [Runs -> Nat]
  BY Known
<1>2. PICK d : d = [w \in Threads |-> Due(turn[w], P)]
  OBVIOUS
<1>3. SumOf(d, Threads) \in Int /\ SumOf(spent, P) \in Int
  BY <1>1, <1>2, SumsTyped
<1>4. Chargeable(P) = SumOf(spent, P) - SumOf(d, Threads)
  BY <1>2 DEF Chargeable, DueBy
<1> QED BY <1>3, <1>4

LEMMA NextChargeableInt ==
  ASSUME TypeInv', NEW P \in SUBSET Runs
  PROVE  Chargeable(P)' \in Int
<1>1. turn' \in [Threads -> TurnRow] /\ spent' \in [Runs -> Nat]
  BY DEF TypeInv, BudgetsTypeOK
<1>2. PICK d : d = [w \in Threads |-> Due(turn'[w], P)]
  OBVIOUS
<1>3. SumOf(d, Threads) \in Int /\ SumOf(spent', P) \in Int
  BY <1>1, <1>2, SumsTyped
<1>4. Chargeable(P)' = SumOf(spent', P) - SumOf(d, Threads)
  BY <1>2 DEF Chargeable, DueBy
<1> QED BY <1>3, <1>4

\* What can be in the counters never gets less.
LEMMA ChargeableGrows ==
  ASSUME TypeInv, TypeInv', BudgetsNext, NEW P \in SUBSET Runs
  PROVE  Chargeable(P) <= Chargeable(P)'
<1>0. turn \in [Threads -> TurnRow] /\ turn' \in [Threads -> TurnRow]
  BY DEF TypeInv
<1>a. \A v \in Threads : Due(turn[v], P) \in Nat /\ Due(turn'[v], P) \in Nat
  BY <1>0, DueType
<1>b. Due(Idle, P) = 0
  BY DEF Due, Idle
<1>1. ASSUME spent' = spent, NEW w \in Threads, NEW row, turn' = [turn EXCEPT ![w] = row],
             Due(row, P) <= Due(turn[w], P)
      PROVE  Chargeable(P) <= Chargeable(P)'
  <2>1. turn'[w] = row /\ \A v \in Threads \ {w} : turn'[v] = turn[v]
    BY <1>0, <1>1
  <2>2. \A v \in Threads : Due(turn'[v], P) <= Due(turn[v], P)
    BY <1>a, <1>1, <2>1
  <2> QED BY <1>1, <2>2, OwesNoMore
<1>2. ASSUME spent' = spent, turn' = turn PROVE Chargeable(P) <= Chargeable(P)'
  BY <1>2, <1>a, OwesNoMore
<1>3. ASSUME NEW w \in Threads, Checking(w)
      PROVE  Chargeable(P) <= Chargeable(P)'
  <2>1. PICK row : CheckingRow(w, row)
    BY <1>3, CheckingSteps
  <2>2. spent' = spent /\ turn' = [turn EXCEPT ![w] = row] /\ row.pc \notin {"metered", "charging"}
    BY <1>3, <2>1, CheckingSteps DEF CheckingRow
  <2>3. Due(row, P) = 0
    BY <2>2 DEF Due
  <2>4. Due(row, P) <= Due(turn[w], P)
    BY <1>a, <2>3
  <2> QED BY <1>1, <2>2, <2>4
<1>4. ASSUME NEW w \in Threads, CheckWrites(w) PROVE Chargeable(P) <= Chargeable(P)'
  <2> DEFINE on == [Idle EXCEPT !.pc = "turn", !.run = turn[w].run]
  <2>1. spent' = spent /\ (turn' = [turn EXCEPT ![w] = on] \/ turn' = [turn EXCEPT ![w] = Idle])
    BY <1>4 DEF CheckWrites
  <2>2. Due(on, P) = 0
    BY DEF Due, Idle
  <2> HIDE DEF on
  <2>3. Due(on, P) <= Due(turn[w], P) /\ Due(Idle, P) <= Due(turn[w], P)
    BY <1>a, <1>b, <2>2
  <2> QED BY <1>1, <2>1, <2>3
<1>5. ASSUME NEW w \in Threads, NEW u \in 0..TurnUnits, TurnEnds(w, u)
      PROVE  Chargeable(P) <= Chargeable(P)'
  <2>1. /\ turn[w].pc = "turn" /\ spent' = [spent EXCEPT ![turn[w].run] = @ + u]
        /\ turn' = [turn EXCEPT ![w].pc = "metered", ![w].units = u]
    BY <1>5 DEF TurnEnds
  <2>2. turn[w] \in TurnRow /\ turn[w].run \in Runs
    BY <2>1, AtWork
  <2>3. /\ \A v \in Threads \ {w} : turn'[v] = turn[v]
        /\ turn'[w].pc = "metered" /\ turn'[w].run = turn[w].run /\ turn'[w].units = u
    BY <1>0, <2>1, <2>2 DEF TurnRow
  <2>4. u \in Nat
    BY Bounds
  <2>5. Chargeable(P)' = Chargeable(P)
    BY <2>1, <2>2, <2>3, <2>4, OwesWhatIsRecorded
  <2> QED BY <2>5, ChargeableInt
<1>6. ASSUME NEW w \in Threads, ChargeReads(w) PROVE Chargeable(P) <= Chargeable(P)'
  <2> DEFINE row == [turn[w] EXCEPT !.pc = "charging", !.took = now, !.seen = Loaded(turn[w].run)]
  <2>1. /\ spent' = spent /\ turn[w].pc = "metered"
        /\ turn' = [turn EXCEPT ![w] = Idle] \/ turn' = [turn EXCEPT ![w] = row]
    BY <1>6 DEF ChargeReads
  <2>2. turn[w] \in TurnRow
    BY <1>0
  <2>3. Due(row, P) = Due(turn[w], P)
    BY <2>1, <2>2 DEF Due, TurnRow
  <2> HIDE DEF row
  <2>4. Due(row, P) <= Due(turn[w], P) /\ Due(Idle, P) <= Due(turn[w], P)
    BY <1>a, <1>b, <2>3
  <2> QED BY <1>1, <2>1, <2>4
<1>7. ASSUME NEW w \in Threads, ChargeWrites(w) PROVE Chargeable(P) <= Chargeable(P)'
  <2>1. spent' = spent /\ turn' = [turn EXCEPT ![w] = Idle]
    BY <1>7 DEF ChargeWrites
  <2>2. Due(Idle, P) <= Due(turn[w], P)
    BY <1>a, <1>b
  <2> QED BY <1>1, <2>1, <2>2
<1>8. ASSUME \/ \E q \in Requests : CreateBudget(q)
             \/ \E i \in DOMAIN budgets : DeleteBudget(i)
             \/ \E r \in Runs, t \in Teams \cup {""} : SetUserTeam(r, t)
             \/ Tick
      PROVE  Chargeable(P) <= Chargeable(P)'
  BY <1>2, <1>8 DEF CreateBudget, DeleteBudget, SetUserTeam, Tick
<1>9. ASSUME Down PROVE Chargeable(P) <= Chargeable(P)'
  <2>1. spent' = spent /\ turn' = [w \in Threads |-> Idle]
    BY <1>9 DEF Down
  <2>2. \A v \in Threads : Due(turn'[v], P) <= Due(turn[v], P)
    BY <1>a, <1>b, <2>1
  <2> QED BY <2>1, <2>2, OwesNoMore
<1> QED BY <1>3, <1>4, <1>5, <1>6, <1>7, <1>8, <1>9 DEF BudgetsNext, Checking

LEMMA CoversStays ==
  ASSUME TypeInv, TypeInv', BudgetsNext, NEW b \in BudgetRow, Covers(b),
         NEW n, n.used \in Nat, n.used <= b.used, Identity(n) = Identity(b)
  PROVE  n.used <= Chargeable(Payers(b))' /\ Payers(n) = Payers(b)
<1>1. Payers(b) \in SUBSET Runs /\ Payers(n) = Payers(b)
  BY SameIdentity DEF Payers
<1>2. PICK P \in SUBSET Runs : P = Payers(b)
  BY <1>1
<1>3. Chargeable(P) <= Chargeable(P)' /\ Chargeable(P) \in Int /\ Chargeable(P)' \in Int
  BY ChargeableGrows, ChargeableInt, NextChargeableInt
<1>4. b.used \in Nat /\ b.used <= Chargeable(P)
  BY <1>2, RowFields DEF Covers
<1>5. n.used <= Chargeable(P)'
  BY <1>3, <1>4
<1> QED BY <1>1, <1>2, <1>5

\* Where a session's rows come from.
LEMMA SeenNext ==
  ASSUME TypeInv, BudgetsNext, NEW v \in Threads
  PROVE  \/ turn'[v].seen = turn[v].seen
         \/ DOMAIN turn'[v].seen = {}
         \/ \E r \in Runs : turn'[v].seen = Loaded(r)
<1>0. turn \in [Threads -> TurnRow] /\ DOMAIN Idle.seen = {}
  <2>1. Idle.seen = <<>> /\ DOMAIN <<>> = {}
    BY DEF Idle
  <2> QED BY <2>1, Known
<1> DEFINE Fine == \/ turn'[v].seen = turn[v].seen
                   \/ DOMAIN turn'[v].seen = {}
                   \/ \E r \in Runs : turn'[v].seen = Loaded(r)
<1>1. ASSUME NEW w \in Threads, NEW row, turn' = [turn EXCEPT ![w] = row],
             \/ row.seen = turn[w].seen
             \/ DOMAIN row.seen = {}
             \/ \E r \in Runs : row.seen = Loaded(r)
      PROVE  Fine
  BY <1>0, <1>1
<1>2. ASSUME NEW w \in Threads, Checking(w) PROVE Fine
  <2>1. PICK row : CheckingRow(w, row)
    BY <1>2, CheckingSteps
  <2>2. /\ turn' = [turn EXCEPT ![w] = row]
        /\ \/ row.seen = Idle.seen
           \/ row.seen = turn[w].seen
           \/ row.seen = Loaded(row.run) /\ row.run \in Runs
    BY <2>1 DEF CheckingRow
  <2> HIDE DEF Fine
  <2> QED BY <1>0, <1>1, <2>2
<1>3. ASSUME NEW w \in Threads, CheckWrites(w) PROVE Fine
  <2> DEFINE on == [Idle EXCEPT !.pc = "turn", !.run = turn[w].run]
  <2>1. turn' = [turn EXCEPT ![w] = on] \/ turn' = [turn EXCEPT ![w] = Idle]
    BY <1>3 DEF CheckWrites
  <2>2. on.seen = Idle.seen
    BY DEF Idle
  <2> HIDE DEF on
  <2> QED BY <1>0, <1>1, <2>1, <2>2
<1>4. ASSUME NEW w \in Threads, NEW u \in 0..TurnUnits, TurnEnds(w, u) PROVE Fine
  <2>1. turn' = [turn EXCEPT ![w].pc = "metered", ![w].units = u] /\ turn[w] \in TurnRow
    BY <1>0, <1>4 DEF TurnEnds
  <2>2. turn'[v].seen = turn[v].seen
    BY <1>0, <2>1 DEF TurnRow
  <2> QED BY <2>2
<1>5. ASSUME NEW w \in Threads, ChargeReads(w) PROVE Fine
  <2> DEFINE row == [turn[w] EXCEPT !.pc = "charging", !.took = now, !.seen = Loaded(turn[w].run)]
  <2>1. turn[w].run \in Runs /\ turn[w] \in TurnRow
    BY <1>5, AtWork DEF ChargeReads
  <2>2. turn' = [turn EXCEPT ![w] = Idle] \/ turn' = [turn EXCEPT ![w] = row]
    BY <1>5 DEF ChargeReads
  <2>3. row.seen = Loaded(turn[w].run)
    BY <2>1 DEF TurnRow
  <2> HIDE DEF row
  <2> QED BY <1>0, <1>1, <2>1, <2>2, <2>3
<1>6. ASSUME NEW w \in Threads, ChargeWrites(w) PROVE Fine
  <2>1. turn' = [turn EXCEPT ![w] = Idle]
    BY <1>6 DEF ChargeWrites
  <2> QED BY <1>0, <1>1, <2>1
<1>7. ASSUME \/ \E q \in Requests : CreateBudget(q)
             \/ \E i \in DOMAIN budgets : DeleteBudget(i)
             \/ \E r \in Runs, t \in Teams \cup {""} : SetUserTeam(r, t)
             \/ Tick
             \/ Down
      PROVE  Fine
  <2>1. turn' = turn \/ turn' = [w \in Threads |-> Idle]
    BY <1>7 DEF CreateBudget, DeleteBudget, SetUserTeam, Tick, Down
  <2> QED BY <1>0, <2>1
<1> HIDE DEF Fine
<1>8. Fine
  BY <1>2, <1>3, <1>4, <1>5, <1>6, <1>7 DEF BudgetsNext, Checking
<1> QED BY <1>8 DEF Fine

\* What a charge takes a counter to was owed until then.
LEMMA ChargeIsCovered ==
  ASSUME TypeInv, TypeInv', SeenInv, NEW w \in Threads, ChargeWrites(w),
         NEW i \in DOMAIN turn[w].seen, NEW s \in BudgetRow, s = turn[w].seen[i], Covers(s)
  PROVE  AfterCharge(w)[i].used <= Chargeable(Payers(s))'
<1>0. turn \in [Threads -> TurnRow] /\ turn[w].units \in Nat
  BY Known, AtWork
<1>1. turn[w].pc = "charging" /\ spent' = spent /\ turn' = [turn EXCEPT ![w] = Idle]
  BY DEF ChargeWrites
<1>2. PICK P \in SUBSET Runs : P = Payers(s)
  BY DEF Payers
<1>3. turn[w].run \in P
  <2>1. turn[w].run \in Runs
    BY <1>1, AtWork
  <2>2. s.scope = "repo" => s.scope_id = RepoOf[turn[w].run]
    BY DEF SeenInv, ReadBefore
  <2> QED BY <1>2, <2>1, <2>2 DEF Payers
<1>4. turn'[w].pc = "idle" /\ \A v \in Threads \ {w} : turn'[v] = turn[v]
  BY <1>0, <1>1 DEF Idle
<1>5. Chargeable(P)' = Chargeable(P) + turn[w].units
  BY <1>1, <1>3, <1>4, OwesWhatIsLeft
<1>6. PICK b : b = Rolled(s, turn[w].took)
  OBVIOUS
<1>7. AfterCharge(w)[i].used = b.used + turn[w].units
  BY <1>0, <1>6, ChargedFields
<1>8. b.used = s.used \/ b.used = 0
  BY <1>6, RolledFields
<1>9. s.used \in Nat /\ s.used <= Chargeable(P) /\ Chargeable(P) \in Int
  BY <1>2, RowFields, ChargeableInt DEF Covers
<1>10. AfterCharge(w)[i].used <= Chargeable(P)'
  BY <1>0, <1>5, <1>7, <1>8, <1>9
<1> QED BY <1>2, <1>10

LEMMA CheckIsCovered ==
  ASSUME TypeInv, TypeInv', BudgetsNext, NEW w \in Threads,
         NEW i \in Examined(w), NEW s \in BudgetRow, s = turn[w].seen[i], Covers(s)
  PROVE  AfterCheck(w)[i].used <= Chargeable(Payers(s))'
<1>0. turn \in [Threads -> TurnRow] /\ turn[w].took \in Nat
  <2>1. turn[w].took \in 0..MaxTime
    BY AtWork
  <2>2. turn[w].took \in Nat
    BY <2>1, Bounds
  <2> QED BY <2>2, Known
<1>1. PICK b : b = Rolled(s, turn[w].took)
  OBVIOUS
<1>2. AfterCheck(w)[i] = b
  BY <1>0, <1>1, CheckedFields
<1>3. (b.used = s.used \/ b.used = 0) /\ Identity(b) = Identity(s)
  BY <1>1, RolledFields
<1>4. s.used \in Nat
  BY RowFields
<1>5. b.used \in Nat /\ b.used <= s.used
  BY <1>3, <1>4
<1> QED BY <1>2, <1>3, <1>5, CoversStays

LEMMA CountersStay ==
  ASSUME TypeInv, TypeInv', SeenInv, RecordedInv, BudgetsNext, NEW i \in DOMAIN budgets'
  PROVE  Covers(budgets[i])'
<1>0. /\ budgets \in BudgetTable /\ budgets' \in BudgetTable /\ turn \in [Threads -> TurnRow]
      /\ budgets'[i] \in BudgetRow
  <2>1. budgets \in BudgetTable /\ budgets' \in BudgetTable /\ turn \in [Threads -> TurnRow]
    BY DEF TypeInv
  <2> QED BY <2>1, OfTable
\* A row that is there, and of which no more than its payers recorded is said.
<1>1. ASSUME NEW b \in BudgetRow, Identity(budgets'[i]) = Identity(b),
             budgets'[i].used <= Chargeable(Payers(b))'
      PROVE  Covers(budgets[i])'
  <2>1. Payers(budgets'[i]) = Payers(b)
    BY <1>1, SameIdentity DEF Payers
  <2> QED BY <1>1, <2>1 DEF Covers
<1>2. ASSUME i \in DOMAIN budgets, Identity(budgets'[i]) = Identity(budgets[i]),
             budgets'[i].used = budgets[i].used
      PROVE  Covers(budgets[i])'
  <2>1. PICK b \in BudgetRow : b = budgets[i] /\ Covers(b)
    BY <1>0, <1>2, OfTable DEF RecordedInv
  <2>2. PICK n \in BudgetRow : n = budgets'[i]
    BY <1>0
  <2>3. n.used \in Nat /\ n.used = b.used
    BY <1>2, <2>1, <2>2, RowFields
  <2>4. n.used <= Chargeable(Payers(b))'
    BY <1>2, <2>1, <2>2, <2>3, CoversStays
  <2> QED BY <1>1, <1>2, <2>1, <2>2, <2>4
<1>3. ASSUME budgets' = budgets PROVE Covers(budgets[i])'
  BY <1>2, <1>3
<1>4. ASSUME NEW w \in Threads, CheckWrites(w) \/ ChargeWrites(w) PROVE Covers(budgets[i])'
  <2>1. PICK made : /\ \/ CheckWrites(w) /\ made = AfterCheck(w)
                       \/ ChargeWrites(w) /\ made = AfterCharge(w)
                    /\ budgets' = budgets \/ budgets' = Written(w, made)
    BY <1>4 DEF CheckWrites, ChargeWrites
  <2>2. CASE budgets' = budgets
    BY <1>3, <2>2
  <2>3. CASE budgets' = Written(w, made)
    <3>1. i \in DOMAIN budgets
      BY <2>3 DEF Written
    <3>2. /\ Identity(budgets'[i]) = Identity(budgets[i])
          /\ \/ budgets'[i].used = budgets[i].used
             \/ i \in DOMAIN made /\ budgets'[i].used = made[i].used
      BY <1>0, <2>3, <3>1, WrittenFields DEF Dirty
    <3>3. CASE budgets'[i].used = budgets[i].used
      BY <1>2, <3>1, <3>2, <3>3
    <3>4. CASE i \in DOMAIN made /\ budgets'[i].used = made[i].used
      <4>1. i \in DOMAIN turn[w].seen /\ turn[w].seen[i] \in BudgetRow
        BY <1>0, <2>1, <3>4, CheckedFields, ChargedFields
      <4>2. PICK s \in BudgetRow : s = turn[w].seen[i]
        BY <4>1
      <4>3. Covers(s)
        BY <4>1, <4>2 DEF RecordedInv
      <4>4. Identity(s) = Identity(budgets[i])
        BY <3>1, <4>1, <4>2 DEF SeenInv, ReadBefore
      <4>5. made[i].used <= Chargeable(Payers(s))'
        <5>1. CASE CheckWrites(w) /\ made = AfterCheck(w)
          <6>1. i \in Examined(w)
            BY <1>0, <3>4, <5>1, CheckedFields
          <6> QED BY <4>2, <4>3, <5>1, <6>1, CheckIsCovered
        <5>2. CASE ChargeWrites(w) /\ made = AfterCharge(w)
          BY <4>1, <4>2, <4>3, <5>2, ChargeIsCovered
        <5> QED BY <2>1, <5>1, <5>2
      <4> QED BY <1>1, <3>2, <3>4, <4>4, <4>5
    <3> QED BY <3>2, <3>3, <3>4
  <2> QED BY <2>1, <2>2, <2>3
<1>5. ASSUME NEW q \in Requests, CreateBudget(q) PROVE Covers(budgets[i])'
  <2>1. budgets' = [j \in DOMAIN budgets \cup {born'} |->
                       IF j = born' THEN NewBudget(q) ELSE budgets[j]]
    BY <1>5 DEF CreateBudget
  <2>2. CASE i = born'
    <3>1. budgets'[i].used = 0
      BY <2>1, <2>2 DEF NewBudget
    <3>2. PICK P \in SUBSET Runs : P = Payers(budgets'[i])
      BY DEF Payers
    <3>3. Chargeable(P) \in Nat /\ Chargeable(P) <= Chargeable(P)' /\ Chargeable(P)' \in Int
      BY ChargeableGrows, NextChargeableInt DEF RecordedInv
    <3>4. 0 <= Chargeable(P)'
      BY <3>3
    <3> QED BY <3>1, <3>2, <3>4 DEF Covers
  <2>3. CASE i # born'
    BY <1>2, <2>1, <2>3
  <2> QED BY <2>2, <2>3
<1>6. ASSUME NEW j \in DOMAIN budgets, DeleteBudget(j) PROVE Covers(budgets[i])'
  <2>1. i \in DOMAIN budgets /\ budgets'[i] = budgets[i]
    BY <1>6 DEF DeleteBudget
  <2> QED BY <1>2, <2>1
<1>7. ASSUME \/ \E w \in Threads :
                  \/ Checking(w)
                  \/ \E u \in 0..TurnUnits : TurnEnds(w, u)
                  \/ ChargeReads(w)
             \/ \E r \in Runs, t \in Teams \cup {""} : SetUserTeam(r, t)
             \/ Tick
             \/ Down
      PROVE  Covers(budgets[i])'
  <2>1. budgets' = budgets
    BY <1>7, CheckingSteps DEF TurnEnds, ChargeReads, SetUserTeam, Tick, Down
  <2> QED BY <1>3, <2>1
<1> QED BY <1>4, <1>5, <1>6, <1>7 DEF BudgetsNext, Checking

LEMMA ReadingsStay ==
  ASSUME TypeInv, TypeInv', RecordedInv, BudgetsNext, NEW w \in Threads,
         NEW i \in DOMAIN turn'[w].seen
  PROVE  Covers(turn[w].seen[i])'
<1>1. PICK b \in BudgetRow : b = turn'[w].seen[i] /\ Covers(b)
  <2>1. CASE turn'[w].seen = turn[w].seen
    <3>1. turn[w].seen \in BudgetTable
      BY AtWork
    <3> QED BY <2>1, <3>1, OfTable DEF RecordedInv
  <2>2. CASE \E r \in Runs : turn'[w].seen = Loaded(r)
    <3>1. budgets \in BudgetTable
      BY Known
    <3> QED BY <2>2, <3>1, ReadsWhatIsThere, OfTable DEF RecordedInv
  <2> QED BY <2>1, <2>2, SeenNext
<1>2. b.used \in Nat
  BY RowFields
<1>3. b.used <= b.used
  BY <1>2
<1>4. b.used <= Chargeable(Payers(b))'
  BY <1>1, <1>2, <1>3, CoversStays
<1> QED BY <1>1, <1>4 DEF Covers

LEMMA RecordedStep == TypeInv /\ SeenInv /\ RecordedInv /\ [BudgetsNext]_budgetVars => RecordedInv'
<1> SUFFICES ASSUME TypeInv, SeenInv, RecordedInv, [BudgetsNext]_budgetVars PROVE RecordedInv'
  OBVIOUS
<1>1. CASE BudgetsNext
  <2>1. TypeInv'
    BY StepTypes
  <2>2. ASSUME NEW P \in SUBSET Runs PROVE Chargeable(P)' \in Nat
    <3>1. Chargeable(P) \in Nat /\ Chargeable(P) <= Chargeable(P)' /\ Chargeable(P)' \in Int
      BY <1>1, <2>1, ChargeableGrows, NextChargeableInt DEF RecordedInv
    <3> QED BY <3>1
  <2> QED BY <1>1, <2>1, <2>2, CountersStay, ReadingsStay DEF RecordedInv
<1>2. CASE UNCHANGED budgetVars
  <2>1. budgets' = budgets /\ turn' = turn /\ spent' = spent
    BY <1>2 DEF budgetVars
  <2> QED BY <2>1 DEF RecordedInv, Covers, Chargeable, DueBy
<1> QED BY <1>1, <1>2

LEMMA RecordedAtFirst == BudgetsInit => RecordedInv
<1> SUFFICES ASSUME BudgetsInit PROVE RecordedInv
  OBVIOUS
<1>1. /\ DOMAIN budgets = {} /\ spent = [r \in Runs |-> 0]
      /\ \A w \in Threads : turn[w] = Idle /\ DOMAIN Idle.seen = {}
  BY DEF BudgetsInit, Idle
<1>2. ASSUME NEW P \in SUBSET Runs PROVE Chargeable(P) \in Nat
  <2>1. \A w \in Threads : DueBy(P)[w] = 0
    BY <1>1 DEF DueBy, Due, Idle
  <2>2. SumOf(DueBy(P), Threads) = 0
    BY <2>1, ThreadsAreFinite, SumZero
  <2>3. IsFiniteSet(P) /\ \A r \in P : spent[r] = 0
    BY <1>1, ThreadsAreFinite, FS_Subset
  <2>4. SumOf(spent, P) = 0
    BY <2>3, SumZero
  <2> QED BY <2>2, <2>4 DEF Chargeable
<1> QED BY <1>1, <1>2 DEF RecordedInv

-----------------------------------------------------------------------------
(* Both together. *)

LEMMA TotalIsSum ==
  ASSUME NEW S, IsFiniteSet(S), NEW u, DOMAIN u = S, \A x \in S : u[x] \in Int,
         NEW v, \A x \in S : v[x] = u[x]
  PROVE  Total(u) = SumOf(v, S)
<1>1. Total(u) = (CHOOSE g : IsSum(g, u, DOMAIN u))[DOMAIN u]
  BY DEF Total, FoldFunction, FoldFunctionOnSet, MapThenFoldSet, IsSum, First
<1>2. Total(u) = SumOf(u, S)
  BY <1>1 DEF SumOf
<1> QED BY <1>2, SumSame

LEMMA CountsAreRight == TypeInv /\ CountInv /\ RecordedInv => UsedIsWhatWasCharged
<1> SUFFICES ASSUME TypeInv, CountInv, RecordedInv, NEW i \in DOMAIN budgets, NEW b, b = budgets[i]
             PROVE  /\ i \notin blurred =>
                         b.used = Total([t \in {u \in 0..MaxTime : b.window > 0 => u >= b.started}
                                           |-> charged[i][t]])
                    /\ b.used <=
                         Total([r \in {x \in Runs : b.scope = "repo" => b.scope_id = RepoOf[x]}
                                  |-> spent[r]])
  BY DEF UsedIsWhatWasCharged
<1>0. i \in Ids /\ b \in BudgetRow
  BY Known, OfTable
<1>1. PICK W : W = InWindow(b)
  OBVIOUS
<1>2. IsFiniteSet(W) /\ W = {u \in 0..MaxTime : b.window > 0 => u >= b.started}
  BY <1>1, WindowsAreFinite DEF InWindow, Clock
<1>3. PICK c \in [0..MaxTime -> Nat] : c = charged[i]
  BY <1>0, Known
<1>4. \A t \in W : c[t] \in Int
  <2>1. W \subseteq Clock /\ c \in [Clock -> Nat]
    BY <1>1, <1>3, WindowsAreFinite DEF Clock
  <2>2. \A f \in [Clock -> Nat] : \A t \in Clock : f[t] \in Int
    OBVIOUS
  <2> QED BY <2>1, <2>2, Zenon
<1>5. PICK f : f = [t \in W |-> c[t]]
  OBVIOUS
<1>6. Total(f) = SumOf(c, W)
  BY <1>2, <1>4, <1>5, TotalIsSum
<1>7. i \notin blurred => b.used = SumOf(c, W)
  BY <1>1, <1>3 DEF CountInv, ChargedInv, Says
<1>8. PICK P \in SUBSET Runs : P = Payers(b)
  BY DEF Payers
<1>9. P = {x \in Runs : b.scope = "repo" => b.scope_id = RepoOf[x]}
  BY <1>8 DEF Payers
<1>10. PICK s \in [Runs -> Nat] : s = spent
  BY Known
<1>11. IsFiniteSet(P) /\ \A r \in P : s[r] \in Int
  BY ThreadsAreFinite, FS_Subset
<1>12. PICK g : g = [r \in P |-> s[r]]
  OBVIOUS
<1>13. Total(g) = SumOf(s, P)
  BY <1>11, <1>12, TotalIsSum
<1>14. b.used <= Chargeable(P) /\ b.used \in Nat
  BY <1>0, <1>8, RowFields DEF RecordedInv, Covers
<1>15. SumOf(DueBy(P), Threads) \in Int /\ 0 <= SumOf(DueBy(P), Threads)
  <2>1. turn \in [Threads -> TurnRow]
    BY Known
  <2>2. PICK d : d = DueBy(P)
    OBVIOUS
  <2>3. \A w \in Threads : d[w] \in Nat
    BY <2>1, <2>2, DueType DEF DueBy
  <2>4. PICK z : z = [w \in Threads |-> 0]
    OBVIOUS
  <2>5. SumOf(z, Threads) = 0
    BY <2>4, ThreadsAreFinite, SumZero
  <2>6. \A w \in Threads : z[w] \in Int /\ d[w] \in Int /\ z[w] <= d[w]
    BY <2>3, <2>4
  <2>7. SumOf(z, Threads) <= SumOf(d, Threads)
    BY <2>6, ThreadsAreFinite, SumGrows
  <2>8. SumOf(d, Threads) \in Int
    BY <2>6, ThreadsAreFinite, SumOfInt
  <2> QED BY <2>2, <2>5, <2>7, <2>8
<1>16. SumOf(s, P) \in Int
  BY <1>11, SumOfInt
<1>17. b.used <= SumOf(s, P)
  BY <1>10, <1>14, <1>15, <1>16 DEF Chargeable
<1>18. i \notin blurred =>
         b.used = Total([t \in {u \in 0..MaxTime : b.window > 0 => u >= b.started} |-> charged[i][t]])
  BY <1>2, <1>3, <1>5, <1>6, <1>7
<1>19. b.used <= Total([r \in {x \in Runs : b.scope = "repo" => b.scope_id = RepoOf[x]} |-> spent[r]])
  BY <1>9, <1>10, <1>12, <1>13, <1>17
<1> QED BY <1>18, <1>19

(***************************************************************************)
(* A budget's counter is to the unit what was charged to it in its present *)
(* window, unless two sessions wrote it over one another, and is in no     *)
(* case more than the recorded steps: rolls by a check or by a charge,     *)
(* deleted neighbours, changes of team and crashes notwithstanding.        *)
(***************************************************************************)
THEOREM CountersTell == BudgetsSpec => []UsedIsWhatWasCharged
<1>1. BudgetsInit => TypeInv /\ SeenInv /\ RecordedInv
  BY InitTypes, SeenAtFirst, RecordedAtFirst
<1>2. BudgetsInit => CountInv
  BY DEF BudgetsInit, CountInv, ChargedInv, UnbornInv, Clock
<1>3. TypeInv /\ [BudgetsNext]_budgetVars => TypeInv'
  BY StepTypes
<1>4. TypeInv /\ SeenInv /\ [BudgetsNext]_budgetVars => SeenInv'
  BY SeenStep
<1>5. TypeInv /\ SeenInv /\ CountInv /\ [BudgetsNext]_budgetVars => CountInv'
  BY CountStep
<1>6. TypeInv /\ SeenInv /\ RecordedInv /\ [BudgetsNext]_budgetVars => RecordedInv'
  BY RecordedStep
<1>7. TypeInv /\ CountInv /\ RecordedInv => UsedIsWhatWasCharged
  BY CountsAreRight
<1> QED BY <1>1, <1>2, <1>3, <1>4, <1>5, <1>6, <1>7, PTL DEF BudgetsSpec

-----------------------------------------------------------------------------
(* The audit trail: what is kept from one step to the next. *)

WriterRow ==
  [pc : {"idle", "stamped", "linked", "committed", "chosen", "cutting"}, id : 0..MaxEvents,
   at : 0..MaxDays, link : Hash, chosen : SUBSET EventRow, cutoff : 0..MaxDays,
   left : SUBSET EventRow]

Appending(s) == writer[s].pc \in {"stamped", "linked"}
Purging(s) == writer[s].pc \in {"chosen", "cutting"}
Holding(s) == writer[s].pc \in {"linked", "cutting"}

\* An id is given out once, and a row number taken once.
IdsInv ==
  /\ IsFiniteSet(events)
  /\ \A e \in events : e.id \in written /\ e.row <= Cardinality(written)
  /\ \A e, f \in events : e.id = f.id \/ e.row = f.row => e = f
  /\ \A s \in Sessions : Appending(s) => writer[s].id \in 1..ids /\ writer[s].id \notin written
  /\ \A s, t \in Sessions : Appending(s) /\ Appending(t) /\ s # t => writer[s].id # writer[t].id
  /\ \A s \in Sessions : writer[s].pc = "committed" => writer[s].id \in written
  /\ \A s \in Sessions : \A e, f \in writer[s].chosen : e.id = f.id => e = f

\* Each purge under way has its place among the receipts.
PurgesInv ==
  /\ IsFiniteSet(checkpoints) /\ \A c \in checkpoints : c.n <= Cardinality(checkpoints)
  /\ IsFiniteSet({s \in Sessions : Purging(s)})
  /\ Cardinality(checkpoints) + Cardinality({s \in Sessions : Purging(s)}) <= purges

\* One session of a process has the lock, and what it read under it is overtaken by
\* other processes alone.
LockInv ==
  /\ \A s \in Sessions : Holding(s) => ProcessOf[s] \in locked
  /\ \A s, t \in Sessions : Holding(s) /\ Holding(t) /\ ProcessOf[s] = ProcessOf[t] => s = t
  /\ \A s \in Sessions :
       writer[s].pc = "linked" => writer[s].link = head \/ changedBy # ProcessOf[s]
  /\ \A s \in Sessions : writer[s].pc = "cutting" =>
       \/ writer[s].left = {e \in events : e.at >= writer[s].cutoff}
       \/ changedBy # ProcessOf[s]
  /\ \A s \in Sessions : Purging(s) => \A e \in writer[s].chosen : e.at < writer[s].cutoff

Oldest(e) == \A f \in events : e.row <= f.row

\* The chain as it is when nothing has gone wrong.
Chain ==
  /\ events = {} => head = NoHash
  /\ \A e \in events : EntryHash(e.prev, e.id, e.algo) = e.hash
  /\ \A e \in events : e.algo = Legacy => e.prev = NoHash
  /\ \A e, f \in events : e.row < f.row => e.at <= f.at
  /\ \A e, f \in events : e.prev = f.prev => e = f
  /\ events # {} => \E h \in events : h.hash = head /\ \A e \in events : e.row <= h.row
  /\ \A e, f \in events : f.prev = e.hash =>
       e.row < f.row /\ \A g \in events : g.row <= e.row \/ f.row <= g.row
  /\ \A e \in events : e.hash = head \/ \E f \in events : f.prev = e.hash
  /\ \A e \in events : Oldest(e) \/ \E f \in events : e.prev = f.hash
  /\ \A e \in events : Oldest(e) => e.prev = NoHash \/ GapIsExplained(e)
  /\ \A e \in events : e.prev = NoHash \/ e.prev.of \in written

Forked == \E e, f \in events : e # f /\ e.prev = f.prev

ForkInv ==
  checkpoints = {} =>
    /\ "fork" \in mishaps => Forked
    /\ \A s \in Sessions : writer[s].pc = "linked" =>
         \/ writer[s].link = head \/ "fork" \in mishaps
         \/ \E e \in events : e.prev = writer[s].link

ChainInv == (mishaps = {} => Chain) /\ ForkInv

AuditShape ==
  /\ events \in SUBSET EventRow /\ head \in Hash /\ checkpoints \in SUBSET Checkpoint
  /\ today \in 0..MaxDays /\ ids \in 0..MaxEvents
  /\ announced \in SUBSET written /\ written \in SUBSET (1..ids)
  /\ locked \in SUBSET Processes
  /\ writer \in [Sessions -> WriterRow]
  /\ \A s \in Sessions : writer[s].id \in 0..ids /\ writer[s].at \in 0..today
  /\ mishaps \in SUBSET {"fork", "order", "missed", "unkeyed"} /\ changedBy \in Processes
  /\ purges \in 0..MaxPurges /\ stops \in 0..MaxStops

AuditInv == AuditShape /\ IdsInv /\ PurgesInv

LEMMA AuditBounds ==
  /\ MaxEvents \in Nat /\ MaxEvents # 0 /\ MaxDays \in Nat /\ MaxPurges \in Nat /\ MaxStops \in Nat
  /\ ProcessOf \in [Sessions -> Processes] /\ Processes # {}
<1>1. MaxEvents \in Nat \ {0} /\ MaxDays \in Nat /\ MaxPurges \in Nat /\ MaxStops \in Nat
  BY Zenon, AuditAssumption
<1>2. ProcessOf \in [Sessions -> Processes] /\ Processes # {}
  BY Zenon, AuditAssumption
<1> QED BY <1>1, <1>2

LEMMA HashIs ==
  /\ NoHash \in Hash
  /\ \A h \in Hash, i \in 0..MaxEvents, a \in {Keyed, Legacy} : EntryHash(h, i, a) \in Hash
<1>1. MaxEvents \in Nat
  BY AuditBounds
<1>2. NoHash \in Hash
  BY <1>1 DEF NoHash, Hash
<1>3. \A h \in Hash, i \in 0..MaxEvents, a \in {Keyed, Legacy} : EntryHash(h, i, a) \in Hash
  <2> SUFFICES ASSUME NEW h \in Hash, NEW i \in 0..MaxEvents, NEW a \in {Keyed, Legacy}
      PROVE  EntryHash(h, i, a) \in Hash
    OBVIOUS
  <2>1. h.of \in 0..MaxEvents
    BY DEF Hash
  <2> QED BY <2>1 DEF EntryHash, Hash
<1> QED BY <1>2, <1>3

LEMMA HashOf ==
  /\ NoHash.of = 0
  /\ \A h, i, a : EntryHash(h, i, a).of = i /\ EntryHash(h, i, a).algo = a
BY DEF NoHash, EntryHash

LEMMA QuietIs ==
  /\ Quiet \in WriterRow /\ Quiet.pc = "idle" /\ Quiet.id = 0 /\ Quiet.at = 0
  /\ Quiet.chosen = {} /\ Quiet.cutoff = 0
BY AuditBounds, HashIs DEF Quiet, WriterRow

LEMMA RowHas ==
  ASSUME NEW w \in WriterRow
  PROVE  /\ w.pc \in {"idle", "stamped", "linked", "committed", "chosen", "cutting"}
         /\ w.id \in 0..MaxEvents /\ w.at \in 0..MaxDays /\ w.link \in Hash
         /\ w.chosen \in SUBSET EventRow /\ w.cutoff \in 0..MaxDays /\ w.left \in SUBSET EventRow
BY DEF WriterRow

LEMMA EventHas ==
  ASSUME NEW e \in EventRow
  PROVE  /\ e.id \in 1..MaxEvents /\ e.at \in 0..MaxDays /\ e.prev \in Hash /\ e.hash \in Hash
         /\ e.algo \in {Keyed, Legacy} /\ e.row \in 1..MaxEvents
BY DEF EventRow

\* What the numbers say of the sets they are the sizes of.
LEMMA WrittenFinite ==
  ASSUME AuditShape
  PROVE  IsFiniteSet(written) /\ Cardinality(written) \in Nat /\ Cardinality(written) <= ids
<1>1. ids \in Nat /\ written \in SUBSET (1..ids)
  BY AuditBounds DEF AuditShape
<1>2. IsFiniteSet(1..ids) /\ Cardinality(1..ids) = ids
  BY <1>1, FS_Interval
<1> QED BY <1>1, <1>2, FS_Subset, FS_CardinalityType

LEMMA RoomForOne ==
  ASSUME AuditShape, NEW i \in 1..ids, i \notin written
  PROVE  Cardinality(written) + 1 <= ids
<1>1. ids \in Nat /\ written \cup {i} \in SUBSET (1..ids)
  BY AuditBounds DEF AuditShape
<1>2. IsFiniteSet(1..ids) /\ Cardinality(1..ids) = ids
  BY <1>1, FS_Interval
<1>3. Cardinality(written \cup {i}) <= ids
  BY <1>1, <1>2, FS_Subset
<1> QED BY <1>3, WrittenFinite, FS_AddElement

\* The earliest row is one of the rows, and none is earlier.
LEMMA EarliestIs ==
  ASSUME NEW rows \in SUBSET EventRow, rows # {}
  PROVE  /\ Earliest(rows) \in rows
         /\ \A f \in rows : \/ Earliest(rows).at < f.at
                            \/ Earliest(rows).at = f.at /\ Earliest(rows).row <= f.row
<1> DEFINE days == {e.at : e \in rows}
<1>1. days \in SUBSET Nat /\ days # {}
  BY EventHas
<1>2. PICK d \in days : \A m \in days : d <= m
  BY <1>1, SmallestNat
<1> DEFINE nos == {e.row : e \in {x \in rows : x.at = d}}
<1>3. nos \in SUBSET Nat /\ nos # {}
  BY <1>2, EventHas
<1>4. PICK n \in nos : \A m \in nos : n <= m
  BY <1>3, SmallestNat
<1>5. PICK e \in rows : e.at = d /\ e.row = n
  BY <1>4
<1>6. \A f \in rows : e.at < f.at \/ (e.at = f.at /\ e.row <= f.row)
  <2> SUFFICES ASSUME NEW f \in rows PROVE e.at < f.at \/ (e.at = f.at /\ e.row <= f.row)
    OBVIOUS
  <2>1. d \in Nat /\ f.at \in Nat /\ d <= f.at
    BY <1>1, <1>2, EventHas
  <2>2. f.at = d => n <= f.row
    BY <1>4
  <2> QED BY <2>1, <2>2, <1>5
<1> QED BY <1>5, <1>6, Zenon DEF Earliest

-----------------------------------------------------------------------------
(* What the actions make of a session's row. *)

LEMMA Zeros ==
  0 \in 0..MaxEvents /\ 0 \in 0..MaxDays /\ NoHash \in Hash
BY AuditBounds, HashIs

LEMMA StampRow ==
  ASSUME AuditShape, NEW s \in Sessions, Stamp(s)
  PROVE  /\ writer' \in [Sessions -> WriterRow] /\ \A t \in Sessions \ {s} : writer'[t] = writer[t]
         /\ writer'[s].pc = "stamped" /\ writer'[s].id = ids + 1 /\ writer'[s].at = today
         /\ writer'[s].chosen = {}
         /\ ids + 1 \in 1..MaxEvents
<1>1. ids + 1 \in 1..MaxEvents /\ ids + 1 \in 0..MaxEvents /\ today \in 0..MaxDays
  BY AuditBounds DEF AuditShape, Stamp
<1> DEFINE r == [Quiet EXCEPT !.pc = "stamped", !.id = ids + 1, !.at = today]
<1>2. r \in WriterRow /\ r.pc = "stamped" /\ r.id = ids + 1 /\ r.at = today /\ r.chosen = {}
  BY <1>1, Zeros DEF WriterRow, Quiet
<1>3. writer' = [writer EXCEPT ![s] = r]
  BY DEF Stamp
<1> HIDE DEF r
<1> QED BY <1>1, <1>2, <1>3 DEF AuditShape

LEMMA LinkRow ==
  ASSUME AuditShape, NEW s \in Sessions, Link(s)
  PROVE  /\ writer' \in [Sessions -> WriterRow] /\ \A t \in Sessions \ {s} : writer'[t] = writer[t]
         /\ writer[s].pc = "stamped" /\ writer'[s].pc = "linked" /\ writer'[s].link = head
         /\ writer'[s].id = writer[s].id /\ writer'[s].at = writer[s].at
         /\ writer'[s].chosen = writer[s].chosen
<1> DEFINE r == [writer[s] EXCEPT !.pc = "linked", !.link = head]
<1>1. writer[s] \in WriterRow /\ head \in Hash
  BY DEF AuditShape
<1>2. /\ r \in WriterRow /\ r.pc = "linked" /\ r.link = head /\ r.id = writer[s].id
      /\ r.at = writer[s].at /\ r.chosen = writer[s].chosen
  BY <1>1 DEF WriterRow
<1>3. writer' = [writer EXCEPT ![s] = r]
  BY DEF Link, AuditShape
<1> HIDE DEF r
<1> QED BY <1>2, <1>3 DEF AuditShape, Link

LEMMA CommitRow ==
  ASSUME AuditShape, NEW s \in Sessions, Commit(s)
  PROVE  /\ writer' \in [Sessions -> WriterRow] /\ \A t \in Sessions \ {s} : writer'[t] = writer[t]
         /\ writer[s].pc = "linked" /\ writer'[s].pc = "committed"
         /\ writer'[s].id = writer[s].id /\ writer'[s].at = writer[s].at
         /\ writer'[s].chosen = writer[s].chosen
<1> DEFINE r == [writer[s] EXCEPT !.pc = "committed"]
<1>1. writer[s] \in WriterRow
  BY DEF AuditShape
<1>2. /\ r \in WriterRow /\ r.pc = "committed" /\ r.id = writer[s].id
      /\ r.at = writer[s].at /\ r.chosen = writer[s].chosen
  BY <1>1 DEF WriterRow
<1>3. writer' = [writer EXCEPT ![s] = r]
  BY DEF Commit, AuditShape
<1> HIDE DEF r
<1> QED BY <1>2, <1>3 DEF AuditShape, Commit

LEMMA QuietRow ==
  ASSUME AuditShape, NEW s \in Sessions, writer' = [writer EXCEPT ![s] = Quiet]
  PROVE  /\ writer' \in [Sessions -> WriterRow] /\ \A t \in Sessions \ {s} : writer'[t] = writer[t]
         /\ writer'[s].pc = "idle" /\ writer'[s].id = 0 /\ writer'[s].at = 0
         /\ writer'[s].chosen = {}
BY QuietIs DEF AuditShape

LEMMA ChooseRow ==
  ASSUME AuditShape, NEW s \in Sessions, NEW cutoff \in 1..MaxDays, Choose(s, cutoff)
  PROVE  /\ writer' \in [Sessions -> WriterRow] /\ \A t \in Sessions \ {s} : writer'[t] = writer[t]
         /\ writer[s].pc = "idle" /\ writer'[s].pc = "chosen"
         /\ writer'[s].id = 0 /\ writer'[s].at = 0 /\ writer'[s].cutoff = cutoff
         /\ writer'[s].chosen = {e \in events : e.at < cutoff}
<1> DEFINE c == {e \in events : e.at < cutoff}
<1> DEFINE r == [Quiet EXCEPT !.pc = "chosen", !.chosen = c, !.cutoff = cutoff]
<1>1. c \in SUBSET EventRow /\ cutoff \in 0..MaxDays
  BY AuditBounds DEF AuditShape
<1>3. writer' = [writer EXCEPT ![s] = r]
  BY DEF Choose
<1> HIDE DEF c
<1>2. r \in WriterRow /\ r.pc = "chosen" /\ r.id = 0 /\ r.at = 0 /\ r.chosen = c /\ r.cutoff = cutoff
  BY <1>1, Zeros DEF WriterRow, Quiet
<1> HIDE DEF r
<1> QED BY <1>2, <1>3 DEF AuditShape, c, Choose

LEMMA SurveyRow ==
  ASSUME AuditShape, NEW s \in Sessions, Survey(s)
  PROVE  /\ writer' \in [Sessions -> WriterRow] /\ \A t \in Sessions \ {s} : writer'[t] = writer[t]
         /\ writer[s].pc = "chosen" /\ writer'[s].pc = "cutting"
         /\ writer'[s].id = writer[s].id /\ writer'[s].at = writer[s].at
         /\ writer'[s].cutoff = writer[s].cutoff /\ writer'[s].chosen = writer[s].chosen
         /\ writer'[s].left = {e \in events : e.at >= writer[s].cutoff}
<1> DEFINE c == {e \in events : e.at >= writer[s].cutoff}
<1> DEFINE r == [writer[s] EXCEPT !.pc = "cutting", !.left = c]
<1>1. c \in SUBSET EventRow /\ writer[s] \in WriterRow
  BY DEF AuditShape
<1>3. writer' = [writer EXCEPT ![s] = r]
  BY DEF Survey, AuditShape
<1> HIDE DEF c
<1>2. /\ r \in WriterRow /\ r.pc = "cutting" /\ r.id = writer[s].id /\ r.at = writer[s].at
      /\ r.chosen = writer[s].chosen /\ r.cutoff = writer[s].cutoff /\ r.left = c
  BY <1>1 DEF WriterRow
<1> HIDE DEF r
<1> QED BY <1>2, <1>3 DEF AuditShape, c, Survey

LEMMA StopRow ==
  ASSUME AuditShape, NEW p \in Processes, Stop(p)
  PROVE  /\ writer' \in [Sessions -> WriterRow]
         /\ \A t \in Sessions : /\ ProcessOf[t] # p => writer'[t] = writer[t]
                                /\ ProcessOf[t] = p => writer'[t] = Quiet
BY QuietIs DEF AuditShape, Stop

LEMMA NewEventIs ==
  ASSUME AuditShape, IdsInv, NEW s \in Sessions, writer[s].pc = "linked"
  PROVE  /\ NewEvent(writer[s]) \in EventRow
         /\ NewEvent(writer[s]).id = writer[s].id /\ NewEvent(writer[s]).at = writer[s].at
         /\ NewEvent(writer[s]).prev = writer[s].link /\ NewEvent(writer[s]).algo = Keyed
         /\ NewEvent(writer[s]).hash = EntryHash(writer[s].link, writer[s].id, Keyed)
         /\ NewEvent(writer[s]).row = Cardinality(written) + 1
         /\ writer[s].id \in 1..ids /\ writer[s].id \notin written
<1>1. writer[s].id \in 1..ids /\ writer[s].id \notin written
  BY DEF IdsInv, Appending
<1>2. Cardinality(written) + 1 \in 1..MaxEvents
  BY <1>1, RoomForOne, WrittenFinite, AuditBounds DEF AuditShape
<1>3. writer[s].id \in 1..MaxEvents
  BY <1>1, AuditBounds DEF AuditShape
<1>4. writer[s].at \in 0..MaxDays /\ writer[s].link \in Hash
  BY RowHas DEF AuditShape
<1>5. EntryHash(writer[s].link, writer[s].id, Keyed) \in Hash
  BY <1>4, RowHas, HashIs DEF AuditShape
<1>6. NewEvent(writer[s]) \in EventRow
  BY <1>2, <1>3, <1>4, <1>5 DEF NewEvent, EventRow
<1> QED BY <1>1, <1>6 DEF NewEvent

LEMMA Hours ==
  ASSUME AuditShape
  PROVE  ids \in Nat /\ today \in Nat /\ purges \in Nat /\ stops \in Nat
BY AuditBounds DEF AuditShape

LEMMA StampShape ==
  ASSUME AuditShape, NEW s \in Sessions, Stamp(s)
  PROVE  AuditShape'
<1>1. /\ writer' \in [Sessions -> WriterRow] /\ ids' = ids + 1 /\ ids' \in 0..MaxEvents
      /\ \A t \in Sessions : writer'[t].id \in 0..ids' /\ writer'[t].at \in 0..today'
  <2>1. writer' \in [Sessions -> WriterRow] /\ ids' = ids + 1 /\ ids + 1 \in 0..MaxEvents /\ today' = today
    <3>1. writer' \in [Sessions -> WriterRow] /\ ids + 1 \in 1..MaxEvents
      BY StampRow
    <3>2. ids + 1 \in 0..MaxEvents
      BY <3>1, AuditBounds
    <3> QED BY <3>1, <3>2 DEF Stamp
  <2>2. \A t \in Sessions \ {s} : writer'[t].id \in 0..ids' /\ writer'[t].at \in 0..today'
    BY <2>1, StampRow, Hours DEF AuditShape
  <2>3. writer'[s].id \in 0..ids' /\ writer'[s].at \in 0..today'
    BY <2>1, StampRow, Hours
  <2> QED BY <2>1, <2>2, <2>3
<1>2. written \in SUBSET (1..ids')
  BY <1>1, Hours DEF AuditShape
<1> QED BY <1>1, <1>2 DEF AuditShape, Stamp

LEMMA StampIds ==
  ASSUME AuditShape, IdsInv, NEW s \in Sessions, Stamp(s)
  PROVE  IdsInv'
<1> USE StampRow DEF IdsInv
<1>0. events' = events /\ written' = written /\ ids' = ids + 1 /\ ids \in Nat
  BY Hours DEF Stamp
<1>1. \A t \in Sessions :
        Appending(t)' => writer'[t].id \in 1..ids' /\ writer'[t].id \notin written'
  BY <1>0 DEF Appending, AuditShape
<1>2. \A t, u \in Sessions :
        Appending(t)' /\ Appending(u)' /\ t # u => writer'[t].id # writer'[u].id
  BY <1>0 DEF Appending, AuditShape
<1>3. \A t \in Sessions : writer'[t].pc = "committed" => writer'[t].id \in written'
  BY <1>0
<1>4. \A t \in Sessions : \A e, f \in writer'[t].chosen : e.id = f.id => e = f
  BY <1>0
<1> QED BY <1>0, <1>1, <1>2, <1>3, <1>4

LEMMA LinkShape ==
  ASSUME AuditShape, NEW s \in Sessions, Link(s)
  PROVE  AuditShape'
<1>1. /\ writer' \in [Sessions -> WriterRow]
      /\ \A t \in Sessions : writer'[t].id \in 0..ids' /\ writer'[t].at \in 0..today'
  BY LinkRow DEF AuditShape, Link
<1>2. locked' \in SUBSET Processes
  BY AuditBounds DEF AuditShape, Link, Lock
<1> QED BY <1>1, <1>2 DEF AuditShape, Link

LEMMA LinkIds ==
  ASSUME AuditShape, IdsInv, NEW s \in Sessions, Link(s)
  PROVE  IdsInv'
<1> USE LinkRow DEF IdsInv
<1>0. events' = events /\ written' = written /\ ids' = ids
  BY DEF Link
<1>1. \A t \in Sessions : Appending(t)' => Appending(t)
  BY DEF Appending
<1>2. \A t \in Sessions : writer'[t].id = writer[t].id /\ writer'[t].chosen = writer[t].chosen
  OBVIOUS
<1>3. \A t \in Sessions : writer'[t].pc = "committed" => writer[t].pc = "committed"
  OBVIOUS
<1> QED BY <1>0, <1>1, <1>2, <1>3

LEMMA CommitShape ==
  ASSUME AuditShape, IdsInv, NEW s \in Sessions, Commit(s)
  PROVE  AuditShape'
<1>1. /\ writer' \in [Sessions -> WriterRow]
      /\ \A t \in Sessions : writer'[t].id \in 0..ids' /\ writer'[t].at \in 0..today'
  BY CommitRow DEF AuditShape, Commit
<1>2. events' \in SUBSET EventRow /\ head' \in Hash /\ written' \in SUBSET (1..ids')
  <2>1. NewEvent(writer[s]) \in EventRow /\ writer[s].id \in 1..ids
    BY NewEventIs DEF Commit
  <2>2. NewEvent(writer[s]).hash \in Hash
    BY <2>1, EventHas
  <2> QED BY <2>1, <2>2 DEF Commit, AuditShape
<1>3. locked' \in SUBSET Processes /\ changedBy' \in Processes
  BY AuditBounds DEF AuditShape, Commit, Unlock
<1>4. mishaps' \in SUBSET {"fork", "order", "missed", "unkeyed"}
  BY DEF AuditShape, Commit
<1>5. announced' \in SUBSET written'
  BY DEF AuditShape, Commit
<1> QED BY <1>1, <1>2, <1>3, <1>4, <1>5 DEF AuditShape, Commit

LEMMA CommitIds ==
  ASSUME AuditShape, IdsInv, NEW s \in Sessions, Commit(s)
  PROVE  IdsInv'
<1>0. /\ events' = events \cup {NewEvent(writer[s])} /\ written' = written \cup {writer[s].id}
      /\ ids' = ids /\ writer[s].pc = "linked"
  BY DEF Commit
<1>1. IsFiniteSet(events')
  BY <1>0, FS_AddElement DEF IdsInv
<1>2. Cardinality(written') = Cardinality(written) + 1 /\ Cardinality(written) \in Nat
  BY <1>0, NewEventIs, WrittenFinite, FS_AddElement
<1>3. PICK e : e = NewEvent(writer[s])
  OBVIOUS
<1>4. e.id = writer[s].id /\ e.row = Cardinality(written) + 1 /\ writer[s].id \notin written
  BY <1>0, <1>3, NewEventIs
<1>5. \A f \in events : f.id \in written /\ f.row <= Cardinality(written) /\ f.row \in Nat
  BY EventHas DEF IdsInv, AuditShape
<1>6. \A f \in events' : f.id \in written' /\ f.row <= Cardinality(written')
  BY <1>0, <1>2, <1>3, <1>4, <1>5
<1>7. \A f, g \in events' : f.id = g.id \/ f.row = g.row => f = g
  BY <1>0, <1>2, <1>3, <1>4, <1>5 DEF IdsInv
<1>8. \A t \in Sessions : Appending(t)' => t # s /\ Appending(t) /\ writer'[t] = writer[t]
  BY CommitRow DEF Appending
<1>9. \A t \in Sessions :
        Appending(t)' => writer'[t].id \in 1..ids' /\ writer'[t].id \notin written'
  BY <1>0, <1>8 DEF IdsInv, Appending
<1>10. \A t, u \in Sessions :
         Appending(t)' /\ Appending(u)' /\ t # u => writer'[t].id # writer'[u].id
  BY <1>8 DEF IdsInv
<1>11. \A t \in Sessions : writer'[t].pc = "committed" => writer'[t].id \in written'
  BY <1>0, CommitRow DEF IdsInv
<1>12. \A t \in Sessions : \A f, g \in writer'[t].chosen : f.id = g.id => f = g
  BY CommitRow DEF IdsInv
<1> QED BY <1>1, <1>6, <1>7, <1>9, <1>10, <1>11, <1>12 DEF IdsInv

LEMMA AnnounceShape ==
  ASSUME AuditShape, IdsInv, NEW s \in Sessions, Announce(s)
  PROVE  AuditShape'
<1>1. writer' = [writer EXCEPT ![s] = Quiet]
  BY DEF Announce
<1>2. /\ writer' \in [Sessions -> WriterRow]
      /\ \A t \in Sessions : writer'[t].id \in 0..ids' /\ writer'[t].at \in 0..today'
  <2>1. writer' \in [Sessions -> WriterRow] /\ ids' = ids /\ today' = today
    BY <1>1, QuietRow DEF Announce
  <2>2. \A t \in Sessions \ {s} : writer'[t].id \in 0..ids' /\ writer'[t].at \in 0..today'
    BY <2>1, <1>1, QuietRow DEF AuditShape
  <2>3. writer'[s].id \in 0..ids' /\ writer'[s].at \in 0..today'
    <3>1. writer'[s].id = 0 /\ writer'[s].at = 0
      BY <1>1, QuietRow
    <3> QED BY <3>1, <2>1, Hours
  <2> QED BY <2>1, <2>2, <2>3
<1>3. announced' \in SUBSET written'
  <2>1. writer[s].id \in written
    BY DEF Announce, IdsInv
  <2> QED BY <2>1 DEF AuditShape, Announce
<1> QED BY <1>2, <1>3 DEF AuditShape, Announce

\* A session that is done leaves the rest as they were.
LEMMA QuietIds ==
  ASSUME AuditShape, IdsInv, NEW s \in Sessions, writer' = [writer EXCEPT ![s] = Quiet],
         IsFiniteSet(events'), events' \in SUBSET events, UNCHANGED <<written, ids>>
  PROVE  IdsInv'
<1>1. \A t \in Sessions : Appending(t)' => t # s /\ Appending(t) /\ writer'[t] = writer[t]
  BY QuietRow DEF Appending
<1>2. \A t \in Sessions : writer'[t].pc = "committed" => writer'[t] = writer[t]
  BY QuietRow
<1>3. \A t \in Sessions : \A f, g \in writer'[t].chosen : f.id = g.id => f = g
  BY QuietRow DEF IdsInv
<1> QED BY <1>1, <1>2, <1>3 DEF IdsInv

LEMMA ChooseShape ==
  ASSUME AuditShape, NEW s \in Sessions, NEW cutoff \in 1..MaxDays, Choose(s, cutoff)
  PROVE  AuditShape'
<1>1. /\ writer' \in [Sessions -> WriterRow]
      /\ \A t \in Sessions : writer'[t].id \in 0..ids' /\ writer'[t].at \in 0..today'
  <2>1. writer' \in [Sessions -> WriterRow] /\ ids' = ids /\ today' = today
    BY ChooseRow DEF Choose
  <2>2. \A t \in Sessions \ {s} : writer'[t].id \in 0..ids' /\ writer'[t].at \in 0..today'
    BY <2>1, ChooseRow DEF AuditShape
  <2>3. writer'[s].id \in 0..ids' /\ writer'[s].at \in 0..today'
    BY <2>1, ChooseRow, Hours
  <2> QED BY <2>1, <2>2, <2>3
<1>2. purges' \in 0..MaxPurges
  BY AuditBounds DEF AuditShape, Choose
<1> QED BY <1>1, <1>2 DEF AuditShape, Choose

LEMMA ChooseIds ==
  ASSUME AuditShape, IdsInv, NEW s \in Sessions, NEW cutoff \in 1..MaxDays, Choose(s, cutoff)
  PROVE  IdsInv'
<1>0. events' = events /\ written' = written /\ ids' = ids
  BY DEF Choose
<1>1. \A t \in Sessions : Appending(t)' => t # s /\ Appending(t) /\ writer'[t] = writer[t]
  BY ChooseRow DEF Appending
<1>2. \A t \in Sessions : writer'[t].pc = "committed" => writer'[t] = writer[t]
  BY ChooseRow
<1>3. \A t \in Sessions : \A f, g \in writer'[t].chosen : f.id = g.id => f = g
  BY ChooseRow DEF IdsInv
<1> QED BY <1>0, <1>1, <1>2, <1>3 DEF IdsInv

LEMMA SurveyShape ==
  ASSUME AuditShape, NEW s \in Sessions, Survey(s)
  PROVE  AuditShape'
<1>1. /\ writer' \in [Sessions -> WriterRow]
      /\ \A t \in Sessions : writer'[t].id \in 0..ids' /\ writer'[t].at \in 0..today'
  BY SurveyRow DEF AuditShape, Survey
<1>2. locked' \in SUBSET Processes
  BY AuditBounds DEF AuditShape, Survey, Lock
<1> QED BY <1>1, <1>2 DEF AuditShape, Survey

LEMMA SurveyIds ==
  ASSUME AuditShape, IdsInv, NEW s \in Sessions, Survey(s)
  PROVE  IdsInv'
<1>0. events' = events /\ written' = written /\ ids' = ids
  BY DEF Survey
<1>1. \A t \in Sessions : Appending(t)' => t # s /\ Appending(t) /\ writer'[t] = writer[t]
  BY SurveyRow DEF Appending
<1>2. \A t \in Sessions : writer'[t].pc = "committed" => writer'[t] = writer[t]
  BY SurveyRow
<1>3. \A t \in Sessions : \A f, g \in writer'[t].chosen : f.id = g.id => f = g
  BY SurveyRow DEF IdsInv
<1> QED BY <1>0, <1>1, <1>2, <1>3 DEF IdsInv

LEMMA StopShape ==
  ASSUME AuditShape, NEW p \in Processes, Stop(p)
  PROVE  AuditShape'
<1>1. writer' \in [Sessions -> WriterRow] /\ ids' = ids /\ today' = today
  BY StopRow DEF Stop
<1>2. ASSUME NEW t \in Sessions PROVE writer'[t].id \in 0..ids' /\ writer'[t].at \in 0..today'
  <2>1. CASE ProcessOf[t] # p
    BY <2>1, <1>1, StopRow DEF AuditShape
  <2>2. CASE ProcessOf[t] = p
    BY <2>2, <1>1, StopRow, QuietIs, Hours
  <2> QED BY <2>1, <2>2
<1>3. stops' \in 0..MaxStops
  BY AuditBounds DEF AuditShape, Stop
<1> QED BY <1>1, <1>2, <1>3 DEF AuditShape, Stop

LEMMA StopIds ==
  ASSUME AuditShape, IdsInv, NEW p \in Processes, Stop(p)
  PROVE  IdsInv'
<1>0. events' = events /\ written' = written /\ ids' = ids
  BY DEF Stop
<1>1. \A t \in Sessions : Appending(t)' => Appending(t) /\ writer'[t] = writer[t]
  BY StopRow, QuietIs DEF Appending
<1>2. \A t \in Sessions : writer'[t].pc = "committed" => writer'[t] = writer[t]
  BY StopRow, QuietIs
<1>3. \A t \in Sessions : \A f, g \in writer'[t].chosen : f.id = g.id => f = g
  BY StopRow, QuietIs DEF IdsInv
<1> QED BY <1>0, <1>1, <1>2, <1>3 DEF IdsInv

-----------------------------------------------------------------------------
(* Purges: each has its place among the receipts. *)

PurgingNow == {s \in Sessions : Purging(s)}

\* No purge has begun or ended.
LEMMA SamePurges ==
  ASSUME AuditShape, PurgesInv, \A t \in Sessions : Purging(t)' => Purging(t),
         UNCHANGED <<checkpoints, purges>>
  PROVE  PurgesInv'
<1>1. {t \in Sessions : Purging(t)}' \in SUBSET {t \in Sessions : Purging(t)}
  OBVIOUS
<1>2. PICK old : old = {t \in Sessions : Purging(t)}
  OBVIOUS
<1>3. PICK new : new = {t \in Sessions : Purging(t)}'
  OBVIOUS
<1>4. IsFiniteSet(new) /\ Cardinality(new) <= Cardinality(old) /\ Cardinality(new) \in Nat /\ Cardinality(old) \in Nat
  BY <1>1, <1>2, <1>3, FS_Subset, FS_CardinalityType DEF PurgesInv
<1>5. Cardinality(checkpoints) \in Nat /\ purges \in Nat
  BY Hours, FS_CardinalityType DEF PurgesInv
<1>6. Cardinality(checkpoints) + Cardinality(old) <= purges
  BY <1>2 DEF PurgesInv
<1>7. Cardinality(checkpoints') + Cardinality(new) <= purges'
  BY <1>4, <1>5, <1>6
<1> QED BY <1>3, <1>4, <1>7 DEF PurgesInv

LEMMA ChoosePurges ==
  ASSUME AuditShape, PurgesInv, NEW s \in Sessions, NEW cutoff \in 1..MaxDays, Choose(s, cutoff)
  PROVE  PurgesInv'
<1>1. PICK old : old = {t \in Sessions : Purging(t)}
  OBVIOUS
<1>2. PICK new : new = {t \in Sessions : Purging(t)}'
  OBVIOUS
<1>3. new = old \cup {s} /\ s \notin old
  BY <1>1, <1>2, ChooseRow DEF Purging
<1>4. IsFiniteSet(old) /\ IsFiniteSet(new) /\ Cardinality(new) = Cardinality(old) + 1
  BY <1>1, <1>3, FS_AddElement DEF PurgesInv
<1>5. Cardinality(old) \in Nat /\ Cardinality(checkpoints) \in Nat /\ purges \in Nat
  BY <1>4, FS_CardinalityType, Hours DEF PurgesInv
<1>6. Cardinality(checkpoints) + Cardinality(old) <= purges
  BY <1>1 DEF PurgesInv
<1>7. purges' = purges + 1 /\ checkpoints' = checkpoints
  BY DEF Choose
<1> QED BY <1>2, <1>4, <1>5, <1>6, <1>7 DEF PurgesInv

LEMMA CutPurges ==
  ASSUME AuditShape, PurgesInv, NEW s \in Sessions, Cut(s)
  PROVE  /\ PurgesInv' /\ Receipt(writer[s]) \notin checkpoints
         /\ Cardinality(checkpoints) + 1 \in 1..MaxPurges
<1>1. PICK old : old = {t \in Sessions : Purging(t)}
  OBVIOUS
<1>2. PICK new : new = {t \in Sessions : Purging(t)}'
  OBVIOUS
<1>3. new = old \ {s} /\ s \in old
  <2>1. writer' = [writer EXCEPT ![s] = Quiet] /\ writer[s].pc = "cutting"
    BY DEF Cut
  <2>2. \A t \in Sessions \ {s} : writer'[t] = writer[t]
    BY <2>1, QuietRow
  <2>3. writer'[s].pc = "idle"
    BY <2>1, QuietRow
  <2> QED BY <1>1, <1>2, <2>1, <2>2, <2>3 DEF Purging
<1>4. IsFiniteSet(old) /\ IsFiniteSet(new) /\ Cardinality(new) = Cardinality(old) - 1
  BY <1>1, <1>3, FS_RemoveElement DEF PurgesInv
<1>5. /\ Cardinality(old) \in Nat /\ Cardinality(new) \in Nat /\ Cardinality(checkpoints) \in Nat
      /\ purges \in 0..MaxPurges /\ MaxPurges \in Nat
  BY <1>4, FS_CardinalityType, AuditBounds DEF PurgesInv, AuditShape
<1>6. Cardinality(checkpoints) + Cardinality(old) <= purges
  BY <1>1 DEF PurgesInv
<1>7. PICK c : c = Receipt(writer[s])
  OBVIOUS
<1>8. c.n = Cardinality(checkpoints) + 1
  BY <1>7 DEF Receipt
<1>9. c \notin checkpoints
  BY <1>8, <1>5 DEF PurgesInv
<1>10. checkpoints' = checkpoints \cup {c} /\ purges' = purges
  BY <1>7 DEF Cut
<1>11. IsFiniteSet(checkpoints') /\ Cardinality(checkpoints') = Cardinality(checkpoints) + 1
  BY <1>9, <1>10, FS_AddElement DEF PurgesInv
<1>12. \A d \in checkpoints' : d.n <= Cardinality(checkpoints')
  <2>1. \A d \in checkpoints : d.n <= Cardinality(checkpoints) /\ d.n \in Nat
    BY AuditBounds DEF PurgesInv, AuditShape, Checkpoint
  <2> QED BY <2>1, <1>5, <1>8, <1>10, <1>11
<1>15. Cardinality(checkpoints') + Cardinality(new) <= purges'
  BY <1>4, <1>5, <1>6, <1>10, <1>11
<1>13. PurgesInv'
  BY <1>2, <1>4, <1>11, <1>12, <1>15 DEF PurgesInv
<1>14. Cardinality(checkpoints) + 1 \in 1..MaxPurges
  BY <1>4, <1>5, <1>6
<1> QED BY <1>7, <1>9, <1>13, <1>14

\* What a purge chose is no more than was ever written.
LEMMA ChosenFew ==
  ASSUME AuditShape, IdsInv, NEW s \in Sessions
  PROVE  IsFiniteSet(writer[s].chosen) /\ Cardinality(writer[s].chosen) \in 0..MaxEvents
<1>1. PICK c : c = writer[s].chosen
  OBVIOUS
<1>2. c \in SUBSET EventRow /\ \A e, f \in c : e.id = f.id => e = f
  BY <1>1, RowHas DEF AuditShape, IdsInv
<1>3. IsFiniteSet(1..MaxEvents) /\ Cardinality(1..MaxEvents) = MaxEvents
  BY AuditBounds, FS_Interval
<1> DEFINE f == [e \in c |-> e.id]
<1>4. f \in Injection(c, 1..MaxEvents)
  <2>1. f \in [c -> 1..MaxEvents]
    BY <1>2, EventHas
  <2>2. \A x, y \in c : f[x] = f[y] => x = y
    BY <1>2
  <2> QED BY <2>1, <2>2 DEF Injection, IsInjective
<1>5. IsFiniteSet(c) /\ Cardinality(c) <= MaxEvents
  BY <1>3, <1>4, FS_Injection
<1>6. Cardinality(c) \in Nat
  BY <1>5, FS_CardinalityType
<1> QED BY <1>1, <1>5, <1>6, AuditBounds

LEMMA CutShape ==
  ASSUME AuditShape, IdsInv, PurgesInv, NEW s \in Sessions, Cut(s)
  PROVE  AuditShape'
<1>1. writer' = [writer EXCEPT ![s] = Quiet]
  BY DEF Cut
<1>2. /\ writer' \in [Sessions -> WriterRow]
      /\ \A t \in Sessions : writer'[t].id \in 0..ids' /\ writer'[t].at \in 0..today'
  <2>1. writer' \in [Sessions -> WriterRow] /\ ids' = ids /\ today' = today
    BY <1>1, QuietRow DEF Cut
  <2>2. \A t \in Sessions \ {s} : writer'[t].id \in 0..ids' /\ writer'[t].at \in 0..today'
    BY <2>1, <1>1, QuietRow DEF AuditShape
  <2>3. writer'[s].id \in 0..ids' /\ writer'[s].at \in 0..today'
    <3>1. writer'[s].id = 0 /\ writer'[s].at = 0
      BY <1>1, QuietRow
    <3> QED BY <3>1, <2>1, Hours
  <2> QED BY <2>1, <2>2, <2>3
<1>3. checkpoints' \in SUBSET Checkpoint
  <2>1. writer[s].left \in SUBSET EventRow
    BY RowHas DEF AuditShape
  <2>2. Receipt(writer[s]).cut_to \in Hash
    <3>1. CASE writer[s].left = {}
      BY <3>1, Zeros DEF Receipt
    <3>2. CASE writer[s].left # {}
      <4>1. Earliest(writer[s].left).prev \in Hash
        BY <2>1, <3>2, EarliestIs, EventHas
      <4> QED BY <3>2, <4>1 DEF Receipt
    <3> QED BY <3>1, <3>2
  <2>3. Receipt(writer[s]) \in Checkpoint
    BY <2>2, CutPurges, ChosenFew DEF Receipt, Checkpoint
  <2> QED BY <2>3 DEF AuditShape, Cut
<1>4. locked' \in SUBSET Processes /\ changedBy' \in Processes
  BY AuditBounds DEF AuditShape, Cut, Unlock
<1>5. mishaps' \in SUBSET {"fork", "order", "missed", "unkeyed"}
  BY DEF AuditShape, Cut
<1>6. events' \in SUBSET EventRow /\ head' \in Hash
  BY Zeros DEF AuditShape, Cut
<1> QED BY <1>2, <1>3, <1>4, <1>5, <1>6 DEF AuditShape, Cut

-----------------------------------------------------------------------------
(* The store as it is opened. *)

LEMMA FirstEvent ==
  ASSUME AuditInit
  PROVE  \/ /\ events = {} /\ head = NoHash /\ written = {} /\ ids = 0 /\ mishaps = {}
         \/ \E e \in events :
              /\ e \in EventRow /\ events = {e} /\ head = e.hash /\ written = {1} /\ ids = 1
              /\ e.id = 1 /\ e.row = 1 /\ e.prev = NoHash
              /\ mishaps = {} => EntryHash(e.prev, e.id, e.algo) = e.hash
              /\ mishaps \in {{}, {"unkeyed"}}
<1>1. PICK install \in Installed :
        /\ events = Backfilled(Stored(install))
        /\ head = IF install = "fresh" THEN NoHash ELSE (CHOOSE e \in events : TRUE).hash
        /\ mishaps = IF install = "unchained" THEN {"unkeyed"} ELSE {}
        /\ ids = Cardinality(events) /\ written = {e.id : e \in events}
  BY DEF AuditInit
<1>2. CASE install = "fresh"
  <2>1. events = {}
    BY <1>1, <1>2 DEF Stored, Backfilled
  <2> QED BY <1>1, <1>2, <2>1, FS_EmptySet
<1>3. CASE install # "fresh"
  <2>1. MaxEvents \in Nat
    BY AuditBounds
  <2> DEFINE old == [id |-> 1, at |-> 0, prev |-> NoHash, algo |-> Legacy, row |-> 1,
                     hash |-> IF install = "legacy" THEN EntryHash(NoHash, 1, Legacy) ELSE NoHash]
             e == IF old.hash # NoHash THEN old ELSE [old EXCEPT !.hash = EntryHash(NoHash, old.id, Keyed)]
  <2>2. events = {e}
    BY <1>1, <1>3 DEF Stored, Backfilled
  <2>3. /\ e.id = 1 /\ e.at = 0 /\ e.prev = NoHash /\ e.algo = Legacy /\ e.row = 1
    OBVIOUS
  <2>4. EntryHash(NoHash, 1, Legacy) # NoHash
    BY HashOf
  <2>5. install = "legacy" => e.hash = EntryHash(NoHash, 1, Legacy)
    BY <2>4
  <2>6. e.hash \in {EntryHash(NoHash, 1, Legacy), EntryHash(NoHash, 1, Keyed)}
    BY <2>5
  <2>7. PICK x : x = e
    OBVIOUS
  <2>8. x = [id |-> 1, at |-> 0, prev |-> NoHash, algo |-> Legacy, row |-> 1, hash |-> x.hash]
    BY <2>7
  <2>9. x.hash \in Hash
    <3>1. 1 \in 0..MaxEvents /\ NoHash \in Hash
      BY AuditBounds, Zeros
    <3>2. EntryHash(NoHash, 1, Legacy) \in Hash /\ EntryHash(NoHash, 1, Keyed) \in Hash
      BY <3>1, HashIs
    <3> QED BY <2>6, <2>7, <3>2
  <2>10. x \in EventRow
    <3>1. 1 \in 1..MaxEvents /\ 0 \in 0..MaxDays /\ NoHash \in Hash
      BY AuditBounds, Zeros
    <3> HIDE DEF old, e
    <3> QED BY <2>8, <2>9, <3>1 DEF EventRow
  <2>11. head = x.hash
    BY <1>1, <1>3, <2>2, <2>7
  <2>12. x.id = 1 /\ x.row = 1 /\ x.prev = NoHash /\ x.algo = Legacy
    BY <2>8
  <2>13. events = {x}
    BY <2>2, <2>7
  <2>14. written = {1}
    BY <1>1, <2>12, <2>13
  <2>15. ids = 1
    BY <1>1, <2>13, FS_Singleton
  <2>16. mishaps = {} => EntryHash(x.prev, x.id, x.algo) = x.hash
    <3>1. ASSUME mishaps = {} PROVE install = "legacy"
      BY <1>1, <1>3, <3>1, AuditAssumption
    <3> QED BY <3>1, <2>5, <2>7, <2>12
  <2>17. mishaps \in {{}, {"unkeyed"}}
    BY <1>1
  <2> HIDE DEF old, e
  <2> QED BY <2>10, <2>11, <2>12, <2>13, <2>14, <2>15, <2>16, <2>17
<1> QED BY <1>2, <1>3

LEMMA AuditInits ==
  ASSUME AuditInit
  PROVE  AuditInv
<1>1. /\ checkpoints = {} /\ today = 0 /\ locked = {} /\ announced = {}
      /\ writer = [s \in Sessions |-> Quiet] /\ purges = 0 /\ stops = 0
      /\ changedBy = CHOOSE p \in Processes : TRUE
  BY DEF AuditInit
<1>2. \A s \in Sessions : writer[s] = Quiet
  BY <1>1
<1>3. mishaps \in SUBSET {"fork", "order", "missed", "unkeyed"}
  BY FirstEvent
<1>4. events \in SUBSET EventRow /\ head \in Hash /\ ids \in 0..MaxEvents /\ written \in SUBSET (1..ids)
  BY FirstEvent, EventHas, Zeros, AuditBounds
<1>5. changedBy \in Processes
  BY <1>1, AuditBounds
<1>6. AuditShape
  BY <1>1, <1>2, <1>3, <1>4, <1>5, QuietIs, AuditBounds DEF AuditShape
<1>7. IdsInv
  <2>1. IsFiniteSet(events) /\ \A e \in events : e.id \in written /\ e.row <= Cardinality(written)
    <3>1. CASE events = {}
      BY <3>1, FS_EmptySet
    <3>2. CASE events # {}
      <4>1. PICK e \in events : events = {e} /\ written = {1} /\ e.id = 1 /\ e.row = 1
        BY <3>2, FirstEvent
      <4>2. IsFiniteSet(events) /\ Cardinality(written) = 1
        BY <4>1, FS_Singleton
      <4> QED BY <4>1, <4>2
    <3> QED BY <3>1, <3>2
  <2>2. \A e, f \in events : e = f
    BY FirstEvent
  <2> QED BY <1>2, <2>1, <2>2, QuietIs DEF IdsInv, Appending
<1>8. PurgesInv
  <2>1. {s \in Sessions : Purging(s)} = {}
    BY <1>2, QuietIs DEF Purging
  <2> QED BY <1>1, <2>1, FS_EmptySet DEF PurgesInv
<1> QED BY <1>6, <1>7, <1>8 DEF AuditInv

LEMMA AuditSteps ==
  ASSUME AuditInv, [AuditNext]_auditVars
  PROVE  AuditInv'
<1> USE DEF AuditInv
<1>1. ASSUME NEW s \in Sessions, Stamp(s) PROVE AuditInv'
  <2>1. \A t \in Sessions : Purging(t)' => Purging(t)
    BY <1>1, StampRow DEF Purging
  <2> QED BY <1>1, <2>1, StampShape, StampIds, SamePurges DEF Stamp
<1>2. ASSUME NEW s \in Sessions, Link(s) PROVE AuditInv'
  <2>1. \A t \in Sessions : Purging(t)' => Purging(t)
    BY <1>2, LinkRow DEF Purging
  <2> QED BY <1>2, <2>1, LinkShape, LinkIds, SamePurges DEF Link
<1>3. ASSUME NEW s \in Sessions, Commit(s) PROVE AuditInv'
  <2>1. \A t \in Sessions : Purging(t)' => Purging(t)
    BY <1>3, CommitRow DEF Purging
  <2> QED BY <1>3, <2>1, CommitShape, CommitIds, SamePurges DEF Commit
<1>4. ASSUME NEW s \in Sessions, Announce(s) PROVE AuditInv'
  <2>0. writer' = [writer EXCEPT ![s] = Quiet]
    BY <1>4 DEF Announce
  <2>1. \A t \in Sessions : Purging(t)' => Purging(t)
    BY <2>0, QuietRow DEF Purging
  <2>2. IdsInv'
    <3>1. events' \in SUBSET events /\ IsFiniteSet(events') /\ UNCHANGED <<written, ids>>
      BY <1>4 DEF Announce, IdsInv
    <3> QED BY <2>0, <3>1, QuietIds
  <2> QED BY <1>4, <2>1, <2>2, AnnounceShape, SamePurges DEF Announce
<1>5. ASSUME NEW s \in Sessions, NEW c \in 1..MaxDays, Choose(s, c) PROVE AuditInv'
  BY <1>5, ChooseShape, ChooseIds, ChoosePurges
<1>6. ASSUME NEW s \in Sessions, Survey(s) PROVE AuditInv'
  <2>1. \A t \in Sessions : Purging(t)' => Purging(t)
    BY <1>6, SurveyRow DEF Purging
  <2> QED BY <1>6, <2>1, SurveyShape, SurveyIds, SamePurges DEF Survey
<1>7. ASSUME NEW s \in Sessions, Cut(s) PROVE AuditInv'
  <2>0. writer' = [writer EXCEPT ![s] = Quiet]
    BY <1>7 DEF Cut
  <2>1. IdsInv'
    <3>1. events' \in SUBSET events /\ IsFiniteSet(events') /\ UNCHANGED <<written, ids>>
      BY <1>7, FS_Subset DEF Cut, IdsInv
    <3> QED BY <2>0, <3>1, QuietIds
  <2> QED BY <1>7, <2>1, CutShape, CutPurges
<1>8. ASSUME NextDay PROVE AuditInv'
  <2>1. /\ today' = today + 1 /\ today' \in 0..MaxDays
        /\ UNCHANGED <<events, head, checkpoints, writer, locked, ids, announced, written, mishaps, changedBy, purges, stops>>
    BY <1>8, Hours, AuditBounds DEF NextDay
  <2>2. \A t \in Sessions : writer[t].at \in 0..today'
    BY <2>1, Hours DEF AuditShape
  <2>3. AuditShape'
    BY <2>1, <2>2 DEF AuditShape
  <2>4. IdsInv'
    BY <2>1 DEF IdsInv, Appending
  <2>5. PurgesInv'
    BY <2>1 DEF PurgesInv, Purging
  <2> QED BY <2>3, <2>4, <2>5
<1>9. ASSUME NEW p \in Processes, Stop(p) PROVE AuditInv'
  <2>1. \A t \in Sessions : Purging(t)' => Purging(t)
    BY <1>9, StopRow, QuietIs DEF Purging
  <2> QED BY <1>9, <2>1, StopShape, StopIds, SamePurges DEF Stop
<1>10. ASSUME UNCHANGED auditVars PROVE AuditInv'
  BY <1>10 DEF auditVars, AuditShape, IdsInv, PurgesInv, Appending, Purging
<1> QED BY <1>1, <1>2, <1>3, <1>4, <1>5, <1>6, <1>7, <1>8, <1>9, <1>10 DEF AuditNext

\* What the proofs below build on.
LEMMA AuditKept == AuditSpec => []AuditInv
BY AuditInits, AuditSteps, PTL DEF AuditSpec

(***************************************************************************)
(* Events, receipts and what each session is at keep their types, for any  *)
(* sessions and processes, through purges, interruptions and restarts.     *)
(***************************************************************************)
THEOREM AuditIsTyped == AuditSpec => []AuditTypeOK
<1>1. AuditInv => AuditTypeOK
  <2> SUFFICES ASSUME AuditInv PROVE AuditTypeOK
    OBVIOUS
  <2>1. ASSUME NEW s \in Sessions
        PROVE  /\ writer[s].pc \in {"idle", "stamped", "linked", "committed", "chosen", "cutting"}
               /\ writer[s].id \in 0..ids /\ writer[s].at \in 0..today /\ writer[s].link \in Hash
               /\ writer[s].chosen \cup writer[s].left \subseteq EventRow
               /\ writer[s].cutoff \in 0..MaxDays
    BY RowHas DEF AuditInv, AuditShape
  <2> QED BY <2>1 DEF AuditInv, AuditShape, AuditTypeOK
<1> QED BY <1>1, AuditKept, PTL

-----------------------------------------------------------------------------
(* What receipts say was deleted. *)

DeletedInAll(C) == SumOf([c \in C |-> c.deleted], C)

LEMMA OneReceiptMore ==
  ASSUME NEW C, IsFiniteSet(C), NEW r, r \notin C, \A c \in C \cup {r} : c.deleted \in Int
  PROVE  DeletedInAll(C \cup {r}) = DeletedInAll(C) + r.deleted /\ DeletedInAll(C) \in Int
<1> DEFINE w == [c \in C \cup {r} |-> c.deleted]
           v == [c \in C |-> c.deleted]
<1>1. SumOf(w, C \cup {r}) = SumOf(w, C) + w[r]
  BY SumWith
<1>2. \A c \in C : w[c] = v[c]
  OBVIOUS
<1>3. SumOf(w, C) = SumOf(v, C)
  BY <1>2, SumSame
<1>4. SumOf(v, C) \in Int
  BY SumOfInt
<1> QED BY <1>1, <1>3, <1>4 DEF DeletedInAll

Covered == Cardinality(written) - Cardinality(events) <= DeletedInAll(checkpoints)

LEMMA Sizes ==
  ASSUME AuditInv
  PROVE  /\ Cardinality(written) \in Nat /\ Cardinality(events) \in Nat
         /\ \A c \in checkpoints : c.deleted \in Int
         /\ DeletedInAll(checkpoints) \in Int
<1>1. \A c \in checkpoints : c.deleted \in Int
  BY AuditBounds DEF AuditInv, AuditShape, Checkpoint
<1>2. SumOf([c \in checkpoints |-> c.deleted], checkpoints) \in Int
  BY <1>1, SumOfInt DEF AuditInv, PurgesInv
<1> QED BY <1>1, <1>2, WrittenFinite, FS_CardinalityType DEF AuditInv, IdsInv, DeletedInAll

LEMMA CommitCovered ==
  ASSUME AuditInv, Covered, NEW s \in Sessions, Commit(s)
  PROVE  Covered'
<1>1. PICK e : e = NewEvent(writer[s])
  OBVIOUS
<1>2. events' = events \cup {e} /\ written' = written \cup {writer[s].id} /\ checkpoints' = checkpoints
  BY <1>1 DEF Commit
<1>3. e.id = writer[s].id /\ writer[s].id \notin written
  BY <1>1, NewEventIs DEF Commit, AuditInv
<1>4. e \notin events
  BY <1>3 DEF AuditInv, IdsInv
<1>5. Cardinality(events') = Cardinality(events) + 1
  BY <1>2, <1>4, FS_AddElement DEF AuditInv, IdsInv
<1>6. Cardinality(written') = Cardinality(written) + 1
  BY <1>2, <1>3, FS_AddElement, WrittenFinite DEF AuditInv
<1> QED BY <1>2, <1>5, <1>6, Sizes DEF Covered

LEMMA CutCovered ==
  ASSUME AuditInv, Covered, NEW s \in Sessions, Cut(s)
  PROVE  Covered'
<1>1. PICK r : r = Receipt(writer[s])
  OBVIOUS
<1>2. PICK c : c = writer[s].chosen
  OBVIOUS
<1>3. events' = events \ c /\ written' = written /\ checkpoints' = checkpoints \cup {r}
  BY <1>1, <1>2 DEF Cut
<1>4. r \notin checkpoints /\ r.deleted = Cardinality(c) /\ IsFiniteSet(checkpoints)
  BY <1>1, <1>2, CutPurges DEF AuditInv, PurgesInv, Receipt
<1>5. IsFiniteSet(c) /\ Cardinality(c) \in Nat
  BY <1>2, ChosenFew, AuditBounds DEF AuditInv
<1>6. DeletedInAll(checkpoints') = DeletedInAll(checkpoints) + Cardinality(c)
  BY <1>3, <1>4, <1>5, Sizes, OneReceiptMore
<1>7. Cardinality(events') = Cardinality(events) - Cardinality(events \cap c)
  BY <1>3, FS_Difference DEF AuditInv, IdsInv
<1>8. Cardinality(events \cap c) <= Cardinality(c) /\ Cardinality(events \cap c) \in Nat
  BY <1>5, FS_Subset, FS_CardinalityType
<1> QED BY <1>3, <1>5, <1>6, <1>7, <1>8, Sizes DEF Covered

LEMMA CoveredSteps ==
  ASSUME AuditInv, Covered, [AuditNext]_auditVars
  PROVE  Covered'
<1>1. ASSUME NEW s \in Sessions, Commit(s) PROVE Covered'
  BY <1>1, CommitCovered
<1>2. ASSUME NEW s \in Sessions, Cut(s) PROVE Covered'
  BY <1>2, CutCovered
<1>3. ASSUME UNCHANGED <<written, events, checkpoints>> PROVE Covered'
  BY <1>3 DEF Covered
<1>4. ASSUME NEW s \in Sessions,
             Stamp(s) \/ Link(s) \/ Announce(s) \/ Survey(s) \/ \E c \in 1..MaxDays : Choose(s, c)
      PROVE  UNCHANGED <<written, events, checkpoints>>
  BY <1>4 DEF Stamp, Link, Announce, Survey, Choose
<1>5. ASSUME NextDay \/ (\E p \in Processes : Stop(p)) \/ UNCHANGED auditVars
      PROVE  UNCHANGED <<written, events, checkpoints>>
  BY <1>5 DEF NextDay, Stop, auditVars
<1> QED BY <1>1, <1>2, <1>3, <1>4, <1>5 DEF AuditNext

(***************************************************************************)
(* Every event that is gone is in a receipt, however purges, appends and   *)
(* crashes of however many processes fall between each other.              *)
(***************************************************************************)
THEOREM NothingGoesUnreceipted == AuditSpec => []ReceiptsCoverWhatIsGone
<1>1. AuditInit => Covered
  <2> SUFFICES ASSUME AuditInit PROVE Covered
    OBVIOUS
  <2>1. Cardinality(written) = Cardinality(events)
    BY FirstEvent, FS_EmptySet, FS_Singleton
  <2>2. AuditInv
    BY AuditInits
  <2>3. checkpoints = {}
    BY DEF AuditInit
  <2>4. DeletedInAll(checkpoints) = 0
    BY <2>3, SumOfNone DEF DeletedInAll
  <2> QED BY <2>1, <2>2, <2>4, Sizes DEF Covered
<1>2. AuditInv /\ Covered => ReceiptsCoverWhatIsGone
  <2> SUFFICES ASSUME AuditInv, Covered PROVE ReceiptsCoverWhatIsGone
    OBVIOUS
  <2>1. IsFiniteSet(checkpoints)
    BY DEF AuditInv, PurgesInv
  <2>2. MapThenSumSet(LAMBDA c : c.deleted, checkpoints) = DeletedInAll(checkpoints)
    BY <2>1, ReceiptSum DEF DeletedInAll
  <2> QED BY <2>2 DEF ReceiptsCoverWhatIsGone, Covered
<1> QED BY <1>1, <1>2, CoveredSteps, AuditKept, PTL DEF AuditSpec

-----------------------------------------------------------------------------
(* The lock, and what is read under it. *)

\* Another process's work on the chain leaves what is read under the lock overtaken,
\* and this one's is kept out by the lock.
LEMMA LockSteps ==
  ASSUME AuditInv, LockInv, [AuditNext]_auditVars
  PROVE  LockInv'
<1> USE DEF AuditInv
<1> DEFINE Others(s) == \A t \in Sessions \ {s} : writer'[t] = writer[t]
<1>1. ASSUME NEW s \in Sessions, Stamp(s) PROVE LockInv'
  <2>1. Others(s) /\ writer'[s].pc = "stamped"
    BY <1>1, StampRow
  <2>2. UNCHANGED <<events, head, locked, changedBy>>
    BY <1>1 DEF Stamp
  <2> QED BY <2>1, <2>2 DEF LockInv, Holding, Purging
<1>2. ASSUME NEW s \in Sessions, Link(s) PROVE LockInv'
  <2>1. Others(s) /\ writer'[s].pc = "linked" /\ writer'[s].link = head
    BY <1>2, LinkRow
  <2>2. UNCHANGED <<events, head, changedBy>> /\ ProcessOf[s] \notin locked /\ locked' = locked \cup {ProcessOf[s]}
    BY <1>2 DEF Link, Lock
  <2> QED BY <2>1, <2>2 DEF LockInv, Holding, Purging
<1>3. ASSUME NEW s \in Sessions, Commit(s) PROVE LockInv'
  <2>1. Others(s) /\ writer'[s].pc = "committed" /\ writer[s].pc = "linked"
    BY <1>3, CommitRow
  <2>2. changedBy' = ProcessOf[s] /\ locked' = locked \ {ProcessOf[s]}
    BY <1>3 DEF Commit, Unlock
  <2>3. \A t \in Sessions :
          Holding(t)' =>
            t # s /\ Holding(t) /\ ProcessOf[t] # ProcessOf[s] /\ writer'[t] = writer[t]
    BY <2>1 DEF LockInv, Holding
  <2>4. \A t \in Sessions : Holding(t)' => changedBy' # ProcessOf[t] /\ ProcessOf[t] \in locked'
    BY <2>2, <2>3 DEF LockInv
  <2>5. \A t \in Sessions : Purging(t)' => writer'[t] = writer[t]
    BY <2>1 DEF Purging
  <2> QED BY <2>3, <2>4, <2>5 DEF LockInv, Holding, Purging
<1>4. ASSUME NEW s \in Sessions, Announce(s) PROVE LockInv'
  <2>1. writer' = [writer EXCEPT ![s] = Quiet]
    BY <1>4 DEF Announce
  <2>2. Others(s) /\ writer'[s].pc = "idle"
    BY <2>1, QuietRow
  <2>3. UNCHANGED <<events, head, locked, changedBy>>
    BY <1>4 DEF Announce
  <2> QED BY <2>2, <2>3 DEF LockInv, Holding, Purging
<1>5. ASSUME NEW s \in Sessions, NEW c \in 1..MaxDays, Choose(s, c) PROVE LockInv'
  <2>1. /\ Others(s) /\ writer'[s].pc = "chosen" /\ writer'[s].cutoff = c
        /\ writer'[s].chosen = {e \in events : e.at < c}
    BY <1>5, ChooseRow
  <2>2. UNCHANGED <<events, head, locked, changedBy>>
    BY <1>5 DEF Choose
  <2> QED BY <2>1, <2>2 DEF LockInv, Holding, Purging
<1>6. ASSUME NEW s \in Sessions, Survey(s) PROVE LockInv'
  <2>1. /\ Others(s) /\ writer'[s].pc = "cutting" /\ writer'[s].cutoff = writer[s].cutoff
        /\ writer'[s].chosen = writer[s].chosen /\ writer[s].pc = "chosen"
        /\ writer'[s].left = {e \in events : e.at >= writer[s].cutoff}
    BY <1>6, SurveyRow
  <2>2. UNCHANGED <<events, head, changedBy>> /\ ProcessOf[s] \notin locked /\ locked' = locked \cup {ProcessOf[s]}
    BY <1>6 DEF Survey, Lock
  <2> QED BY <2>1, <2>2 DEF LockInv, Holding, Purging
<1>7. ASSUME NEW s \in Sessions, Cut(s) PROVE LockInv'
  <2>0. writer' = [writer EXCEPT ![s] = Quiet]
    BY <1>7 DEF Cut
  <2>1. Others(s) /\ writer'[s].pc = "idle"
    BY <2>0, QuietRow
  <2>2. changedBy' = ProcessOf[s] /\ locked' = locked \ {ProcessOf[s]} /\ writer[s].pc = "cutting"
    BY <1>7 DEF Cut, Unlock
  <2>3. \A t \in Sessions :
          Holding(t)' =>
            t # s /\ Holding(t) /\ ProcessOf[t] # ProcessOf[s] /\ writer'[t] = writer[t]
    BY <2>1, <2>2 DEF LockInv, Holding
  <2>4. \A t \in Sessions : Holding(t)' => changedBy' # ProcessOf[t] /\ ProcessOf[t] \in locked'
    BY <2>2, <2>3 DEF LockInv
  <2>5. \A t \in Sessions : Purging(t)' => writer'[t] = writer[t]
    BY <2>1 DEF Purging
  <2> QED BY <2>3, <2>4, <2>5 DEF LockInv, Holding, Purging
<1>8. ASSUME NextDay \/ UNCHANGED auditVars PROVE LockInv'
  BY <1>8 DEF NextDay, auditVars, LockInv, Holding, Purging
<1>9. ASSUME NEW p \in Processes, Stop(p) PROVE LockInv'
  <2>1. UNCHANGED <<events, head, changedBy>> /\ locked' = locked \ {p}
    BY <1>9 DEF Stop
  <2>2. \A t \in Sessions : Holding(t)' \/ Purging(t)' => ProcessOf[t] # p /\ writer'[t] = writer[t]
    BY <1>9, StopRow, QuietIs DEF Holding, Purging
  <2>3. \A t \in Sessions : (Holding(t)' => Holding(t)) /\ (Purging(t)' => Purging(t))
    BY <2>2 DEF Holding, Purging
  <2> QED BY <2>1, <2>2, <2>3 DEF LockInv, Holding, Purging
<1> QED BY <1>1, <1>2, <1>3, <1>4, <1>5, <1>6, <1>7, <1>8, <1>9 DEF AuditNext

-----------------------------------------------------------------------------
(* The chain. *)

LEMMA FirstChain ==
  ASSUME AuditInit
  PROVE  LockInv /\ ChainInv
<1>1. checkpoints = {} /\ writer = [s \in Sessions |-> Quiet] /\ locked = {}
  BY DEF AuditInit
<1>2. \A s \in Sessions : writer[s].pc = "idle"
  BY <1>1, QuietIs
<1>3. LockInv
  BY <1>2 DEF LockInv, Holding, Purging
<1>4. "fork" \notin mishaps
  BY FirstEvent
<1>5. ForkInv
  BY <1>2, <1>4 DEF ForkInv
<1>6. ASSUME mishaps = {} PROVE Chain
  <2>1. CASE events = {}
    BY <2>1, FirstEvent DEF Chain
  <2>2. CASE events # {}
    <3>1. PICK e \in events :
            /\ e \in EventRow /\ events = {e} /\ head = e.hash /\ e.id = 1 /\ e.row = 1
            /\ e.prev = NoHash
            /\ EntryHash(e.prev, e.id, e.algo) = e.hash
      BY <2>2, <1>6, FirstEvent
    <3>2. e.hash # NoHash
      BY <3>1, HashOf
    <3> QED BY <3>1, <3>2 DEF Chain, Oldest
  <2> QED BY <2>1, <2>2
<1> QED BY <1>3, <1>5, <1>6 DEF ChainInv

\* An event that is linked to the head goes on top.
LEMMA CommitChain ==
  ASSUME AuditInv, LockInv, Chain, NEW s \in Sessions, Commit(s), mishaps' = {}
  PROVE  Chain'
<1> USE DEF AuditInv
<1>1. PICK n : n = NewEvent(writer[s])
  OBVIOUS
<1>2. events' = events \cup {n} /\ head' = n.hash /\ checkpoints' = checkpoints /\ writer[s].pc = "linked"
  BY <1>1 DEF Commit
<1>3. writer[s].link = head \/ changedBy = ProcessOf[s]
  BY DEF Commit
<1>4. writer[s].link = head
  BY <1>2, <1>3 DEF LockInv
<1>5. /\ n.prev = head /\ n.algo = Keyed /\ n.hash = EntryHash(n.prev, n.id, n.algo)
      /\ n.row = Cardinality(written) + 1 /\ n.id \in 1..ids /\ n.id \notin written
  BY <1>1, <1>2, <1>4, NewEventIs
<1>6. \A f \in events : ~(f.at > n.at) /\ f.at \in Nat /\ n.at \in Nat
  <2>1. \A f \in events : ~(f.at > writer[s].at)
    BY DEF Commit
  <2>2. n.at = writer[s].at /\ n \in EventRow
    BY <1>1, <1>2, NewEventIs
  <2> QED BY <2>1, <2>2, EventHas, AuditBounds DEF AuditShape
<1>7. \A f \in events :
        f.row < n.row /\ f.row \in Nat /\ f.id \in written /\ f.id \in Nat /\ f.id # 0
  BY <1>5, WrittenFinite, EventHas DEF IdsInv, AuditShape
<1>8. n.row \in Nat /\ n \notin events
  BY <1>5, <1>7, WrittenFinite
<1>9. n.hash.of = n.id /\ \A f \in events : f.hash.of = f.id
  BY <1>5, HashOf DEF Chain
<1>10. n.hash # head /\ n.hash # NoHash /\ \A f \in events : f.hash # n.hash
  BY <1>5, <1>7, <1>9, HashOf, Hours DEF Chain
<1>11. \A f \in events : f.prev # head
  <2> SUFFICES ASSUME NEW f \in events, f.prev = head PROVE FALSE
    OBVIOUS
  <2>1. PICK h \in events : h.hash = head /\ \A e \in events : e.row <= h.row
    BY DEF Chain
  <2>2. h.row < f.row /\ f.row <= h.row
    BY <2>1 DEF Chain
  <2> QED BY <2>2, <1>7
<1>12. \A f \in events : f.prev # n.hash
  BY <1>5, <1>9, <1>10 DEF Chain
<1>13. \A f \in events : f.hash = head => \A e \in events : e.row <= f.row
  <2> SUFFICES ASSUME NEW f \in events, f.hash = head PROVE \A e \in events : e.row <= f.row
    OBVIOUS
  <2>1. PICK h \in events : h.hash = head /\ \A e \in events : e.row <= h.row
    BY DEF Chain
  <2>2. h.id = f.id
    BY <1>9, <2>1
  <2> QED BY <2>1, <2>2 DEF IdsInv
<1>14. events' # {} /\ n \in events' /\ \A e \in events' : e.row <= n.row
  BY <1>2, <1>7, <1>8
<1>15. \A e \in events' : EntryHash(e.prev, e.id, e.algo) = e.hash
  BY <1>2, <1>5 DEF Chain
<1>16. \A e \in events' : e.algo = Legacy => e.prev = NoHash
  BY <1>2, <1>5 DEF Chain, Keyed, Legacy
<1>17. \A e, f \in events' : e.row < f.row => e.at <= f.at
  BY <1>2, <1>6, <1>7, <1>8 DEF Chain
<1>18. \A e, f \in events' : e.prev = f.prev => e = f
  BY <1>2, <1>5, <1>11 DEF Chain
<1>19. \A e, f \in events' : f.prev = e.hash =>
         e.row < f.row /\ \A g \in events' : g.row <= e.row \/ f.row <= g.row
  <2> SUFFICES ASSUME NEW e \in events', NEW f \in events', f.prev = e.hash
      PROVE  e.row < f.row /\ \A g \in events' : g.row <= e.row \/ f.row <= g.row
    OBVIOUS
  <2>1. e # n
    BY <1>2, <1>5, <1>10, <1>12
  <2>2. CASE f \in events
    <3>1. e.row < f.row /\ \A g \in events : g.row <= e.row \/ f.row <= g.row
      BY <1>2, <2>1, <2>2 DEF Chain
    <3>2. f.row <= n.row
      BY <1>7, <1>8, <2>2
    <3> QED BY <3>1, <3>2, <1>2
  <2>3. CASE f = n
    <3>1. e \in events /\ e.hash = head
      BY <1>2, <1>5, <2>1, <2>3
    <3>2. \A g \in events : g.row <= e.row
      BY <3>1, <1>13
    <3> QED BY <3>1, <3>2, <2>3, <1>2, <1>7, <1>8
  <2> QED BY <1>2, <2>2, <2>3
<1>20. \A e \in events' : e.hash = head' \/ \E f \in events' : f.prev = e.hash
  BY <1>2, <1>5 DEF Chain
<1>21. \A e \in events : Oldest(e)' <=> Oldest(e)
  BY <1>2, <1>7, <1>8 DEF Oldest
<1>22. events = {} \/ ~Oldest(n)'
  BY <1>2, <1>7, <1>8 DEF Oldest
<1>23. \A e \in events' : Oldest(e)' \/ \E f \in events' : e.prev = f.hash
  <2>1. \A e \in events : Oldest(e)' \/ \E f \in events' : e.prev = f.hash
    BY <1>2, <1>21 DEF Chain
  <2>2. events = {} => Oldest(n)'
    BY <1>2, <1>8 DEF Oldest
  <2>3. events # {} => \E f \in events' : n.prev = f.hash
    BY <1>2, <1>5 DEF Chain
  <2> QED BY <1>2, <2>1, <2>2, <2>3
<1>24. \A e \in events' : Oldest(e)' => e.prev = NoHash \/ GapIsExplained(e)'
  <2>1. \A e \in events : Oldest(e)' => e.prev = NoHash \/ GapIsExplained(e)'
    BY <1>2, <1>21 DEF Chain, GapIsExplained
  <2>2. Oldest(n)' => n.prev = NoHash
    BY <1>5, <1>22 DEF Chain
  <2> QED BY <1>2, <2>1, <2>2
<1>25. \A e \in events' : e.prev = NoHash \/ e.prev.of \in written'
  <2>1. written \subseteq written'
    BY DEF Commit
  <2>2. events # {} => head.of \in written
    BY <1>7, <1>9 DEF Chain
  <2>3. head = NoHash \/ head.of \in written
    BY <2>2 DEF Chain
  <2> QED BY <1>2, <1>5, <2>1, <2>3 DEF Chain
<1>26. \E h \in events' : h.hash = head' /\ \A e \in events' : e.row <= h.row
  BY <1>2, <1>14
<1> QED BY <1>14, <1>15, <1>16, <1>17, <1>18, <1>19, <1>20, <1>23, <1>24, <1>25, <1>26 DEF Chain

\* What is left of a chain after a purge is the end of it, and the receipt says after what.
LEMMA CutChain ==
  ASSUME AuditInv, LockInv, Chain, NEW s \in Sessions, Cut(s), mishaps' = {}
  PROVE  Chain'
<1> USE DEF AuditInv
<1>1. PICK w : w = writer[s]
  OBVIOUS
<1>2. /\ w.pc = "cutting" /\ events' = events \ w.chosen /\ written' = written
      /\ head' = IF w.left = {} THEN NoHash ELSE head
      /\ checkpoints' = checkpoints \cup {Receipt(w)}
  BY <1>1 DEF Cut
<1>3. ~ \E e \in events \ w.chosen : e.at < w.cutoff
  BY <1>1 DEF Cut
<1>4. w.left = {e \in events : e.at >= w.cutoff} \/ changedBy = ProcessOf[s]
  BY <1>1 DEF Cut
<1>5. w.left = {e \in events : e.at >= w.cutoff}
  BY <1>1, <1>2, <1>4 DEF LockInv
<1>6. \A e \in w.chosen : e.at < w.cutoff
  BY <1>1, <1>2 DEF LockInv, Purging
<1>7. \A e \in events : e.at \in Nat /\ e.row \in Nat
  BY EventHas, AuditBounds DEF AuditShape
<1>8. w.cutoff \in Nat /\ w.left \in SUBSET EventRow
  BY <1>1, RowHas, AuditBounds DEF AuditShape
<1>9. events' = w.left /\ events' \in SUBSET events /\ \A e \in events :
                                                         e \in events' <=> e.at >= w.cutoff
  BY <1>2, <1>3, <1>5, <1>6, <1>7, <1>8
<1>10. \A e \in events', f \in events : e.row <= f.row => f \in events'
  <2> SUFFICES ASSUME NEW e \in events', NEW f \in events, e.row <= f.row PROVE f \in events'
    OBVIOUS
  <2>1. e.row = f.row => e = f
    BY <1>9 DEF IdsInv
  <2>2. e.row < f.row => e.at <= f.at
    BY <1>9 DEF Chain
  <2>3. e.at >= w.cutoff
    BY <1>9
  <2> QED BY <1>7, <1>8, <1>9, <2>1, <2>2, <2>3
<1>11. events' # {} => head' = head
  BY <1>2, <1>9
<1>12. events' = {} => head' = NoHash
  BY <1>2, <1>9
<1>13. \A e \in events' : e.hash = head' \/ \E f \in events' : f.prev = e.hash
  <2> SUFFICES ASSUME NEW e \in events', e.hash # head' PROVE \E f \in events' : f.prev = e.hash
    OBVIOUS
  <2>1. PICK f \in events : f.prev = e.hash
    BY <1>9, <1>11 DEF Chain
  <2>2. e.row < f.row
    BY <1>9, <2>1 DEF Chain
  <2> QED BY <1>7, <1>9, <1>10, <2>1, <2>2
<1>14. events' # {} => \E h \in events' : h.hash = head' /\ \A e \in events' : e.row <= h.row
  <2> SUFFICES ASSUME events' # {}
               PROVE  \E h \in events' : h.hash = head' /\ \A e \in events' : e.row <= h.row
    OBVIOUS
  <2>1. PICK h \in events : h.hash = head /\ \A e \in events : e.row <= h.row
    BY <1>9 DEF Chain
  <2> QED BY <1>9, <1>10, <1>11, <2>1
<1>15. \A e \in events' : Oldest(e)' \/ \E f \in events' : e.prev = f.hash
  <2> SUFFICES ASSUME NEW e \in events', ~Oldest(e)' PROVE \E f \in events' : e.prev = f.hash
    OBVIOUS
  <2>1. PICK m \in events' : ~(e.row <= m.row)
    BY DEF Oldest
  <2>2. m.row < e.row
    BY <1>7, <1>9, <2>1
  <2>3. ~Oldest(e)
    BY <1>9, <2>1 DEF Oldest
  <2>4. PICK f \in events : e.prev = f.hash
    BY <1>9, <2>3 DEF Chain
  <2>5. m.row <= f.row \/ e.row <= m.row
    BY <1>9, <2>4 DEF Chain
  <2> QED BY <1>7, <1>9, <1>10, <2>1, <2>4, <2>5
<1>16. ASSUME NEW e \in events', Oldest(e)' PROVE GapIsExplained(e)'
  <2>1. PICK m : m = Earliest(w.left)
    OBVIOUS
  <2>2. m \in w.left /\ \A f \in w.left : m.at < f.at \/ (m.at = f.at /\ m.row <= f.row)
    BY <1>8, <1>9, <2>1, EarliestIs
  <2>3. e.row <= m.row
    BY <1>9, <1>16, <2>2 DEF Oldest
  <2>4. e.row < m.row => e.at <= m.at
    BY <1>9, <2>2 DEF Chain
  <2>5. e = m
    <3>1. CASE e.row = m.row
      BY <3>1, <1>9, <2>2 DEF IdsInv
    <3>2. CASE e.row < m.row
      BY <3>2, <1>7, <1>9, <2>2, <2>4
    <3> QED BY <1>7, <1>9, <2>2, <2>3, <3>1, <3>2
  <2>6. Receipt(w).cut_to = e.prev
    BY <1>9, <2>1, <2>5 DEF Receipt
  <2> QED BY <1>2, <2>6 DEF GapIsExplained
<1>17. /\ \A e \in events' : EntryHash(e.prev, e.id, e.algo) = e.hash
       /\ \A e \in events' : e.algo = Legacy => e.prev = NoHash
       /\ \A e, f \in events' : e.row < f.row => e.at <= f.at
       /\ \A e, f \in events' : e.prev = f.prev => e = f
       /\ \A e \in events' : e.prev = NoHash \/ e.prev.of \in written'
  BY <1>2, <1>9 DEF Chain
<1>18. \A e, f \in events' : f.prev = e.hash =>
         e.row < f.row /\ \A g \in events' : g.row <= e.row \/ f.row <= g.row
  BY <1>9 DEF Chain
<1> QED BY <1>12, <1>13, <1>14, <1>15, <1>16, <1>17, <1>18 DEF Chain

\* A head that was moved under a session's hands is there as somebody else's link.
LEMMA ForkSteps ==
  ASSUME AuditInv, LockInv, ForkInv, [AuditNext]_auditVars
  PROVE  ForkInv'
<1> USE DEF AuditInv
<1>1. ASSUME NEW s \in Sessions, Commit(s) PROVE ForkInv'
  <2> SUFFICES ASSUME checkpoints' = {}
      PROVE  /\ "fork" \in mishaps' => Forked'
             /\ \A t \in Sessions : writer'[t].pc = "linked" =>
                  \/ writer'[t].link = head' \/ "fork" \in mishaps'
                  \/ \E e \in events' : e.prev = writer'[t].link
    BY DEF ForkInv
  <2>1. PICK n : n = NewEvent(writer[s])
    OBVIOUS
  <2>2. /\ events' = events \cup {n} /\ head' = n.hash /\ checkpoints = {}
        /\ writer[s].pc = "linked"
        /\ mishaps \subseteq mishaps'
    BY <1>1, <2>1 DEF Commit
  <2>3. n.prev = writer[s].link /\ n \notin events
    BY <2>1, <2>2, NewEventIs DEF IdsInv
  <2>4. \A t \in Sessions :
          writer'[t].pc = "linked" => writer[t].pc = "linked" /\ writer'[t] = writer[t]
    BY <1>1, CommitRow
  <2>5. writer[s].link # head => "fork" \in mishaps'
    BY <1>1, <2>2 DEF Commit, LockInv
  <2>6. "fork" \in mishaps' => "fork" \in mishaps \/ writer[s].link # head
    BY <1>1 DEF Commit
  <2>7. "fork" \in mishaps => Forked'
    BY <2>2 DEF ForkInv, Forked
  <2>8. writer[s].link # head => Forked' \/ "fork" \in mishaps
    BY <2>2, <2>3 DEF ForkInv, Forked
  <2>9. ASSUME NEW t \in Sessions, writer'[t].pc = "linked"
        PROVE  \/ writer'[t].link = head' \/ "fork" \in mishaps'
               \/ \E e \in events' : e.prev = writer'[t].link
    <3>1. \/ writer[t].link = head \/ "fork" \in mishaps
          \/ \E e \in events : e.prev = writer[t].link
      BY <2>2, <2>4, <2>9 DEF ForkInv
    <3>2. writer[t].link = head => "fork" \in mishaps' \/ n.prev = writer[t].link
      BY <2>3, <2>5
    <3> QED BY <2>2, <2>4, <2>9, <3>1, <3>2
  <2> QED BY <2>6, <2>7, <2>8, <2>9
<1>2. ASSUME NEW s \in Sessions, Cut(s) PROVE ForkInv'
  BY <1>2 DEF Cut, ForkInv
<1>3. ASSUME NEW s \in Sessions, Link(s) PROVE ForkInv'
  <2>1. UNCHANGED <<events, head, checkpoints, mishaps>>
    BY <1>3 DEF Link
  <2>2. \A t \in Sessions \ {s} : writer'[t] = writer[t]
    BY <1>3, LinkRow
  <2>3. writer'[s].link = head
    BY <1>3, LinkRow
  <2> QED BY <2>1, <2>2, <2>3 DEF ForkInv, Forked
<1>4. ASSUME UNCHANGED <<events, head, checkpoints, mishaps>>,
             \A t \in Sessions : writer'[t].pc = "linked" => writer'[t] = writer[t]
      PROVE  ForkInv'
  BY <1>4 DEF ForkInv, Forked
<1>5. ASSUME NEW s \in Sessions, Stamp(s) PROVE ForkInv'
  BY <1>4, <1>5, StampRow DEF Stamp
<1>6. ASSUME NEW s \in Sessions, Announce(s) PROVE ForkInv'
  BY <1>4, <1>6, QuietRow DEF Announce
<1>7. ASSUME NEW s \in Sessions, NEW c \in 1..MaxDays, Choose(s, c) PROVE ForkInv'
  BY <1>4, <1>7, ChooseRow DEF Choose
<1>8. ASSUME NEW s \in Sessions, Survey(s) PROVE ForkInv'
  BY <1>4, <1>8, SurveyRow DEF Survey
<1>9. ASSUME NEW p \in Processes, Stop(p) PROVE ForkInv'
  <2>1. \A t \in Sessions : writer'[t].pc = "linked" => writer'[t] = writer[t]
    BY <1>9, StopRow, QuietIs
  <2> QED BY <1>4, <1>9, <2>1 DEF Stop
<1>10. ASSUME NextDay \/ UNCHANGED auditVars PROVE ForkInv'
  BY <1>4, <1>10 DEF NextDay, auditVars
<1> QED BY <1>1, <1>2, <1>3, <1>5, <1>6, <1>7, <1>8, <1>9, <1>10 DEF AuditNext

LEMMA ChainSteps ==
  ASSUME AuditInv, LockInv, ChainInv, [AuditNext]_auditVars
  PROVE  ChainInv'
<1>1. ForkInv'
  BY ForkSteps DEF ChainInv
<1>2. ASSUME mishaps' = {} PROVE Chain'
  <2>1. ASSUME NEW s \in Sessions, Commit(s) PROVE Chain'
    <3>1. mishaps = {}
      BY <1>2, <2>1 DEF Commit
    <3> QED BY <1>2, <2>1, <3>1, CommitChain DEF ChainInv
  <2>2. ASSUME NEW s \in Sessions, Cut(s) PROVE Chain'
    <3>1. mishaps = {}
      BY <1>2, <2>2 DEF Cut
    <3> QED BY <1>2, <2>2, <3>1, CutChain DEF ChainInv
  <2>3. ASSUME UNCHANGED <<events, head, checkpoints, mishaps, written>> PROVE Chain'
    BY <1>2, <2>3 DEF ChainInv, Chain, Oldest, GapIsExplained
  <2>4. ASSUME NEW s \in Sessions,
               Stamp(s) \/ Link(s) \/ Announce(s) \/ Survey(s) \/ \E c \in 1..MaxDays : Choose(s, c)
        PROVE  UNCHANGED <<events, head, checkpoints, mishaps, written>>
    BY <2>4 DEF Stamp, Link, Announce, Survey, Choose
  <2>5. ASSUME NextDay \/ (\E p \in Processes : Stop(p)) \/ UNCHANGED auditVars
        PROVE  UNCHANGED <<events, head, checkpoints, mishaps, written>>
    BY <2>5 DEF NextDay, Stop, auditVars
  <2> QED BY <2>1, <2>2, <2>3, <2>4, <2>5 DEF AuditNext
<1> QED BY <1>1, <1>2 DEF ChainInv

\* Such a chain verifies.
LEMMA ChainIsOk ==
  ASSUME AuditInv, Chain
  PROVE  VerifyOk
<1> USE DEF AuditInv
<1>1. CASE events = {}
  BY <1>1 DEF VerifyOk, Chain
<1>2. CASE events # {}
  <2>1. \A e \in events : e.row \in Nat /\ e.id # 0
    BY EventHas, AuditBounds DEF AuditShape
  <2>2. PICK m \in events : Oldest(m)
    <3> DEFINE nos == {e.row : e \in events}
    <3>1. nos \in SUBSET Nat /\ nos # {}
      BY <1>2, <2>1
    <3>2. PICK n \in nos : \A k \in nos : n <= k
      BY <3>1, SmallestNat
    <3> QED BY <3>2 DEF Oldest
  <2>3. \A e \in events : Oldest(e) => e = m
    BY <2>1, <2>2 DEF Oldest, IdsInv
  <2>4. m \in Starts
    <3> SUFFICES ASSUME NEW f \in events, m.prev = f.hash PROVE FALSE
      BY DEF Starts, Entries
    <3>1. f.row < m.row
      BY DEF Chain
    <3> QED BY <2>1, <2>2, <3>1 DEF Oldest
  <2>5. Starts = {m}
    BY <2>3, <2>4 DEF Starts, Entries, Chain
  <2>6. Cardinality(Starts) = 1
    BY <2>5, FS_Singleton
  <2>7. \A e \in Starts : e.prev = NoHash \/ GapIsExplained(e)
    BY <2>2, <2>5 DEF Chain
  <2>8. \A e \in events : e.hash # NoHash
    BY <2>1, HashOf DEF Chain
  <2>9. \A e, f \in events : e.hash = f.prev /\ e.algo = Keyed => f.algo = Keyed
    <3>1. \A f \in events : f.algo \in {Keyed, Legacy}
      BY EventHas DEF AuditShape
    <3> QED BY <2>8, <3>1 DEF Chain
  <2>10. PICK h \in events : h.hash = head /\ \A e \in events : e.row <= h.row
    BY <1>2 DEF Chain
  <2>11. \A f \in events : f.prev # h.hash
    <3> SUFFICES ASSUME NEW f \in events, f.prev = h.hash PROVE FALSE
      OBVIOUS
    <3>1. h.row < f.row
      BY DEF Chain
    <3> QED BY <2>1, <2>10, <3>1
  <2>12. \A e \in events : (\A f \in events : f.prev # e.hash) => e.hash = head
    BY DEF Chain
  <2>13. LastHash = head
    <3>1. PICK e : e = CHOOSE x \in events : \A f \in events : f.prev # x.hash
      OBVIOUS
    <3>2. e \in events /\ \A f \in events : f.prev # e.hash
      BY <2>11, <3>1
    <3> QED BY <2>12, <3>1, <3>2 DEF LastHash
  <2>14. OneLine
    BY <2>6 DEF OneLine, Chain
  <2> QED BY <1>2, <2>7, <2>9, <2>13, <2>14 DEF VerifyOk, Chain
<1> QED BY <1>1, <1>2

(***************************************************************************)
(* The chain verifies after any appends, purges and crashes of any number  *)
(* of sessions and processes, unless one of the four things ChainVerifies  *)
(* names has happened; and a fork in a chain that was never purged makes   *)
(* it fail.                                                                *)
(***************************************************************************)
THEOREM TheChainVerifies == AuditSpec => []ChainVerifies
<1>1. AuditInv /\ ChainInv => ChainVerifies
  <2> SUFFICES ASSUME AuditInv, ChainInv PROVE ChainVerifies
    OBVIOUS
  <2>1. mishaps = {} => VerifyOk
    BY ChainIsOk DEF ChainInv
  <2>2. ASSUME "fork" \in mishaps, checkpoints = {} PROVE ~VerifyOk
    <3>1. Forked
      BY <2>2 DEF ChainInv, ForkInv
    <3> QED BY <3>1 DEF Forked, VerifyOk, OneLine
  <2> QED BY <2>1, <2>2 DEF ChainVerifies
<1>2. AuditInv /\ LockInv /\ ChainInv /\ [AuditNext]_auditVars => (LockInv /\ ChainInv)'
  BY LockSteps, ChainSteps
<1> QED BY <1>1, <1>2, FirstChain, AuditKept, PTL DEF AuditSpec
=============================================================================
