-------------------------- MODULE Derivations_proofs --------------------------
(***************************************************************************)
(* Proofs about what is computed from the tables: the reminders of a scan, *)
(* the service items of a contract, the views of a project and the stream  *)
(* of an export.  For any number of rows, rules, lines, pages and readers. *)
(***************************************************************************)
EXTENDS ProjectExport, SlaReminders, SplitRules, FiniteSetTheorems, TLAPS

-----------------------------------------------------------------------------
(* Numbers and finite sets *)

\* A set of natural numbers has a least one.
LEMMA LeastNatural ==
    ASSUME NEW T \in SUBSET Nat, T # {}
    PROVE  \E m \in T : \A n \in T : m <= n
  <1> DEFINE Less == {pair \in Nat \X Nat : pair[1] < pair[2]}
  <1>1. IsWellFoundedOn(Less, Nat)
    BY NatLessThanWellFounded DEF OpToRel
  <1>2. PICK m \in T : \A n \in T : <<n, m>> \notin Less
    <2> HIDE DEF Less
    <2> QED
      BY <1>1, WFMin
  <1>3. ASSUME NEW n \in T
        PROVE  m <= n
    <2>1. m \in Nat /\ n \in Nat
      OBVIOUS
    <2>2. ~(n < m)
      BY <1>2, <2>1, Zenon
    <2> QED
      BY <2>1, <2>2
  <1> QED
    BY <1>3

\* Min returns the least number of a set of natural numbers.
LEMMA MinOfNaturals ==
    ASSUME NEW T \in SUBSET Nat, T # {}
    PROVE  Min(T) \in T /\ \A n \in T : Min(T) <= n
  BY LeastNatural DEF Min

\* What holds of a set once it holds of every set with one element less holds of all subsets
\* of a finite set.
LEMMA SubsetInduction ==
    ASSUME NEW S, IsFiniteSet(S), NEW Good,
           \A s \in SUBSET S : (\A x \in s : s \ {x} \in Good) => s \in Good
    PROVE  \A s \in SUBSET S : s \in Good
  <1> SUFFICES ASSUME NEW bad \in SUBSET S, bad \notin Good
               PROVE  FALSE
    OBVIOUS
  <1> DEFINE Sizes == {Cardinality(s) : s \in (SUBSET S) \ Good}
  <1>1. \A s \in SUBSET S : IsFiniteSet(s) /\ Cardinality(s) \in Nat
    BY FS_Subset, FS_CardinalityType
  <1>2. PICK least \in Sizes : \A n \in Sizes : least <= n
    <2>1. Sizes \in SUBSET Nat /\ Sizes # {}
      BY <1>1
    <2> QED
      BY <2>1, LeastNatural
  <1>3. PICK s \in (SUBSET S) \ Good : Cardinality(s) = least
    BY <1>2
  <1>4. ASSUME NEW x \in s
        PROVE  s \ {x} \in Good
    <2>1. Cardinality(s \ {x}) = Cardinality(s) - 1
      BY <1>1, FS_RemoveElement
    <2>2. ~(Cardinality(s) <= Cardinality(s) - 1)
      BY <1>1
    <2>3. s \ {x} \in SUBSET S
      OBVIOUS
    <2> QED
      BY <1>2, <1>3, <2>1, <2>2, <2>3
  <1> QED
    BY <1>3, <1>4

-----------------------------------------------------------------------------
(* Sums *)

Pick(s) == CHOOSE x \in s : TRUE

\* The recursive function by which the sums of the community modules are defined.
Sums(sum, w, S) ==
    sum = [s \in SUBSET S |-> IF s = {} THEN 0 ELSE w[Pick(s)] + sum[s \ {Pick(s)}]]

\* It is one of the set.
LEMMA PickIsIn == \A s : s # {} => Pick(s) \in s
  BY DEF Pick

\* What the function is for a set.
LEMMA SumsUnfold ==
    ASSUME NEW S, NEW w, NEW sum, Sums(sum, w, S), NEW s \in SUBSET S
    PROVE  sum[s] = IF s = {} THEN 0 ELSE w[Pick(s)] + sum[s \ {Pick(s)}]
  <1> DEFINE Rec(t) == IF t = {} THEN 0 ELSE w[Pick(t)] + sum[t \ {Pick(t)}]
  <1>1. sum = [t \in SUBSET S |-> Rec(t)]
    BY DEF Sums
  <1>2. sum[s] = Rec(s)
    <2> HIDE DEF Rec
    <2> QED
      BY <1>1
  <1> QED
    BY <1>2

\* Two such functions agree where the summands do.
LEMMA SumsAgree ==
    ASSUME NEW A, NEW B, NEW v, NEW w, NEW a, NEW b, Sums(a, v, A), Sums(b, w, B),
           NEW S, IsFiniteSet(S), S \subseteq A, S \subseteq B, \A x \in S : v[x] = w[x]
    PROVE  a[S] = b[S]
  <1> DEFINE Good == {s \in SUBSET S : a[s] = b[s]}
  <1>1. ASSUME NEW s \in SUBSET S, \A x \in s : s \ {x} \in Good
        PROVE  s \in Good
    <2>1. /\ a[s] = IF s = {} THEN 0 ELSE v[Pick(s)] + a[s \ {Pick(s)}]
          /\ b[s] = IF s = {} THEN 0 ELSE w[Pick(s)] + b[s \ {Pick(s)}]
      <3>1. s \in SUBSET A /\ s \in SUBSET B
        OBVIOUS
      <3> QED
        BY <3>1, SumsUnfold
    <2>2. CASE s = {}
      BY <2>1, <2>2
    <2>3. CASE s # {}
      <3>1. Pick(s) \in s
        BY <2>3, PickIsIn
      <3>2. a[s \ {Pick(s)}] = b[s \ {Pick(s)}] /\ v[Pick(s)] = w[Pick(s)]
        BY <1>1, <3>1
      <3> QED
        BY <2>1, <2>3, <3>2
    <2> QED
      BY <2>2, <2>3
  <1>2. \A s \in SUBSET S : s \in Good
    <2> HIDE DEF Good
    <2> QED
      BY <1>1, SubsetInduction
  <1> QED
    BY <1>2

\* There is such a function for every finite set: it is put together from those for the sets
\* with one element less.
LEMMA SumsExist ==
    ASSUME NEW w, NEW S, IsFiniteSet(S)
    PROVE  \E sum : Sums(sum, w, S)
  <1> DEFINE Good == {s \in SUBSET S : \E sum : Sums(sum, w, s)}
  <1>1. ASSUME NEW s \in SUBSET S, \A x \in s : s \ {x} \in Good
        PROVE  s \in Good
    <2> DEFINE part(x) == CHOOSE sum : Sums(sum, w, s \ {x})
               sum == [t \in SUBSET s |->
                         IF t = {} THEN 0 ELSE w[Pick(t)] + part(Pick(t))[t \ {Pick(t)}]]
    <2>1. \A x \in s : Sums(part(x), w, s \ {x})
      BY <1>1
    <2>2. \A t \in SUBSET S : IsFiniteSet(t)
      BY FS_Subset
    <2>3. ASSUME NEW x \in s, NEW u \in SUBSET (s \ {x})
          PROVE  sum[u] = part(x)[u]
      <3>1. u \in SUBSET s /\ Sums(part(x), w, s \ {x})
        BY <2>1
      <3>2. /\ sum[u] = IF u = {} THEN 0 ELSE w[Pick(u)] + part(Pick(u))[u \ {Pick(u)}]
            /\ part(x)[u] = IF u = {} THEN 0 ELSE w[Pick(u)] + part(x)[u \ {Pick(u)}]
        <4>1. part(x)[u] = IF u = {} THEN 0 ELSE w[Pick(u)] + part(x)[u \ {Pick(u)}]
          <5> DEFINE it == part(x)
                     T == s \ {x}
          <5>1. Sums(it, w, T) /\ u \in SUBSET T
            BY <3>1
          <5> HIDE DEF it, T
          <5>2. it[u] = IF u = {} THEN 0 ELSE w[Pick(u)] + it[u \ {Pick(u)}]
            BY <5>1, SumsUnfold
          <5> QED
            BY <5>2 DEF it
        <4>2. sum[u] = IF u = {} THEN 0 ELSE w[Pick(u)] + part(Pick(u))[u \ {Pick(u)}]
          <5> DEFINE value(t) == IF t = {} THEN 0 ELSE w[Pick(t)] + part(Pick(t))[t \ {Pick(t)}]
          <5>1. sum = [t \in SUBSET s |-> value(t)]
            OBVIOUS
          <5> HIDE DEF part, sum, value
          <5>2. sum[u] = value(u)
            BY <3>1, <5>1
          <5> QED
            BY <5>2 DEF value
        <4> HIDE DEF part, sum
        <4> QED
          BY <4>1, <4>2
      <3>3. CASE u # {}
        <4>1. Pick(u) \in u /\ Pick(u) \in s
          BY <3>1, <3>3, PickIsIn
        <4>2. part(Pick(u))[u \ {Pick(u)}] = part(x)[u \ {Pick(u)}]
          <5>1. /\ Sums(part(Pick(u)), w, s \ {Pick(u)}) /\ Sums(part(x), w, s \ {x})
                /\ u \ {Pick(u)} \subseteq s \ {Pick(u)} /\ u \ {Pick(u)} \subseteq s \ {x}
                /\ IsFiniteSet(u \ {Pick(u)})
            BY <2>1, <2>2, <3>1, <4>1
          <5> HIDE DEF part
          <5> QED
            BY <5>1, SumsAgree
        <4> HIDE DEF sum, part
        <4> QED
          BY <3>2, <3>3, <4>2
      <3> HIDE DEF sum, part
      <3> QED
        BY <3>2, <3>3
    <2>4. ASSUME NEW t \in SUBSET s
          PROVE  sum[t] = IF t = {} THEN 0 ELSE w[Pick(t)] + sum[t \ {Pick(t)}]
      <3>1. sum[t] = IF t = {} THEN 0 ELSE w[Pick(t)] + part(Pick(t))[t \ {Pick(t)}]
        <4> HIDE DEF part
        <4> QED
          OBVIOUS
      <3>2. CASE t # {}
        <4>1. Pick(t) \in s /\ t \ {Pick(t)} \in SUBSET (s \ {Pick(t)})
          BY <3>2, PickIsIn
        <4>2. sum[t \ {Pick(t)}] = part(Pick(t))[t \ {Pick(t)}]
          BY <2>3, <4>1
        <4> HIDE DEF sum, part
        <4> QED
          BY <3>1, <3>2, <4>2
      <3> HIDE DEF sum, part
      <3> QED
        BY <3>1, <3>2
    <2>5. Sums(sum, w, s)
      <3>1. sum = [t \in SUBSET s |-> sum[t]]
        <4> HIDE DEF part
        <4> QED
          OBVIOUS
      <3> HIDE DEF sum
      <3> DEFINE Rec(t) == IF t = {} THEN 0 ELSE w[Pick(t)] + sum[t \ {Pick(t)}]
      <3>2. \A t \in SUBSET s : sum[t] = Rec(t)
        BY <2>4
      <3>3. [t \in SUBSET s |-> sum[t]] = [t \in SUBSET s |-> Rec(t)]
        <4> HIDE DEF Rec
        <4> QED
          BY <3>2
      <3> QED
        BY <3>1, <3>3 DEF Sums
    <2> HIDE DEF sum
    <2> QED
      BY <2>5
  <1>2. \A s \in SUBSET S : s \in Good
    <2> HIDE DEF Good
    <2> QED
      BY <1>1, SubsetInduction
  <1> QED
    BY <1>2

\* The sum over a set is the value of each such function.
LEMMA SumOverIs ==
    ASSUME NEW f, NEW S, IsFiniteSet(S), NEW A, S \subseteq A, NEW w, NEW sum, Sums(sum, w, A),
           \A x \in S : f[x] = w[x]
    PROVE  SumOver(f, S) = sum[S]
  <1> DEFINE own == CHOOSE it : Sums(it, f, S)
  <1>1. Sums(own, f, S)
    BY SumsExist
  <1>2. SumOver(f, S) = own[S]
    BY DEF SumOver, MapThenSumSet, MapThenFoldSet, Sums, Pick
  <1> HIDE DEF own
  <1> QED
    BY <1>1, <1>2, SumsAgree

\* Nothing adds up to nothing.
LEMMA SumOverNothing == \A f : SumOver(f, {}) = 0
  <1> SUFFICES ASSUME NEW f
               PROVE  SumOver(f, {}) = 0
    OBVIOUS
  <1>1. IsFiniteSet({}) /\ {} \in SUBSET {}
    BY FS_EmptySet
  <1>2. PICK sum : Sums(sum, f, {})
    BY <1>1, SumsExist
  <1>3. SumOver(f, {}) = sum[{}]
    BY <1>1, <1>2, SumOverIs
  <1>4. sum[{}] = 0
    BY <1>1, <1>2, SumsUnfold
  <1> QED
    BY <1>3, <1>4

\* The sum over other summands of the same values is the same.
LEMMA SumOverSame ==
    ASSUME NEW f, NEW g, NEW S, IsFiniteSet(S), \A x \in S : f[x] = g[x]
    PROVE  SumOver(f, S) = SumOver(g, S)
  <1>1. PICK sum : Sums(sum, g, S)
    BY SumsExist
  <1>2. S \subseteq S /\ \A x \in S : g[x] = g[x]
    OBVIOUS
  <1>3. SumOver(f, S) = sum[S]
    BY <1>1, <1>2, SumOverIs
  <1>4. SumOver(g, S) = sum[S]
    BY <1>1, <1>2, SumOverIs
  <1> QED
    BY <1>3, <1>4

\* The element that is picked comes first.
LEMMA SumOverPicked ==
    ASSUME NEW f, NEW S, IsFiniteSet(S), S # {}
    PROVE  SumOver(f, S) = f[Pick(S)] + SumOver(f, S \ {Pick(S)})
  <1> DEFINE rest == S \ {Pick(S)}
  <1>1. PICK sum : Sums(sum, f, S)
    BY SumsExist
  <1>2. IsFiniteSet(rest) /\ rest \subseteq S /\ S \in SUBSET S
    BY FS_Subset
  <1>3. sum[S] = f[Pick(S)] + sum[rest]
    BY <1>1, <1>2, SumsUnfold
  <1>4. SumOver(f, S) = sum[S]
    BY <1>1, <1>2, SumOverIs
  <1>5. SumOver(f, rest) = sum[rest]
    <2> HIDE DEF rest
    <2> QED
      BY <1>1, <1>2, SumOverIs
  <1> QED
    BY <1>3, <1>4, <1>5

\* A sum of natural numbers is one.
LEMMA SumOverIsNatural ==
    ASSUME NEW f, NEW S, IsFiniteSet(S), \A x \in S : f[x] \in Nat
    PROVE  SumOver(f, S) \in Nat
  <1> DEFINE Good == {s \in SUBSET S : SumOver(f, s) \in Nat}
  <1>1. ASSUME NEW s \in SUBSET S, \A x \in s : s \ {x} \in Good
        PROVE  s \in Good
    <2>1. CASE s = {}
      BY <2>1, SumOverNothing
    <2>2. CASE s # {}
      <3>1. Pick(s) \in s /\ IsFiniteSet(s) /\ f[Pick(s)] \in Nat
        BY <2>2, PickIsIn, FS_Subset
      <3>2. SumOver(f, s) = f[Pick(s)] + SumOver(f, s \ {Pick(s)})
        BY <2>2, <3>1, SumOverPicked
      <3>3. SumOver(f, s \ {Pick(s)}) \in Nat
        BY <1>1, <3>1
      <3> QED
        BY <3>1, <3>2, <3>3
    <2> QED
      BY <2>1, <2>2
  <1>2. \A s \in SUBSET S : s \in Good
    <2> HIDE DEF Good
    <2> QED
      BY <1>1, SubsetInduction
  <1> QED
    BY <1>2

\* Any element may be taken first, as the order does not matter.
LEMMA SumOverAdds ==
    ASSUME NEW f, NEW S, IsFiniteSet(S), \A x \in S : f[x] \in Nat
    PROVE  \A x \in S : SumOver(f, S) = f[x] + SumOver(f, S \ {x})
  <1> DEFINE Good == {s \in SUBSET S : \A x \in s : SumOver(f, s) = f[x] + SumOver(f, s \ {x})}
  <1>1. ASSUME NEW s \in SUBSET S, \A x \in s : s \ {x} \in Good
        PROVE  s \in Good
    <2> SUFFICES ASSUME NEW x \in s
                 PROVE  SumOver(f, s) = f[x] + SumOver(f, s \ {x})
      OBVIOUS
    <2> DEFINE y == Pick(s)
               both == (s \ {y}) \ {x}
    <2>1. y \in s /\ IsFiniteSet(s) /\ f[y] \in Nat /\ f[x] \in Nat
      BY PickIsIn, FS_Subset
    <2>2. SumOver(f, s) = f[y] + SumOver(f, s \ {y})
      BY <2>1, SumOverPicked
    <2> HIDE DEF y
    <2>3. ASSUME x # y
          PROVE  SumOver(f, s) = f[x] + SumOver(f, s \ {x})
      <3>1. both = (s \ {x}) \ {y} /\ x \in s \ {y} /\ y \in s \ {x}
        BY <2>1, <2>3
      <3>2. SumOver(f, s \ {y}) = f[x] + SumOver(f, both)
        BY <1>1, <2>1, <3>1
      <3>3. SumOver(f, s \ {x}) = f[y] + SumOver(f, both)
        BY <1>1, <2>1, <3>1
      <3>4. SumOver(f, both) \in Nat
        <4>1. both \subseteq s /\ IsFiniteSet(both)
          BY <2>1, FS_Subset
        <4> HIDE DEF both
        <4> QED
          BY <4>1, SumOverIsNatural
      <3>5. \A a, b, c \in Nat : a + (b + c) = b + (a + c)
        OBVIOUS
      <3> HIDE DEF both
      <3> QED
        BY <2>1, <2>2, <3>2, <3>3, <3>4, <3>5
    <2> QED
      BY <2>2, <2>3
  <1>2. \A s \in SUBSET S : s \in Good
    <2> HIDE DEF Good
    <2> QED
      BY <1>1, SubsetInduction
  <1> QED
    BY <1>2

\* The sum over two sets without a common element.
LEMMA SumOverBoth ==
    ASSUME NEW f, NEW S, NEW T, IsFiniteSet(S), IsFiniteSet(T), S \cap T = {},
           \A x \in S \cup T : f[x] \in Nat
    PROVE  SumOver(f, S \cup T) = SumOver(f, S) + SumOver(f, T)
  <1> DEFINE Good == {t \in SUBSET T : SumOver(f, S \cup t) = SumOver(f, S) + SumOver(f, t)}
  <1>1. ASSUME NEW t \in SUBSET T, \A x \in t : t \ {x} \in Good
        PROVE  t \in Good
    <2>1. CASE t = {}
      <3>1. S \cup t = S
        BY <2>1
      <3>2. SumOver(f, S) \in Nat /\ SumOver(f, t) = 0
        BY <2>1, SumOverIsNatural, SumOverNothing
      <3>3. SumOver(f, S) = SumOver(f, S) + 0
        BY <3>2
      <3> QED
        BY <3>1, <3>2, <3>3
    <2>2. ASSUME NEW x \in t
          PROVE  t \in Good
      <3>1. (S \cup t) \ {x} = S \cup (t \ {x}) /\ x \in S \cup t
        OBVIOUS
      <3>2. /\ IsFiniteSet(t) /\ IsFiniteSet(S \cup t) /\ IsFiniteSet(t \ {x})
            /\ \A y \in S \cup t : f[y] \in Nat
        BY FS_Subset, FS_Union
      <3>3. SumOver(f, S \cup t) = f[x] + SumOver(f, S \cup (t \ {x}))
        BY <3>1, <3>2, SumOverAdds
      <3>4. SumOver(f, t) = f[x] + SumOver(f, t \ {x})
        BY <3>2, SumOverAdds
      <3>5. SumOver(f, S \cup (t \ {x})) = SumOver(f, S) + SumOver(f, t \ {x})
        BY <1>1, <2>2
      <3>6. SumOver(f, S) \in Nat /\ SumOver(f, t \ {x}) \in Nat /\ f[x] \in Nat
        BY <3>2, SumOverIsNatural
      <3>7. \A a, b, c \in Nat : a + (b + c) = b + (a + c)
        OBVIOUS
      <3>8. SumOver(f, S \cup t) = SumOver(f, S) + SumOver(f, t)
        BY <3>3, <3>4, <3>5, <3>6, <3>7
      <3> QED
        BY <3>8
    <2> QED
      BY <2>1, <2>2
  <1>2. \A t \in SUBSET T : t \in Good
    <2> HIDE DEF Good
    <2> QED
      BY <1>1, SubsetInduction
  <1> QED
    BY <1>2

\* The sum over a part is at most the whole.
LEMMA SumOverPart ==
    ASSUME NEW f, NEW S, NEW T, IsFiniteSet(S), T \subseteq S, \A x \in S : f[x] \in Nat
    PROVE  SumOver(f, T) <= SumOver(f, S)
  <1>1. IsFiniteSet(T) /\ IsFiniteSet(S \ T) /\ T \cap (S \ T) = {} /\ T \cup (S \ T) = S
    BY FS_Subset
  <1>2. SumOver(f, S) = SumOver(f, T) + SumOver(f, S \ T)
    BY <1>1, SumOverBoth
  <1>3. SumOver(f, T) \in Nat /\ SumOver(f, S \ T) \in Nat
    BY <1>1, SumOverIsNatural
  <1> QED
    BY <1>2, <1>3

\* Summands of eight at most add up to eight times their number only where each is eight.
LEMMA SumOfRanks ==
    ASSUME NEW f, NEW S, IsFiniteSet(S), \A x \in S : f[x] \in 0..8
    PROVE  /\ SumOver(f, S) <= 8 * Cardinality(S)
           /\ SumOver(f, S) = 8 * Cardinality(S) <=> \A x \in S : f[x] = 8
  <1> DEFINE Good == {s \in SUBSET S :
                        /\ SumOver(f, s) <= 8 * Cardinality(s)
                        /\ SumOver(f, s) = 8 * Cardinality(s) <=> \A x \in s : f[x] = 8}
  <1>1. ASSUME NEW s \in SUBSET S, \A x \in s : s \ {x} \in Good
        PROVE  s \in Good
    <2>1. CASE s = {}
      <3>1. SumOver(f, s) = 0 /\ Cardinality(s) = 0
        BY <2>1, SumOverNothing, FS_EmptySet
      <3> QED
        BY <2>1, <3>1
    <2>2. ASSUME NEW x \in s
          PROVE  s \in Good
      <3>0. IsFiniteSet(s) /\ \A y \in s : f[y] \in Nat
        BY FS_Subset
      <3>1. /\ IsFiniteSet(s) /\ \A y \in s : f[y] \in Nat
            /\ IsFiniteSet(s \ {x}) /\ Cardinality(s) \in Nat
            /\ Cardinality(s \ {x}) = Cardinality(s) - 1 /\ Cardinality(s \ {x}) \in Nat
        <4>1. /\ IsFiniteSet(s \ {x})
              /\ Cardinality(s \ {x}) = IF x \in s THEN Cardinality(s) - 1 ELSE Cardinality(s)
          BY <3>0, FS_RemoveElement
        <4>2. Cardinality(s) \in Nat /\ Cardinality(s \ {x}) \in Nat
          BY <3>0, <4>1, FS_CardinalityType
        <4> QED
          BY <3>0, <4>1, <4>2
      <3>2. SumOver(f, s) = f[x] + SumOver(f, s \ {x}) /\ f[x] \in 0..8
        BY <3>1, SumOverAdds
      <3>3. /\ SumOver(f, s \ {x}) <= 8 * Cardinality(s \ {x})
            /\ SumOver(f, s \ {x}) = 8 * Cardinality(s \ {x}) <=> \A y \in s \ {x} : f[y] = 8
        BY <1>1
      <3>4. SumOver(f, s \ {x}) \in Nat
        BY <3>1, SumOverIsNatural
      <3>5. \A m, n \in Nat : \A r \in 0..8 : m <= 8 * (n - 1) =>
               /\ r + m <= 8 * n
               /\ r + m = 8 * n <=> r = 8 /\ m = 8 * (n - 1)
        OBVIOUS
      <3>6. /\ SumOver(f, s) <= 8 * Cardinality(s)
            /\ SumOver(f, s) = 8 * Cardinality(s)
                 <=> f[x] = 8 /\ SumOver(f, s \ {x}) = 8 * Cardinality(s \ {x})
        BY <3>1, <3>2, <3>3, <3>4, <3>5
      <3>7. (\A y \in s : f[y] = 8) <=> f[x] = 8 /\ \A y \in s \ {x} : f[y] = 8
        OBVIOUS
      <3>8. SumOver(f, s) = 8 * Cardinality(s) <=> \A y \in s : f[y] = 8
        BY <3>3, <3>6, <3>7
      <3> QED
        BY <3>6, <3>8
    <2> QED
      BY <2>1, <2>2
  <1>2. \A s \in SUBSET S : s \in Good
    <2> HIDE DEF Good
    <2> QED
      BY <1>1, SubsetInduction
  <1> QED
    BY <1>2

-----------------------------------------------------------------------------
(* Reminders: the inductive invariant *)

Breach == [item : BoardItems,
           kind : {"STATUS_OVERDUE", "STATUS_APPROACHING", "PLAN_END_OVERDUE"},
           dimension : {"STATUS", "REPORT", "PLAN"}, stage : SlaCatalog \cup {""}]

Draft == [by : Editors, rule : Rule, target : SUBSET Rules]

RulesTyped == rules \in [Rules -> Rule]

ReminderTypeOK ==
    /\ RulesTyped
    /\ scan \in [Scanners -> [running : BOOLEAN, day : Nat, todo : SUBSET Breach,
                              told : SUBSET Breach]]
    /\ \A r \in reminders : r.breach \in Breach
    /\ drafts \subseteq Draft
    /\ \A d \in drafts : \A m, n \in d.target : m = n

\* The unique key of pm_sla: of the enabled rules there is one for each stage.
StageHasOneRule ==
    \A m, n \in Kept : rules[m].enabled /\ rules[n].enabled /\ rules[m].status = rules[n].status
                         => m = n

\* A scan reads rules of different stages, so what is left and what is told differ in stage.
OneStage(breaches) ==
    \A b, c \in breaches : b.item = c.item /\ b.dimension = c.dimension /\ b.stage = c.stage
                             => b = c

StagesApart == \A s \in Scanners : OneStage(scan[s].todo \cup scan[s].told)

\* The key of a reminder is taken once.
KeyTakenOnce == \A q, r \in reminders :
    ReminderKey(q.breach, q.day) = ReminderKey(r.breach, r.day) => q = r

\* What a scan has told is queued.
ToldIsQueued == \A s \in Scanners : \A breach \in scan[s].told :
    \E r \in reminders : r.breach = breach /\ r.day = scan[s].day

ReminderInv == /\ ReminderTypeOK /\ StageHasOneRule /\ StagesApart
               /\ KeyTakenOnce /\ ToldIsQueued

ReminderState == ReminderInv /\ clock \in Nat

\* The key tells breaches apart.
LEMMA KeyNamesBreach ==
    \A b, c \in Breach : \A d, e : ReminderKey(b, d) = ReminderKey(c, e) => b = c /\ d = e
  <1> SUFFICES ASSUME NEW b \in Breach, NEW c \in Breach, NEW d, NEW e,
                      ReminderKey(b, d) = ReminderKey(c, e)
               PROVE  b = c /\ d = e
    OBVIOUS
  <1>1. /\ b.item = c.item /\ b.kind = c.kind /\ b.dimension = c.dimension
        /\ b.stage = c.stage /\ d = e
    BY DEF ReminderKey
  <1>2. /\ b = [item |-> b.item, kind |-> b.kind, dimension |-> b.dimension, stage |-> b.stage]
        /\ c = [item |-> c.item, kind |-> c.kind, dimension |-> c.dimension, stage |-> c.stage]
    BY DEF Breach
  <1> QED
    BY <1>1, <1>2

\* What a rule says of an item.
LEMMA RuleBreachIs ==
    ASSUME NEW i \in BoardItems, NEW rule \in Rule, RuleBreach(rows, i, rule, clock).kind # ""
    PROVE  /\ RuleBreach(rows, i, rule, clock) \in Breach
           /\ RuleBreach(rows, i, rule, clock).item = i
           /\ RuleBreach(rows, i, rule, clock).stage = rule.status
           /\ RuleBreach(rows, i, rule, clock).dimension # "PLAN"
  <1>1. rule.status \in SlaCatalog
    BY DEF Rule
  <1>2. BreachKind(rule, RuleSince(rows[i], rule), clock)
          \in {"STATUS_OVERDUE", "STATUS_APPROACHING", ""}
    BY DEF BreachKind
  <1> QED
    BY <1>1, <1>2 DEF RuleBreach, Breach

\* The breaches a scan starts with are of different stages.
LEMMA FoundApart ==
    ASSUME ReminderInv
    PROVE  SlaItems(rows, rules, clock) \subseteq Breach /\ OneStage(SlaItems(rows, rules, clock))
  <1> DEFINE plans == {PlanBreach(i) : i \in {j \in Candidates(rows) : PlanOverdue(rows[j], clock)}}
             byRule == {b \in {RuleBreach(rows, c[1], c[2], clock) :
                                 c \in {d \in Candidates(rows) \X Enabled(rules) :
                                          RuleMatches(rows[d[1]], d[2])}} : b.kind # ""}
  <1>1. SlaItems(rows, rules, clock) = plans \cup byRule
    BY DEF SlaItems
  <1>2. \A b \in plans : /\ b \in Breach /\ b.dimension = "PLAN"
                         /\ b = PlanBreach(b.item)
    <2>1. \A i \in BoardItems : /\ PlanBreach(i) \in Breach /\ PlanBreach(i).dimension = "PLAN"
                                /\ PlanBreach(i).item = i
      BY DEF PlanBreach, Breach
    <2> QED
      BY <2>1 DEF Candidates, LiveRows
  <1>3. ASSUME NEW b \in byRule
        PROVE  \E i \in BoardItems, rule \in Enabled(rules) :
                  /\ b = RuleBreach(rows, i, rule, clock) /\ rule \in Rule
                  /\ b \in Breach /\ b.item = i /\ b.stage = rule.status /\ b.dimension # "PLAN"
    <2>1. PICK i \in Candidates(rows), rule \in Enabled(rules) :
             b = RuleBreach(rows, i, rule, clock) /\ b.kind # ""
      <3>1. PICK c \in Candidates(rows) \X Enabled(rules) :
               b = RuleBreach(rows, c[1], c[2], clock) /\ b.kind # ""
        OBVIOUS
      <3> QED
        BY <3>1
    <2>2. i \in BoardItems /\ rule \in Rule
      <3>1. rules \in [Rules -> Rule] /\ \E m \in Rules : rule = rules[m]
        BY DEF Enabled, ReminderInv, ReminderTypeOK, RulesTyped
      <3> QED
        BY <3>1 DEF Candidates, LiveRows
    <2> QED
      BY <2>1, <2>2, RuleBreachIs
  <1>4. \A p, q \in Enabled(rules) : p.status = q.status => p = q
    BY DEF Enabled, ReminderInv, StageHasOneRule, Kept
  <1> HIDE DEF plans, byRule
  <1>5. ASSUME NEW b \in plans \cup byRule, NEW c \in plans \cup byRule,
               b.item = c.item, b.dimension = c.dimension, b.stage = c.stage
        PROVE  b = c
    <2>1. CASE b \in plans
      BY <1>2, <1>3, <1>5, <2>1
    <2>2. CASE b \in byRule
      <3>1. c \in byRule
        BY <1>2, <1>3, <1>5, <2>2
      <3> QED
        BY <1>3, <1>4, <1>5, <2>2, <3>1
    <2> QED
      BY <2>1, <2>2
  <1> QED
    BY <1>1, <1>2, <1>3, <1>5 DEF OneStage

\* The first table keeps the unique key, and nothing is scanned or queued.
LEMMA RemindersStart == ReminderInit => ReminderInv
  <1> SUFFICES ASSUME ReminderInit
               PROVE  ReminderInv
    OBVIOUS
  <1>1. rules \in [Rules -> Rule]
    BY BoardAssumption DEF ReminderInit, BoardInit
  <1>2. ReminderTypeOK
    BY <1>1 DEF ReminderInit, ReminderTypeOK, RulesTyped, Resting
  <1>3. StageHasOneRule
    BY DEF ReminderInit, StageHasOneRule, ActiveKeyFree
  <1>4. StagesApart /\ KeyTakenOnce /\ ToldIsQueued
    BY DEF ReminderInit, StagesApart, OneStage, KeyTakenOnce, ToldIsQueued, Resting
  <1> QED
    BY <1>2, <1>3, <1>4 DEF ReminderInv

\* Steps that leave scans and reminders alone and keep the rules in order.
LEMMA RulesChange ==
    ASSUME ReminderInv, UNCHANGED <<scan, reminders>>, rules' \in [Rules -> Rule],
           drafts' \subseteq Draft, \A d \in drafts' : \A m, n \in d.target : m = n,
           StageHasOneRule'
    PROVE  ReminderInv'
  BY DEF ReminderInv, ReminderTypeOK, RulesTyped, StagesApart, OneStage, KeyTakenOnce,
     ReminderKey, ToldIsQueued

\* A draft is of one rule.
LEMMA DraftMade ==
    ASSUME ReminderInv, NEW e \in Editors, NEW rule \in Rule, NEW target \in SUBSET Rules,
           \A m, n \in target : m = n, Drafted(e, rule, target)
    PROVE  ReminderInv'
  <1>1. [by |-> e, rule |-> rule, target |-> target] \in Draft
    BY DEF Draft
  <1>2. UNCHANGED <<scan, reminders, rules>> /\ rules \in [Rules -> Rule]
    BY DEF Drafted, boardVars, ReminderInv, ReminderTypeOK, RulesTyped
  <1>3. drafts' \subseteq Draft /\ \A d \in drafts' : \A m, n \in d.target : m = n
    BY <1>1 DEF Drafted, ReminderInv, ReminderTypeOK
  <1>4. StageHasOneRule'
    BY <1>2 DEF ReminderInv, StageHasOneRule, Kept
  <1> QED
    BY <1>2, <1>3, <1>4, RulesChange

\* The unique key is looked at with the write: no other enabled rule is of that stage.
LEMMA RuleWriteKept ==
    ASSUME ReminderInv, NEW d \in drafts, NEW n \in Rules,
           n \in d.target \/ d.target = {}, RuleWritten(d, n)
    PROVE  ReminderInv'
  <1>1. /\ d \in Draft /\ d.target \subseteq {n} /\ rules \in [Rules -> Rule]
        /\ UNCHANGED <<scan, reminders>>
    BY DEF ReminderInv, ReminderTypeOK, RulesTyped, RuleWritten
  <1>2. rules' = [rules EXCEPT ![n] = d.rule] /\ d.rule \in Rule
    BY <1>1 DEF RuleWritten, Draft
  <1>3. drafts' \subseteq Draft /\ \A e \in drafts' : \A m, k \in e.target : m = k
    BY DEF RuleWritten, ReminderInv, ReminderTypeOK
  <1>4. /\ rules'[n] = d.rule /\ \A m \in Rules \ {n} : rules'[m] = rules[m]
        /\ rules' \in [Rules -> Rule]
    BY <1>1, <1>2
  <1>5. d.rule.enabled =>
           \A m \in Kept \ {n} : ~(rules[m].enabled /\ rules[m].status = d.rule.status)
    BY <1>1 DEF RuleWritten, ActiveKeyFree
  <1>6. Kept' \ {n} = Kept \ {n}
    BY <1>4 DEF Kept
  <1>7. StageHasOneRule'
    BY <1>4, <1>5, <1>6 DEF ReminderInv, StageHasOneRule, Kept
  <1> QED
    BY <1>1, <1>3, <1>4, <1>7, RulesChange

\* A rule that is switched off or deleted is in nobody's way.
LEMMA RuleOffKept ==
    ASSUME ReminderInv, NEW n \in Rules, RuleSwitchedOff(n) \/ RuleDeleted(n)
    PROVE  ReminderInv'
  <1> DEFINE off == rules'[n]
  <1>1. rules \in [Rules -> Rule] /\ UNCHANGED <<scan, reminders, drafts>>
    BY DEF RuleSwitchedOff, RuleDeleted, ReminderInv, ReminderTypeOK, RulesTyped
  <1>2. [rules[n] EXCEPT !.enabled = FALSE] \in Rule
    BY <1>1 DEF Rule
  <1>3. Gone \in Rule
    BY DEF Gone, Rule, SlaCatalog, StatusRank
  <1>4. /\ rules' \in [Rules -> Rule] /\ ~rules'[n].enabled
        /\ \A m \in Rules \ {n} : rules'[m] = rules[m]
    <2>1. CASE RuleSwitchedOff(n)
      <3>1. rules' = [rules EXCEPT ![n] = [rules[n] EXCEPT !.enabled = FALSE]]
        BY <1>1, <2>1 DEF RuleSwitchedOff
      <3>2. [rules[n] EXCEPT !.enabled = FALSE].enabled = FALSE
        BY <1>1 DEF Rule
      <3> QED
        BY <1>1, <1>2, <3>1, <3>2
    <2>2. CASE RuleDeleted(n)
      <3>1. rules' = [rules EXCEPT ![n] = Gone] /\ Gone.enabled = FALSE
        BY <2>2 DEF RuleDeleted, Gone
      <3> QED
        BY <1>1, <1>3, <3>1
    <2> QED
      BY <2>1, <2>2
  <1>5. StageHasOneRule'
    BY <1>1, <1>4 DEF ReminderInv, StageHasOneRule, Kept
  <1> QED
    BY <1>1, <1>4, <1>5, RulesChange DEF ReminderInv, ReminderTypeOK

\* A scan that starts, passes over a breach or ends tells nothing new.
LEMMA ScanMoves ==
    ASSUME ReminderInv, NEW s \in Scanners, UNCHANGED <<rules, reminders, drafts>>,
           NEW next \in [running : BOOLEAN, day : Nat, todo : SUBSET Breach, told : SUBSET Breach],
           scan' = [scan EXCEPT ![s] = next], OneStage(next.todo \cup next.told),
           next.told = {} \/ (next.told = scan[s].told /\ next.day = scan[s].day)
    PROVE  ReminderInv'
  <1>1. scan'[s] = next /\ \A z \in Scanners \ {s} : scan'[z] = scan[z]
    BY DEF ReminderInv, ReminderTypeOK
  <1>2. ReminderTypeOK'
    BY DEF ReminderInv, ReminderTypeOK, RulesTyped
  <1>3. StageHasOneRule' /\ KeyTakenOnce'
    BY DEF ReminderInv, StageHasOneRule, Kept, KeyTakenOnce, ReminderKey
  <1>4. StagesApart'
    BY <1>1 DEF ReminderInv, StagesApart, OneStage
  <1>5. ToldIsQueued'
    BY <1>1 DEF ReminderInv, ToldIsQueued
  <1> QED
    BY <1>2, <1>3, <1>4, <1>5 DEF ReminderInv

\* A breach that is told is taken off the list, and is queued now or was before.
LEMMA RemindedKept ==
    ASSUME ReminderInv, NEW s \in Scanners, NEW breach \in scan[s].todo, Reminded(s, breach)
    PROVE  ReminderInv'
  <1> DEFINE day == scan[s].day
             next == [scan[s] EXCEPT !.todo = @ \ {breach}, !.told = @ \cup {breach}]
             new == [breach |-> breach, day |-> day, by |-> s]
             taken == \E r \in reminders : ReminderKey(r.breach, r.day) = ReminderKey(breach, day)
  <1>1. /\ scan[s] \in [running : BOOLEAN, day : Nat, todo : SUBSET Breach, told : SUBSET Breach]
        /\ breach \in Breach /\ \A r \in reminders : r.breach \in Breach
    BY DEF ReminderInv, ReminderTypeOK
  <1>2. /\ UNCHANGED <<rules, drafts>> /\ scan' = [scan EXCEPT ![s] = next]
        /\ reminders' = IF taken THEN reminders ELSE reminders \cup {new}
    BY DEF Reminded, boardVars
  <1>3. /\ next \in [running : BOOLEAN, day : Nat, todo : SUBSET Breach, told : SUBSET Breach]
        /\ next.todo \cup next.told = scan[s].todo \cup scan[s].told
        /\ next.told = scan[s].told \cup {breach} /\ next.day = day
    BY <1>1
  <1>4. new.breach = breach /\ new.day = day
    OBVIOUS
  <1> HIDE DEF next, new
  <1>5. /\ scan'[s] = next /\ \A z \in Scanners \ {s} : scan'[z] = scan[z]
        /\ scan' \in [Scanners -> [running : BOOLEAN, day : Nat, todo : SUBSET Breach,
                                   told : SUBSET Breach]]
    BY <1>2, <1>3 DEF ReminderInv, ReminderTypeOK
  <1>6. /\ reminders \subseteq reminders'
        /\ \A r \in reminders' : r \in reminders \/ (r = new /\ ~taken)
    BY <1>2
  <1>7. ReminderTypeOK'
    BY <1>1, <1>2, <1>4, <1>5, <1>6 DEF ReminderInv, ReminderTypeOK, RulesTyped
  <1>8. StageHasOneRule'
    BY <1>2 DEF ReminderInv, StageHasOneRule, Kept
  <1>9. StagesApart'
    BY <1>3, <1>5 DEF ReminderInv, StagesApart, OneStage
  <1>10. KeyTakenOnce'
    <2>1. \A r \in reminders :
             ~taken => ReminderKey(r.breach, r.day) # ReminderKey(new.breach, new.day)
      BY <1>4
    <2> HIDE DEF taken
    <2>2. \A q, r \in reminders' : ReminderKey(q.breach, q.day) = ReminderKey(r.breach, r.day)
                                  => q = r
      BY <1>6, <2>1 DEF ReminderInv, KeyTakenOnce
    <2> QED
      BY <2>2 DEF KeyTakenOnce, ReminderKey
  <1>11. \E r \in reminders' : r.breach = breach /\ r.day = day
    <2>1. CASE taken
      BY <1>1, <1>2, <2>1, KeyNamesBreach
    <2>2. CASE ~taken
      BY <1>2, <1>4, <2>2
    <2> QED
      BY <2>1, <2>2
  <1>12. ToldIsQueued'
    <2> SUFFICES ASSUME NEW z \in Scanners, NEW b \in scan'[z].told
                 PROVE  \E r \in reminders' : r.breach = b /\ r.day = scan'[z].day
      BY DEF ToldIsQueued
    <2>1. CASE z = s /\ b = breach
      BY <1>3, <1>5, <1>11, <2>1
    <2>2. CASE ~(z = s /\ b = breach)
      <3>1. b \in scan[z].told /\ scan'[z].day = scan[z].day
        BY <1>3, <1>5, <2>2
      <3> QED
        BY <1>6, <3>1 DEF ReminderInv, ToldIsQueued
    <2> QED
      BY <2>1, <2>2
  <1> QED
    BY <1>7, <1>8, <1>9, <1>10, <1>12 DEF ReminderInv

\* Scans keep the invariant.
LEMMA ScanningKept == ReminderInv /\ clock \in Nat /\ Scanning => ReminderInv'
  <1> SUFFICES ASSUME ReminderInv, clock \in Nat, NEW s \in Scanners,
                      \/ ScanStarted(s)
                      \/ \E breach \in scan[s].todo : PassedOver(s, breach)
                      \/ \E breach \in scan[s].todo : Reminded(s, breach)
                      \/ ScanEnded(s)
               PROVE  ReminderInv'
    BY DEF Scanning
  <1>1. scan[s] \in [running : BOOLEAN, day : Nat, todo : SUBSET Breach, told : SUBSET Breach]
    BY DEF ReminderInv, ReminderTypeOK
  <1>2. CASE ScanStarted(s)
    <2> DEFINE found == SlaItems(rows, rules, clock)
               next == [running |-> TRUE, day |-> BusinessDay(clock), todo |-> found, told |-> {}]
    <2>1. BusinessDay(clock) \in Nat
      BY DayAssumption DEF BusinessDay
    <2>2. found \subseteq Breach /\ OneStage(found \cup {})
      BY FoundApart DEF OneStage
    <2> HIDE DEF found
    <2>3. /\ next \in [running : BOOLEAN, day : Nat, todo : SUBSET Breach, told : SUBSET Breach]
          /\ next.todo \cup next.told = found \cup {} /\ next.told = {}
      BY <2>1, <2>2
    <2>4. scan' = [scan EXCEPT ![s] = next] /\ UNCHANGED <<rules, reminders, drafts>>
      BY <1>2 DEF ScanStarted, boardVars, found
    <2> HIDE DEF next
    <2> QED
      BY <2>2, <2>3, <2>4, ScanMoves
  <1>3. ASSUME NEW breach \in scan[s].todo, PassedOver(s, breach)
        PROVE  ReminderInv'
    <2> DEFINE next == [scan[s] EXCEPT !.todo = @ \ {breach}]
    <2>1. /\ next \in [running : BOOLEAN, day : Nat, todo : SUBSET Breach, told : SUBSET Breach]
          /\ next.todo \cup next.told \subseteq scan[s].todo \cup scan[s].told
          /\ next.told = scan[s].told /\ next.day = scan[s].day
      BY <1>1
    <2>2. scan' = [scan EXCEPT ![s] = next] /\ UNCHANGED <<rules, reminders, drafts>>
      BY <1>3 DEF PassedOver, boardVars
    <2>3. OneStage(next.todo \cup next.told)
      <3> HIDE DEF next
      <3> QED
        BY <2>1 DEF ReminderInv, StagesApart, OneStage
    <2> HIDE DEF next
    <2> QED
      BY <2>1, <2>2, <2>3, ScanMoves
  <1>4. CASE ScanEnded(s)
    <2>1. /\ Resting \in [running : BOOLEAN, day : Nat, todo : SUBSET Breach, told : SUBSET Breach]
          /\ Resting.told = {} /\ OneStage(Resting.todo \cup Resting.told)
      BY DEF Resting, OneStage
    <2>2. scan' = [scan EXCEPT ![s] = Resting] /\ UNCHANGED <<rules, reminders, drafts>>
      BY <1>4 DEF ScanEnded, boardVars
    <2> QED
      BY <2>1, <2>2, ScanMoves
  <1> QED
    BY <1>2, <1>3, <1>4, RemindedKept

\* The administration keeps it.
LEMMA AdministrationKept == ReminderInv /\ Administration => ReminderInv'
  <1> SUFFICES ASSUME ReminderInv, Administration
               PROVE  ReminderInv'
    OBVIOUS
  <1>1. rules \in [Rules -> Rule] /\ RuleForms \subseteq Rule
    BY BoardAssumption DEF ReminderInv, ReminderTypeOK, RulesTyped, RuleForms
  <1>2. ASSUME NEW e \in Editors, NewRuleChecked(e)
        PROVE  ReminderInv'
    BY <1>1, <1>2, DraftMade DEF NewRuleChecked
  <1>3. ASSUME NEW e \in Editors, ChangeChecked(e)
        PROVE  ReminderInv'
    <2>1. PICK n \in Rules, rule \in RuleForms : Drafted(e, rule, {n})
      BY <1>3 DEF ChangeChecked
    <2>2. rule \in Rule /\ {n} \in SUBSET Rules /\ \A m, k \in {n} : m = k
      BY <1>1
    <2> QED
      BY <2>1, <2>2, DraftMade
  <1>4. ASSUME NEW e \in Editors, EnablingChecked(e)
        PROVE  ReminderInv'
    <2>1. PICK n \in Kept : Drafted(e, [rules[n] EXCEPT !.enabled = TRUE], {n})
      BY <1>4 DEF EnablingChecked
    <2> DEFINE rule == [rules[n] EXCEPT !.enabled = TRUE]
    <2>2. n \in Rules /\ {n} \in SUBSET Rules /\ \A m, k \in {n} : m = k
      BY DEF Kept
    <2>3. rule \in Rule
      BY <1>1, <2>2 DEF Rule
    <2> HIDE DEF rule
    <2>4. Drafted(e, rule, {n})
      BY <2>1 DEF rule
    <2> QED
      BY <2>2, <2>3, <2>4, DraftMade
  <1>5. ASSUME NEW d \in drafts, RuleCreated(d) \/ RuleUpdated(d)
        PROVE  ReminderInv'
    <2>1. \E n \in Rules : (n \in d.target \/ d.target = {}) /\ RuleWritten(d, n)
      BY <1>5 DEF RuleCreated, RuleUpdated, Kept
    <2> QED
      BY <2>1, RuleWriteKept
  <1>6. ASSUME NEW d \in drafts, RuleRefused(d)
        PROVE  ReminderInv'
    <2>1. UNCHANGED <<rules, scan, reminders>> /\ drafts' \subseteq drafts
      BY <1>6 DEF RuleRefused, boardVars
    <2>2. StageHasOneRule'
      BY <2>1 DEF ReminderInv, StageHasOneRule, Kept
    <2> QED
      BY <1>1, <2>1, <2>2, RulesChange DEF ReminderInv, ReminderTypeOK
  <1> QED
    BY <1>2, <1>3, <1>4, <1>5, <1>6, RuleOffKept DEF Administration

\* The clock counts hours.
LEMMA ClockCounts == BoardInit => clock \in 0..Hours
  BY DEF BoardInit

\* Nothing that happens to the rows touches the rules.
LEMMA BoardLeavesRules == BoardNext => UNCHANGED rules /\ (clock' = clock \/ clock' = clock + 1)
  BY DEF BoardNext, ViewTaken, ViewLeft, RowsConfirmed, ItemStepped, StageAdvanced,
     ReportReworked, ReportCorrected, Noted, RowsReplaced, DriftRecorded, SupplementLeft, HourPasses

\* Every step keeps the invariant.
LEMMA RemindersKept ==
    ReminderInv /\ clock \in Nat /\ [ReminderNext]_reminderVars => ReminderInv' /\ clock' \in Nat
  <1> SUFFICES ASSUME ReminderInv, clock \in Nat, [ReminderNext]_reminderVars
               PROVE  ReminderInv' /\ clock' \in Nat
    OBVIOUS
  <1>1. CASE BoardNext /\ UNCHANGED <<scan, reminders, drafts>>
    <2>1. UNCHANGED <<rules, scan, reminders, drafts>> /\ clock' \in Nat
      BY <1>1, BoardLeavesRules
    <2>2. StageHasOneRule'
      BY <2>1 DEF ReminderInv, StageHasOneRule, Kept
    <2> QED
      BY <2>1, <2>2, RulesChange DEF ReminderInv, ReminderTypeOK, RulesTyped
  <1>2. CASE Administration
    BY <1>2, AdministrationKept DEF Administration, NewRuleChecked, ChangeChecked,
       EnablingChecked, Drafted, RuleCreated, RuleUpdated, RuleWritten, RuleRefused,
       RuleSwitchedOff, RuleDeleted, boardVars
  <1>3. CASE Scanning
    BY <1>3, ScanningKept DEF Scanning, ScanStarted, PassedOver, Reminded, ScanEnded, boardVars
  <1>4. CASE UNCHANGED reminderVars
    <2>1. UNCHANGED <<rules, clock, scan, reminders, drafts>>
      BY <1>4 DEF reminderVars, boardVars
    <2>2. StageHasOneRule'
      BY <2>1 DEF ReminderInv, StageHasOneRule, Kept
    <2> QED
      BY <2>1, <2>2, RulesChange DEF ReminderInv, ReminderTypeOK, RulesTyped
  <1> QED
    BY <1>1, <1>2, <1>3, <1>4 DEF ReminderNext

\* A breach that was told has one reminder of that day.
LEMMA OneReminder ==
    ASSUME ReminderInv, NEW s \in Scanners, NEW breach \in scan[s].told
    PROVE  Cardinality({r \in reminders : r.breach = breach /\ r.day = scan[s].day}) = 1
  <1>1. PICK r \in reminders : r.breach = breach /\ r.day = scan[s].day
    BY DEF ReminderInv, ToldIsQueued
  <1>2. {q \in reminders : q.breach = breach /\ q.day = scan[s].day} = {r}
    BY <1>1 DEF ReminderInv, KeyTakenOnce
  <1> QED
    BY <1>2, FS_Singleton

\* However scans overlap, stop and are repeated, and whatever is done to the rules meanwhile:
\* what a scan has told has exactly one reminder of that day, and no scan tells of one stage
\* of an item twice (ScanSlaNotifications, slaIdempotencyKey).
THEOREM TellsOncePerDay == ReminderSpec => []RemindedOncePerDay
  <1>1. ReminderInit => ReminderState
    BY RemindersStart, ClockCounts, BoardAssumption DEF ReminderInit, ReminderState
  <1>2. ReminderState /\ [ReminderNext]_reminderVars => ReminderState'
    BY RemindersKept DEF ReminderState
  <1>3. ReminderState => RemindedOncePerDay
    <2>1. ReminderInv => \A s \in Scanners : OneStage(scan[s].told)
      BY DEF ReminderInv, StagesApart, OneStage
    <2> QED
      BY <2>1, OneReminder DEF RemindedOncePerDay, OneStage, ReminderState
  <1> QED
    BY <1>1, <1>2, <1>3, PTL DEF ReminderSpec

-----------------------------------------------------------------------------
(* The service items of a contract: the inductive invariant *)

Kinds == {"activated", "imported", "adjusted", "manual"}

\* What a request has to go by, while it reads and when it is done.
Ruled(s) == /\ {"kind", "offer", "plan", "entries"} \subseteq DOMAIN s
            /\ s.kind \in Kinds
            /\ s.entries \in [Categories -> Entry]
            /\ DOMAIN s.offer \subseteq Nat
            /\ \A n \in DOMAIN s.offer : s.offer[n].category \in Categories

\* The items and the announcement are what follows from it.
Follows(s) == s.items = ItemsOf(s) /\ s.announced = Announced(s)

SplitInv == /\ categories \in [Categories -> Entry]
            /\ DOMAIN splits = Splitters
            /\ \A r \in Splitters : splits[r].step # "none" => Ruled(splits[r])
            /\ \A r \in Splitters : splits[r].step = "done" => Follows(splits[r])

\* Lines of one key have the same value in each dimension the plan groups by.
LEMMA SameValue ==
    ASSUME NEW plan, NEW entries, NEW a, NEW b,
           GroupKey(plan, a, entries) = GroupKey(plan, b, entries),
           NEW dimension, GroupsBy(plan, dimension)
    PROVE  DimensionValue(dimension, a, Outcome(plan, a, entries))
             = DimensionValue(dimension, b, Outcome(plan, b, entries))
  BY DEF GroupKey, GroupsBy

\* A group has a first line, and all its lines have the key of that one.
LEMMA FirstOfGroup ==
    ASSUME NEW plan, NEW offer, NEW entries, DOMAIN offer \subseteq Nat,
           NEW g \in Groups(plan, offer, entries)
    PROVE  /\ g \subseteq DOMAIN offer /\ Min(g) \in g
           /\ \A n \in g :
                GroupKey(plan, offer[n], entries) = GroupKey(plan, offer[Min(g)], entries)
  <1>1. PICK k \in DOMAIN offer :
           g = {m \in DOMAIN offer :
                  GroupKey(plan, offer[m], entries) = GroupKey(plan, offer[k], entries)}
    BY DEF Groups
  <1>2. g \in SUBSET Nat /\ g # {}
    BY <1>1
  <1>3. Min(g) \in g
    BY <1>2, MinOfNaturals
  <1> QED
    BY <1>1, <1>3

\* Where the plan mixes no methods it is that of every line of the group.
LEMMA GroupHasOneMethod ==
    ASSUME NEW s, Ruled(s), NEW g \in Groups(s.plan, s.offer, s.entries), NEW n \in g,
           s.kind \in {"activated", "imported"}, ~MixesMethods(s, s.offer[n])
    PROVE  Outcome(s.plan, s.offer[Min(g)], s.entries).mode
             = Outcome(s.plan, s.offer[n], s.entries).mode
  <1> DEFINE a == s.offer[n]
             b == s.offer[Min(g)]
             out(line) == Outcome(s.plan, line, s.entries)
  <1>1. /\ n \in DOMAIN s.offer /\ Min(g) \in DOMAIN s.offer
        /\ GroupKey(s.plan, a, s.entries) = GroupKey(s.plan, b, s.entries)
    BY FirstOfGroup DEF Ruled
  <1>2. CASE GroupsBy(s.plan, "test_mode")
    <2>1. DimensionValue("test_mode", a, out(a)) = DimensionValue("test_mode", b, out(b))
      BY <1>1, <1>2, SameValue
    <2> QED
      BY <2>1 DEF DimensionValue
  <1>3. CASE /\ GroupsBy(s.plan, "category") /\ s.entries[a.category].known
             /\ s.entries[a.category].special # "MARKABLE"
    <2>1. a.category = b.category
      <3>1. DimensionValue("category", a, out(a)) = DimensionValue("category", b, out(b))
        BY <1>1, <1>3, SameValue
      <3> QED
        BY <3>1 DEF DimensionValue
    <2>2. s.entries[a.category].special \in {"NO", "REQUIRED"}
      BY <1>1, <1>3 DEF Ruled, Entry
    <2> QED
      BY <1>3, <2>1, <2>2 DEF Outcome, ResolvedMode
  <1> QED
    BY <1>2, <1>3 DEF MixesMethods, LeftToContract

\* Where categories are kept apart, an unknown one is unknown for the whole group.
LEMMA GroupIsMissing ==
    ASSUME NEW s, Ruled(s), NEW g \in Groups(s.plan, s.offer, s.entries), NEW n \in g,
           GroupsBy(s.plan, "category"), ~s.entries[s.offer[n].category].known
    PROVE  ~s.entries[s.offer[Min(g)].category].known
  <1> DEFINE a == s.offer[n]
             b == s.offer[Min(g)]
             out(line) == Outcome(s.plan, line, s.entries)
  <1>1. GroupKey(s.plan, a, s.entries) = GroupKey(s.plan, b, s.entries)
    BY FirstOfGroup DEF Ruled
  <1>2. DimensionValue("category", a, out(a)) = DimensionValue("category", b, out(b))
    BY <1>1, SameValue
  <1> QED
    BY <1>2 DEF DimensionValue

\* The item of a group, and the outcome of its first line.
GroupItem(g, s) == ItemOf(g, s.plan, s.offer, s.entries)
FirstOutcome(g, s) == Outcome(s.plan, s.offer[Min(g)], s.entries)

\* The fields of the item that an activation makes of a group.
LEMMA ItemFields ==
    \A g, s : /\ GroupItem(g, s).lines = g /\ GroupItem(g, s).mode = FirstOutcome(g, s).mode
              /\ GroupItem(g, s).missing = FirstOutcome(g, s).missing
              /\ GroupItem(g, s).status = FirstOutcome(g, s).status
              /\ GroupItem(g, s).review = Review(GroupItem(g, s).mode, GroupItem(g, s).status)
  BY DEF GroupItem, FirstOutcome, ItemOf

\* The item that an import or an adjustment makes of a group.
LEMMA UnreleasedFields ==
    \A g, s : /\ Unreleased(GroupItem(g, s)).lines = g
              /\ Unreleased(GroupItem(g, s)).mode = FirstOutcome(g, s).mode
              /\ Unreleased(GroupItem(g, s)).missing = FirstOutcome(g, s).missing
              /\ Unreleased(GroupItem(g, s)).status = "PendingConfirm"
              /\ Unreleased(GroupItem(g, s)).review = ""
  BY DEF GroupItem, FirstOutcome, ItemOf, Unreleased

\* An item of a single line has the outcome of that line.
LEMMA SingleLine == \A n \in Nat : Min({n}) = n
  BY MinOfNaturals

\* The first line of a group decides, and what it is not asked for is lost only where the
\* plan mixes methods.
LEMMA GroupMode ==
    ASSUME NEW s, Ruled(s), s.kind \in {"activated", "imported"},
           NEW g \in Groups(s.plan, s.offer, s.entries)
    PROVE  /\ FirstOutcome(g, s).mode = OwnMode(s, s.offer[Min(g)])
           /\ \A n \in g : FirstOutcome(g, s).mode # OwnMode(s, s.offer[n]) =>
                           MixesMethods(s, s.offer[n])
  <1>1. \A n : OwnMode(s, s.offer[n]) = Outcome(s.plan, s.offer[n], s.entries).mode
    BY DEF OwnMode
  <1> QED
    BY <1>1, GroupHasOneMethod DEF FirstOutcome

\* What is created keeps the rule of its lines, but for the groups that mix methods.
LEMMA ItemsKeepRules ==
    ASSUME NEW s, Ruled(s), Follows(s), NEW item \in s.items
    PROVE  /\ item.mode = OwnMode(s, s.offer[Min(item.lines)])
           /\ \A n \in item.lines :
                item.mode # OwnMode(s, s.offer[n]) => MixesMethods(s, s.offer[n])
           /\ \A n \in item.lines :
                (/\ s.kind \in {"activated", "imported"}
                 /\ n = Min(item.lines) \/ GroupsBy(s.plan, "category")
                 /\ s.plan.missing = "HUMAN_CONFIRM"
                 /\ ~s.entries[s.offer[n].category].known) =>
                   item.status = "PendingConfirm" /\ s.announced
           /\ (item.mode = "PENETRATION" /\ item.status = "PendingAssign") =>
                item.review = "PENDING"
           /\ s.kind # "activated" => item.status = "PendingConfirm" /\ item.review = ""
  <1>1. ASSUME NEW g \in Groups(s.plan, s.offer, s.entries), NEW n \in g,
               s.kind \in {"activated", "imported"}, s.plan.missing = "HUMAN_CONFIRM",
               n = Min(g) \/ GroupsBy(s.plan, "category"),
               ~s.entries[s.offer[n].category].known
        PROVE  /\ FirstOutcome(g, s).status = "PendingConfirm"
               /\ s.announced
    <2>1. ~s.entries[s.offer[Min(g)].category].known
      BY <1>1, GroupIsMissing
    <2>2. /\ FirstOutcome(g, s).status = "PendingConfirm"
          /\ FirstOutcome(g, s).missing
      BY <1>1, <2>1 DEF Outcome, FirstOutcome
    <2>3. GroupItem(g, s).missing /\ Unreleased(GroupItem(g, s)).missing
      BY <2>2, ItemFields, UnreleasedFields
    <2>4. GroupItem(g, s) \in ItemsOf(s) \/ Unreleased(GroupItem(g, s)) \in ItemsOf(s)
      BY <1>1 DEF ItemsOf, GroupItem
    <2>5. Announced(s)
      BY <1>1, <2>3, <2>4 DEF Announced
    <2> QED
      BY <2>2, <2>5 DEF Follows
  <1>2. CASE s.kind = "activated"
    <2>1. PICK g \in Groups(s.plan, s.offer, s.entries) :
             item = GroupItem(g, s)
      BY <1>2 DEF Follows, ItemsOf, GroupItem
    <2>2. /\ item.lines = g /\ item.mode = FirstOutcome(g, s).mode
          /\ item.status = FirstOutcome(g, s).status
          /\ item.review = Review(item.mode, item.status)
      BY <2>1, ItemFields
    <2>3. (item.mode = "PENETRATION" /\ item.status = "PendingAssign") => item.review = "PENDING"
      BY <2>2 DEF Review
    <2> QED
      BY <1>1, <1>2, <2>2, <2>3, GroupMode
  <1>3. CASE s.kind = "imported"
    <2>1. PICK g \in Groups(s.plan, s.offer, s.entries) :
             item = Unreleased(GroupItem(g, s))
      BY <1>3 DEF Follows, ItemsOf, GroupItem
    <2>2. /\ item.lines = g /\ item.mode = FirstOutcome(g, s).mode
          /\ item.status = "PendingConfirm" /\ item.review = ""
      BY <2>1, UnreleasedFields
    <2> QED
      BY <1>1, <1>3, <2>2, GroupMode
  <1>4. CASE s.kind = "adjusted"
    <2>1. PICK n \in DOMAIN s.offer : item = Unreleased(GroupItem({n}, s))
      BY <1>4 DEF Follows, ItemsOf, GroupItem
    <2>2. Min({n}) = n
      BY SingleLine DEF Ruled
    <2>3. FirstOutcome({n}, s) = Outcome(s.plan, s.offer[n], s.entries)
      BY <2>2 DEF FirstOutcome
    <2>4. /\ item.lines = {n} /\ item.mode = FirstOutcome({n}, s).mode
          /\ item.status = "PendingConfirm" /\ item.review = ""
      BY <2>1, UnreleasedFields
    <2>5. item.mode = OwnMode(s, s.offer[n])
      BY <1>4, <2>3, <2>4 DEF OwnMode
    <2> QED
      BY <1>4, <2>2, <2>4, <2>5
  <1>5. CASE s.kind = "manual"
    <2>1. PICK n \in DOMAIN s.offer : item = ManualItem(n, s.offer)
      BY <1>5 DEF Follows, ItemsOf, GroupItem
    <2>2. Min({n}) = n
      BY SingleLine DEF Ruled
    <2>3. /\ item.lines = {n} /\ item.mode = s.offer[n].mode
          /\ item.status = "PendingConfirm" /\ item.review = ""
      BY <2>1 DEF ManualItem
    <2>4. item.mode = OwnMode(s, s.offer[n])
      BY <1>5, <2>3 DEF OwnMode
    <2> QED
      BY <1>5, <2>2, <2>3, <2>4
  <1> QED
    BY <1>2, <1>3, <1>4, <1>5 DEF Ruled, Kinds

\* A request that goes on keeps its kind and its lines.
LEMMA SplitMoves ==
    ASSUME SplitInv, NEW r \in Splitters, NEW next, splits' = [splits EXCEPT ![r] = next],
           categories' \in [Categories -> Entry],
           next.step # "none" => Ruled(next), next.step = "done" => Follows(next)
    PROVE  SplitInv'
  <1>1. DOMAIN splits' = Splitters /\ splits'[r] = next
        /\ \A q \in Splitters \ {r} : splits'[q] = splits[q]
    BY DEF SplitInv
  <1>2. \A q \in Splitters : splits'[q].step # "none" => Ruled(splits'[q])
    BY <1>1 DEF SplitInv
  <1>3. \A q \in Splitters : splits'[q].step = "done" => Follows(splits'[q])
    BY <1>1 DEF SplitInv
  <1> QED
    BY <1>1, <1>2, <1>3 DEF SplitInv

\* What a listing returns are entries.
LEMMA ListedEntries == categories \in [Categories -> Entry] => Listed \in [Categories -> Entry]
  BY SplitAssumption DEF Listed

\* A request begins with lines of a contract.
LEMMA BegunRuled ==
    ASSUME SplitInv, NEW r \in Splitters, NEW kind \in Kinds, NEW contract \in Offers,
           NEW lines \in Selected(contract), Begun(r, kind, contract, lines)
    PROVE  SplitInv'
  <1> DEFINE next == [step |-> "reading", kind |-> kind, contract |-> contract, offer |-> lines,
                      todo |-> Readings[kind], plan |-> DefaultSplitPolicy,
                      entries |-> [c \in Categories |-> Absent]]
  <1>1. contract \in Seq(Line)
    BY SplitAssumption
  <1>2. DOMAIN lines \subseteq Nat /\ \A n \in DOMAIN lines : lines[n].category \in Categories
    <2> DEFINE picks(size) == [1..size -> DOMAIN contract]
    <2>1. PICK size \in 1..Len(contract) : \E pick \in picks(size) :
             lines = [n \in 1..size |-> contract[pick[n]]]
      BY DEF Selected
    <2>2. PICK pick \in picks(size) : lines = [n \in 1..size |-> contract[pick[n]]]
      BY <2>1
    <2>3. DOMAIN lines = 1..size /\ \A n \in DOMAIN lines : lines[n] = contract[pick[n]]
      BY <2>2
    <2>4. \A n \in DOMAIN contract : contract[n] \in Line
      BY <1>1
    <2>5. \A n \in DOMAIN lines : lines[n] \in Line
      BY <2>2, <2>3, <2>4
    <2> QED
      BY <2>3, <2>5 DEF Line
  <1>3. [c \in Categories |-> Absent] \in [Categories -> Entry]
    BY DEF Absent, Entry
  <1>4. Ruled(next) /\ next.step = "reading"
    BY <1>2, <1>3 DEF Ruled
  <1>5. splits' = [splits EXCEPT ![r] = next] /\ categories' \in [Categories -> Entry]
    BY DEF Begun, SplitInv
  <1> HIDE DEF next
  <1> QED
    BY <1>4, <1>5, SplitMoves

\* A request that reads on keeps its kind, its lines and the entries it has.
LEMMA ReadingKept ==
    ASSUME SplitInv, NEW r \in Splitters, NEW s, s = splits[r], s.step = "reading",
           NEW next, splits' = [splits EXCEPT ![r] = next],
           next.step = "reading", DOMAIN next = DOMAIN s, next.kind = s.kind,
           next.offer = s.offer, next.entries \in [Categories -> Entry],
           categories' \in [Categories -> Entry]
    PROVE  SplitInv'
  <1>1. Ruled(s)
    BY DEF SplitInv
  <1>2. Ruled(next)
    BY <1>1 DEF Ruled
  <1> QED
    BY <1>2, SplitMoves

\* Reading the policy, the overrides or the categories.
LEMMA ReadKept ==
    ASSUME SplitInv, NEW r \in Splitters,
           PolicyRead(r) \/ OverridesRead(r) \/ CategoriesRead(r) \/ BaselinesRead(r)
    PROVE  SplitInv'
  <1> DEFINE s == splits[r]
  <1>1. s.step = "reading" /\ Ruled(s) /\ DOMAIN splits = Splitters
    BY DEF PolicyRead, OverridesRead, CategoriesRead, BaselinesRead, Reading, SplitInv
  <1>2. categories' \in [Categories -> Entry]
    BY ListedEntries DEF PolicyRead, OverridesRead, CategoriesRead, BaselinesRead, SplitInv
  <1>3. \E plan, entries, todo :
           /\ splits' = [splits EXCEPT ![r] = [s EXCEPT !.plan = plan, !.entries = entries,
                                                        !.todo = todo]]
           /\ entries \in [Categories -> Entry]
    <2>1. CASE PolicyRead(r) \/ OverridesRead(r)
      <3>1. \E plan, todo : splits' = [splits EXCEPT ![r].plan = plan, ![r].todo = todo]
        BY <2>1 DEF PolicyRead, OverridesRead
      <3>2. PICK plan, todo : splits' = [splits EXCEPT ![r].plan = plan, ![r].todo = todo]
        BY <3>1
      <3>3. splits' = [splits EXCEPT ![r] = [s EXCEPT !.plan = plan, !.entries = s.entries,
                                                      !.todo = todo]]
        BY <1>1, <3>2
      <3> QED
        BY <1>1, <3>3 DEF Ruled
    <2>2. CASE CategoriesRead(r)
      <3>1. \E todo : splits' = [splits EXCEPT ![r].entries = Listed, ![r].todo = todo]
        BY <2>2 DEF CategoriesRead
      <3>2. PICK todo : splits' = [splits EXCEPT ![r].entries = Listed, ![r].todo = todo]
        BY <3>1
      <3>3. splits' = [splits EXCEPT ![r] = [s EXCEPT !.plan = s.plan, !.entries = Listed,
                                                      !.todo = todo]]
        BY <1>1, <3>2
      <3> QED
        BY <3>3, ListedEntries DEF SplitInv
    <2>3. CASE BaselinesRead(r)
      <3>1. \E todo : splits' = [splits EXCEPT ![r].todo = todo]
        BY <2>3 DEF BaselinesRead
      <3>2. PICK todo : splits' = [splits EXCEPT ![r].todo = todo]
        BY <3>1
      <3>3. splits' = [splits EXCEPT ![r] = [s EXCEPT !.plan = s.plan, !.entries = s.entries,
                                                      !.todo = todo]]
        BY <1>1, <3>2
      <3> QED
        BY <1>1, <3>3 DEF Ruled
    <2> QED
      BY <2>1, <2>2, <2>3
  <1>4. PICK plan, entries, todo :
           /\ splits' = [splits EXCEPT ![r] = [s EXCEPT !.plan = plan, !.entries = entries,
                                                        !.todo = todo]]
           /\ entries \in [Categories -> Entry]
    BY <1>3
  <1> DEFINE next == [s EXCEPT !.plan = plan, !.entries = entries, !.todo = todo]
  <1>5. DOMAIN next = DOMAIN s
    OBVIOUS
  <1>6. /\ next.step = s.step /\ next.kind = s.kind /\ next.offer = s.offer
    OBVIOUS
  <1>7. next.entries \in [Categories -> Entry]
    BY <1>1, <1>4 DEF Ruled
  <1>8. splits' = [splits EXCEPT ![r] = next]
    BY <1>4
  <1> HIDE DEF next
  <1> QED
    BY <1>1, <1>2, <1>5, <1>6, <1>7, <1>8, ReadingKept

\* What is committed follows from what was read.
LEMMA CommittedFollows ==
    ASSUME SplitInv, NEW r \in Splitters, SplitCommitted(r)
    PROVE  SplitInv'
  <1> DEFINE s == splits[r]
             next == [step |-> "done", kind |-> s.kind, offer |-> s.offer, plan |-> s.plan,
                      entries |-> s.entries, items |-> ItemsOf(s), announced |-> Announced(s)]
  <1>1. Ruled(s) /\ splits' = [splits EXCEPT ![r] = next]
    BY DEF SplitCommitted, SplitInv
  <1>2. /\ next.kind = s.kind /\ next.offer = s.offer /\ next.plan = s.plan
        /\ next.entries = s.entries /\ next.items = ItemsOf(s) /\ next.announced = Announced(s)
        /\ next.step = "done" /\ {"kind", "offer", "plan", "entries"} \subseteq DOMAIN next
    OBVIOUS
  <1>3. categories' \in [Categories -> Entry]
    BY DEF SplitCommitted, SplitInv
  <1> HIDE DEF next
  <1>4. Ruled(next)
    BY <1>1, <1>2 DEF Ruled
  <1>5. ItemsOf(next) = ItemsOf(s)
    BY <1>2 DEF ItemsOf
  <1>6. Announced(next) = Announced(s)
    BY <1>2, <1>5 DEF Announced
  <1>7. Follows(next)
    BY <1>2, <1>5, <1>6 DEF Follows
  <1> QED
    BY <1>1, <1>3, <1>4, <1>7, SplitMoves

\* The first tables.
LEMMA SplitStarts == SplitInit => SplitInv
  <1> SUFFICES ASSUME SplitInit
               PROVE  SplitInv
    OBVIOUS
  <1>1. CategoryForms \cup {Absent} \subseteq Entry
    <2>1. Absent \in Entry
      BY DEF Absent, Entry
    <2> QED
      BY <2>1, SplitAssumption
  <1>2. categories \in [Categories -> Entry]
    BY <1>1 DEF SplitInit
  <1>3. DOMAIN splits = Splitters /\ \A r \in Splitters : splits[r].step = "none"
    BY DEF SplitInit, NoSplit
  <1> QED
    BY <1>2, <1>3 DEF SplitInv

\* Administrators change tables, never what a request has read.
LEMMA TablesChange ==
    ASSUME SplitInv, UNCHANGED splits, categories' \in [Categories -> Entry]
    PROVE  SplitInv'
  BY DEF SplitInv

\* Every step keeps the invariant.
LEMMA SplitKept == SplitInv /\ [SplitNext]_splitVars => SplitInv'
  <1> SUFFICES ASSUME SplitInv, [SplitNext]_splitVars
               PROVE  SplitInv'
    OBVIOUS
  <1>1. ASSUME NEW r \in Splitters, NEW kind \in DOMAIN Readings, NEW contract \in Offers,
               NEW lines \in Selected(contract), Begun(r, kind, contract, lines)
        PROVE  SplitInv'
    <2>1. kind \in Kinds
      BY DEF Readings, Kinds
    <2> QED
      BY <1>1, <2>1, BegunRuled
  <1>2. ASSUME NEW r \in Splitters,
               PolicyRead(r) \/ OverridesRead(r) \/ CategoriesRead(r) \/ BaselinesRead(r)
        PROVE  SplitInv'
    BY <1>2, ReadKept
  <1>3. ASSUME NEW r \in Splitters, SplitCommitted(r)
        PROVE  SplitInv'
    BY <1>3, CommittedFollows
  <1>4. ASSUME NEW r \in Splitters, SplitFailed(r)
        PROVE  SplitInv'
    <2>1. NoSplit.step = "none"
      BY DEF NoSplit
    <2>2. splits' = [splits EXCEPT ![r] = NoSplit] /\ categories' \in [Categories -> Entry]
      BY <1>4 DEF SplitFailed, SplitInv
    <2> QED
      BY <2>1, <2>2, SplitMoves
  <1>5. ASSUME UNCHANGED <<splits, categories>>
        PROVE  SplitInv'
    BY <1>5, TablesChange DEF SplitInv
  <1>6. ASSUME NEW c \in Categories, NEW form \in CategoryForms, CategorySaved(c, form)
        PROVE  SplitInv'
    <2>1. form \in Entry
      BY SplitAssumption
    <2>2. UNCHANGED splits /\ categories' \in [Categories -> Entry]
      BY <1>6, <2>1 DEF CategorySaved, SplitInv
    <2> QED
      BY <2>2, TablesChange
  <1>7. ASSUME CategoriesListed
        PROVE  SplitInv'
    BY <1>7, ListedEntries, TablesChange DEF CategoriesListed, SplitInv
  <1>8. ASSUME NEW c \in Categories, CategoryDeleted(c)
        PROVE  SplitInv'
    <2>1. Absent \in Entry
      BY DEF Absent, Entry
    <2>2. UNCHANGED splits /\ categories' \in [Categories -> Entry]
      BY <1>8, <2>1 DEF CategoryDeleted, SplitInv
    <2> QED
      BY <2>2, TablesChange
  <1>9. CASE UNCHANGED splitVars
    BY <1>5, <1>9 DEF splitVars
  <1> QED
    BY <1>1, <1>2, <1>3, <1>4, <1>5, <1>6, <1>7, <1>8, <1>9
       DEF SplitNext, PolicySaved, OverrideAdded, OverrideChanged, OverrideDeleted,
           ReferencesCounted

\* Whatever plan is accepted and whatever administrators save meanwhile, the first line of a
\* group decides, and a line behind it loses its method only where the plan keeps
\* neither methods nor categories apart (as one by batch and site does with a line whose
\* category demands special work); a line of an unknown category that is first, or grouped
\* by its category, waits and is announced; special work meets its review; and what a
\* person put together waits (groupContractServicesByPlan, resolveSplitOutcome,
\* AdjustDecomposition).
THEOREM OnlyMixedGroupsLoseRules == SplitSpec => []RulesLostOnlyInMixedGroups
  <1>1. SplitInv => RulesLostOnlyInMixedGroups
    <2> SUFFICES ASSUME SplitInv, NEW r \in Splitters, splits[r].step = "done",
                        NEW s, s = splits[r], NEW item \in s.items
                 PROVE  /\ item.mode = OwnMode(s, s.offer[Min(item.lines)])
                        /\ \A n \in item.lines :
                             item.mode # OwnMode(s, s.offer[n]) => MixesMethods(s, s.offer[n])
                        /\ \A n \in item.lines :
                             (/\ s.kind \in {"activated", "imported"}
                              /\ n = Min(item.lines) \/ GroupsBy(s.plan, "category")
                              /\ s.plan.missing = "HUMAN_CONFIRM"
                              /\ ~s.entries[s.offer[n].category].known) =>
                                item.status = "PendingConfirm" /\ s.announced
                        /\ (item.mode = "PENETRATION" /\ item.status = "PendingAssign") =>
                             item.review = "PENDING"
                        /\ s.kind # "activated" =>
                             item.status = "PendingConfirm" /\ item.review = ""
      BY DEF RulesLostOnlyInMixedGroups
    <2>1. Ruled(s) /\ Follows(s)
      BY DEF SplitInv
    <2> QED
      BY <2>1, ItemsKeepRules
  <1> QED
    BY <1>1, SplitStarts, SplitKept, PTL DEF SplitSpec

-----------------------------------------------------------------------------
(* The views of a project: the inductive invariant *)

BoardTyped == /\ rows \in [BoardItems -> Row]
              /\ supplementStatus \in {"NONE", "REQUIRED"}
              /\ rules \in [Rules -> Rule]
              /\ clock \in 0..Hours

\* A project without live items never had any, in no view that is still open; else
\* its column may be behind.
NeverEmptied == LiveRows(rows) = {} =>
                  /\ stored \in {"PendingDecomposition", "SupplementRequired"}
                  /\ \A view \in views : LiveRows(view) = {}

BoardInv == BoardTyped /\ NeverEmptied

\* What the tables of ranks and phases say of a row.
LEMMA RankOfRow ==
    ASSUME NEW row \in Row
    PROVE  /\ LifecycleRank(row) \in 0..8
           /\ row.status # "Terminated" => SqlRank(row) = LifecycleRank(row)
           /\ row.status = "Terminated" => SqlRank(row) = 9
           /\ row.status \in {"PendingConfirm", "PendingReview"} => LifecycleRank(row) = 0
           /\ LifecycleRank(row) >= 6 <=> row.status = "FieldCompleted"
  <1>1. row.status \in {"PendingConfirm", "PendingReview", "PendingAssign", "PendingExecution",
                        "Preparing", "InProgress", "Exception", "FieldCompleted",
                        "Terminated", "Legacy"}
    BY DEF Row, RowStatuses, StatusRank
  <1>2. CASE Reported(row)
    <2>1. ReportStages[row.report].rank \in 6..8
      BY <1>2 DEF Reported, ReportStages
    <2>2. row.status = "FieldCompleted"
      BY <1>2 DEF Reported
    <2> QED
      BY <1>2, <2>1, <2>2 DEF LifecycleRank, SqlRank
  <1>3. CASE ~Reported(row) /\ row.status \in DOMAIN StatusRank
    <2>1. /\ row.status # "Terminated"
          /\ StatusRank[row.status] \in 0..6
          /\ StatusRank[row.status] = 6 <=> row.status = "FieldCompleted"
          /\ row.status \in {"PendingConfirm", "PendingReview"} => StatusRank[row.status] = 0
      BY <1>1, <1>3 DEF StatusRank
    <2>2. LifecycleRank(row) = StatusRank[row.status] /\ SqlRank(row) = StatusRank[row.status]
      BY <1>3, <2>1 DEF LifecycleRank, SqlRank
    <2> QED
      BY <2>1, <2>2
  <1>4. CASE ~Reported(row) /\ row.status \notin DOMAIN StatusRank
    <2>1. row.status \in {"Terminated", "Legacy"}
      BY <1>1, <1>4 DEF StatusRank
    <2> QED
      BY <1>4, <2>1 DEF LifecycleRank, SqlRank
  <1> QED
    BY <1>2, <1>3, <1>4

\* The table of the report stages.
LEMMA StageTable ==
    /\ DOMAIN ReportStages =
         {"NONE", "RECTIFYING", "COMPILING", "REVIEWED", "ISSUED", "ARCHIVED"}
    /\ ReportStages["NONE"].phase = 0 /\ ReportStages["RECTIFYING"].phase = 1
    /\ ReportStages["COMPILING"].phase = 2 /\ ReportStages["REVIEWED"].phase = 3
    /\ ReportStages["ISSUED"].phase = 4 /\ ReportStages["ARCHIVED"].phase = 5
  BY DEF ReportStages

\* The phase of a row, where its report code is known, and where it is not.
LEMMA PhaseOfRow ==
    ASSUME NEW row \in Row
    PROVE  /\ SqlPhase(row) \in (0..5) \cup {-1}
           /\ SqlPhase(row) \in 0..5 <=> ReportCode(row) \in DOMAIN ReportStages
           /\ ReportCode(row) \in DOMAIN ReportStages =>
                SqlPhase(row) = ReportStages[ReportCode(row)].phase
  <1>1. \A code \in DOMAIN ReportStages : ReportStages[code].phase \in 0..5
    BY StageTable
  <1>2. CASE row.report = ""
    <2>1. row.report \notin DOMAIN ReportStages
      BY <1>2, StageTable
    <2>2. SqlPhase(row) = 0 /\ ReportCode(row) = "NONE"
      BY <1>2, <2>1 DEF SqlPhase, ReportCode
    <2> QED
      BY <2>2, StageTable
  <1>3. CASE row.report # "" /\ row.report \in DOMAIN ReportStages
    <2>1. SqlPhase(row) = ReportStages[row.report].phase /\ ReportCode(row) = row.report
      BY <1>3 DEF SqlPhase, ReportCode
    <2> QED
      BY <1>1, <1>3, <2>1
  <1>4. CASE row.report # "" /\ row.report \notin DOMAIN ReportStages
    <2>1. SqlPhase(row) = -1 /\ ReportCode(row) = row.report
      BY <1>4 DEF SqlPhase, ReportCode
    <2>2. -1 \notin 0..5
      OBVIOUS
    <2> QED
      BY <1>4, <2>1, <2>2
  <1> QED
    BY <1>2, <1>3, <1>4

\* The lowest rank of the query is that of the active items.
LEMMA LowestOfActive ==
    ASSUME NEW rs \in [BoardItems -> Row], Active(rs) # {}
    PROVE  /\ LowestRank(rs) = Min({LifecycleRank(rs[i]) : i \in Active(rs)})
           /\ LowestRank(rs) \in 0..8
           /\ \A i \in Active(rs) : LowestRank(rs) <= LifecycleRank(rs[i])
           /\ \E i \in Active(rs) : LowestRank(rs) = LifecycleRank(rs[i])
  <1> DEFINE T == {LifecycleRank(rs[i]) : i \in Active(rs)}
             U == {SqlRank(rs[i]) : i \in Aggregated(rs)} \cup {9}
  <1>1. \A i \in BoardItems : rs[i] \in Row
    OBVIOUS
  <1>2. /\ \A i \in Active(rs) : SqlRank(rs[i]) = LifecycleRank(rs[i])
        /\ \A i \in Active(rs) : LifecycleRank(rs[i]) \in 0..8
        /\ \A i \in Aggregated(rs) \ Active(rs) : SqlRank(rs[i]) = 9
        /\ Active(rs) \subseteq Aggregated(rs)
    BY <1>1, RankOfRow DEF Active, Aggregated, LiveRows
  <1>3. T \in SUBSET (0..8) /\ T # {}
    BY <1>2
  <1>4. U = T \cup {9}
    BY <1>2
  <1>5. U \in SUBSET Nat /\ U # {}
    BY <1>3, <1>4
  <1> HIDE DEF T, U
  <1>6. Min(T) \in T /\ \A n \in T : Min(T) <= n
    BY <1>3, MinOfNaturals
  <1>7. Min(U) \in U /\ \A n \in U : Min(U) <= n
    BY <1>5, MinOfNaturals
  <1>8. Min(T) \in 0..8 /\ Min(U) \in Nat /\ Min(U) <= Min(T)
    BY <1>3, <1>4, <1>5, <1>6, <1>7
  <1>9. Min(U) \in T
    <2>1. Min(U) # 9
      BY <1>8
    <2> QED
      BY <1>4, <1>7, <2>1
  <1>10. Min(U) = Min(T)
    BY <1>6, <1>8, <1>9
  <1> QED
    BY <1>6, <1>8, <1>10 DEF LowestRank, T, U

\* Where all items are terminated the query finds the rank that stands for it.
LEMMA NobodyActive ==
    ASSUME NEW rs \in [BoardItems -> Row], Active(rs) = {}
    PROVE  LowestRank(rs) = 9 /\ Ended(rs) = Aggregated(rs)
  <1>1. \A i \in Aggregated(rs) : SqlRank(rs[i]) = 9 /\ rs[i].status = "Terminated"
    BY RankOfRow DEF Active, Aggregated, LiveRows
  <1>2. {SqlRank(rs[i]) : i \in Aggregated(rs)} \cup {9} = {9}
    BY <1>1
  <1>3. Min({9}) = 9
    BY MinOfNaturals
  <1> QED
    BY <1>1, <1>2, <1>3 DEF LowestRank, Ended

\* Both derivations of the status agree.
LEMMA SameStatus ==
    ASSUME NEW rs \in [BoardItems -> Row], NEW sup, NEW st
    PROVE  SqlProjectStatus(rs, sup, st) = DeriveProjectStatus(rs, sup, st)
  <1>1. Ended(rs) = Aggregated(rs) <=> Active(rs) = {}
    BY DEF Ended, Aggregated, Active
  <1>2. Aggregated(rs) = LiveRows(rs)
    BY DEF Aggregated
  <1>3. Active(rs) # {} => LiveRows(rs) # {}
    BY DEF Active
  <1> QED
    BY <1>1, <1>2, <1>3, LowestOfActive DEF SqlProjectStatus, DeriveProjectStatus

\* The report stage of the query is that of the rows.
LEMMA SameStage ==
    ASSUME NEW rs \in [BoardItems -> Row]
    PROVE  /\ DeriveProjectReportStage(rs) =
                IF LowestRank(rs) \in 6..8 /\ LowestReportPhase(rs) \in 0..5
                  THEN CHOOSE code \in DOMAIN ReportStages :
                         ReportStages[code].phase = LowestReportPhase(rs)
                  ELSE ""
           /\ DeriveProjectReportStage(rs) # "" => SqlInStage(rs, DeriveProjectReportStage(rs))
  <1>1. CASE Active(rs) = {}
    <2>1. LowestRank(rs) \notin 6..8
      <3>1. 9 \notin 6..8
        OBVIOUS
      <3> QED
        BY <1>1, <3>1, NobodyActive
    <2> QED
      BY <1>1, <2>1 DEF DeriveProjectReportStage
  <1>2. CASE Active(rs) # {} /\ ~\A i \in Active(rs) : LifecycleRank(rs[i]) >= 6
    <2>1. PICK i \in Active(rs) : ~(LifecycleRank(rs[i]) >= 6)
      BY <1>2
    <2>2. /\ LowestRank(rs) \in 0..8 /\ LowestRank(rs) <= LifecycleRank(rs[i])
          /\ LifecycleRank(rs[i]) \in 0..8
      BY <1>2, LowestOfActive, RankOfRow DEF Active, LiveRows
    <2>3. LowestRank(rs) \notin 6..8
      BY <2>1, <2>2
    <2> QED
      BY <1>2, <2>3 DEF DeriveProjectReportStage
  <1>3. CASE Active(rs) # {} /\ \A i \in Active(rs) : LifecycleRank(rs[i]) >= 6
    <2> DEFINE P == {ReportStages[ReportCode(rs[i])].phase : i \in Active(rs)}
               Q == {SqlPhase(rs[i]) : i \in Active(rs)}
               known == \A i \in Active(rs) : ReportCode(rs[i]) \in DOMAIN ReportStages
    <2>1. LowestRank(rs) \in 6..8 /\ Aggregated(rs) # {}
      <3>1. \E i \in Active(rs) : LowestRank(rs) = LifecycleRank(rs[i])
        BY <1>3, LowestOfActive
      <3>2. LowestRank(rs) \in 0..8
        BY <1>3, LowestOfActive
      <3>3. LowestRank(rs) >= 6
        BY <1>3, <3>1
      <3> QED
        BY <1>3, <3>2, <3>3 DEF Active, Aggregated
    <2>2. FieldDone(rs) = Active(rs)
      <3>1. \A i \in Active(rs) : rs[i].status = "FieldCompleted"
        BY <1>3, RankOfRow DEF Active, LiveRows
      <3> QED
        BY <3>1 DEF FieldDone, Aggregated, Active
    <2>3. LowestReportPhase(rs) = Min(Q)
      BY <1>3, <2>2 DEF LowestReportPhase
    <2>4. /\ \A i \in Active(rs) : SqlPhase(rs[i]) \in (0..5) \cup {-1}
          /\ \A i \in Active(rs) :
               SqlPhase(rs[i]) \in 0..5 <=> ReportCode(rs[i]) \in DOMAIN ReportStages
          /\ \A i \in Active(rs) : ReportCode(rs[i]) \in DOMAIN ReportStages =>
               SqlPhase(rs[i]) = ReportStages[ReportCode(rs[i])].phase
      BY PhaseOfRow DEF Active, LiveRows
    <2>5. CASE known
      <3>1. P = Q
        BY <2>4, <2>5
      <3>2. Q \in SUBSET (0..5) /\ Q # {}
        BY <1>3, <2>4, <2>5
      <3>3. Min(Q) \in 0..5
        <4> HIDE DEF Q
        <4>1. Min(Q) \in Q
          BY <3>2, MinOfNaturals
        <4> QED
          BY <3>2, <4>1
      <3>4. \E code \in DOMAIN ReportStages : ReportStages[code].phase = Min(Q)
        <4> HIDE DEF Q
        <4> QED
          BY <3>3 DEF ReportStages
      <3>5. DeriveProjectReportStage(rs) =
              CHOOSE code \in DOMAIN ReportStages : ReportStages[code].phase = Min(Q)
        BY <1>3, <2>5, <3>1 DEF DeriveProjectReportStage
      <3> HIDE DEF Q
      <3>6. /\ DeriveProjectReportStage(rs) \in DOMAIN ReportStages
            /\ ReportStages[DeriveProjectReportStage(rs)].phase = Min(Q)
        BY <3>4, <3>5
      <3> QED
        BY <2>1, <2>3, <3>3, <3>5, <3>6 DEF SqlInStage
    <2>6. CASE ~known
      <3>1. PICK i \in Active(rs) : SqlPhase(rs[i]) = -1
        BY <2>4, <2>6
      <3>2. -1 \in Q /\ \A q \in Q : -1 <= q
        BY <2>4, <3>1
      <3>3. Min(Q) = -1
        <4> HIDE DEF Q
        <4> QED
          BY <2>4, <3>2 DEF Min
      <3>4. DeriveProjectReportStage(rs) = ""
        BY <2>6 DEF DeriveProjectReportStage
      <3>5. LowestReportPhase(rs) \notin 0..5
        <4>1. -1 \notin 0..5
          OBVIOUS
        <4> QED
          BY <2>3, <3>3, <4>1
      <3> QED
        BY <3>4, <3>5
    <2> QED
      BY <2>5, <2>6
  <1> QED
    BY <1>1, <1>2, <1>3

\* An SLA rule holds in SQL where Go finds a breach.
LEMMA RuleAgrees ==
    ASSUME NEW rs \in [BoardItems -> Row], NEW i \in BoardItems, NEW rule \in Rule, NEW now \in Int
    PROVE  SqlRuleHolds(rs[i], rule, now) <=>
             RuleMatches(rs[i], rule) /\ RuleBreach(rs, i, rule, now).kind # ""
  <1> DEFINE row == rs[i]
             late(from) == \/ now - from > rule.deadline
                           \/ rule.remind > 0 /\ rule.deadline - (now - from) <= rule.remind
             stage == rule.status \in DOMAIN ReportStages
  <1>1. /\ row.since \in Int /\ row.reported \in Int /\ row.status \in RowStatuses
        /\ rule.deadline \in Nat /\ rule.remind \in Nat /\ rule.status \in SlaCatalog
    BY BoardAssumption DEF Row, Rule
  <1>2. \A from \in Int : BreachKind(rule, from, now) # "" <=> late(from)
    BY <1>1 DEF BreachKind
  <1>3. /\ row.status \notin DOMAIN ReportStages
        /\ rule.status # "NONE"
    BY <1>1, StageTable DEF RowStatuses, StatusRank, SlaCatalog
  <1>4. RuleBreach(rs, i, rule, now).kind = BreachKind(rule, RuleSince(row, rule), now)
    BY DEF RuleBreach
  <1>5. CASE stage
    <2>1. RuleMatches(row, rule) <=> row.status = "FieldCompleted" /\ row.report = rule.status
      BY <1>5 DEF RuleMatches
    <2>2. RuleSince(row, rule) = row.reported
      BY <1>5 DEF RuleSince
    <2>3. SqlRuleHolds(row, rule, now) <=>
            row.status = "FieldCompleted" /\ row.report = rule.status /\ late(row.reported)
      BY <1>3, <1>5 DEF SqlRuleHolds
    <2> QED
      BY <1>1, <1>2, <1>4, <2>1, <2>2, <2>3
  <1>6. CASE ~stage
    <2>1. RuleMatches(row, rule) <=> row.status = rule.status
      BY <1>6 DEF RuleMatches
    <2>2. RuleSince(row, rule) = row.since
      BY <1>6 DEF RuleSince
    <2>3. SqlRuleHolds(row, rule, now) <=> row.status = rule.status /\ late(row.since)
      BY <1>6 DEF SqlRuleHolds
    <2> QED
      BY <1>1, <1>2, <1>4, <2>1, <2>2, <2>3
  <1> QED
    BY <1>5, <1>6

\* The query selects exactly the items that are shown in breach.
LEMMA BreachesAgree ==
    ASSUME NEW rs \in [BoardItems -> Row], NEW rl \in [Rules -> Rule], NEW now \in Int
    PROVE  /\ \A i \in Candidates(rs) :
                MonitoringSla(rs[i], rl, now) <=> \E b \in SlaItems(rs, rl, now) : b.item = i
           /\ \A b \in SlaItems(rs, rl, now) : b.item \in Candidates(rs)
  <1> DEFINE plans == {PlanBreach(i) : i \in {j \in Candidates(rs) : PlanOverdue(rs[j], now)}}
             found(c) == RuleBreach(rs, c[1], c[2], now)
             meets == {d \in Candidates(rs) \X Enabled(rl) : RuleMatches(rs[d[1]], d[2])}
             late == {b \in {found(c) : c \in meets} : b.kind # ""}
  <1>1. SlaItems(rs, rl, now) = plans \cup late
    BY DEF SlaItems
  <1>2. \A i : PlanBreach(i).item = i
    BY DEF PlanBreach
  <1>3. \A c : found(c).item = c[1]
    BY DEF RuleBreach
  <1>4. Enabled(rl) \subseteq Rule /\ Candidates(rs) \subseteq BoardItems
    BY DEF Enabled, Candidates, LiveRows
  <1>5. ASSUME NEW b \in SlaItems(rs, rl, now)
        PROVE  b.item \in Candidates(rs)
    <2>1. CASE b \in plans
      BY <1>2, <2>1
    <2>2. CASE b \in late
      <3>1. PICK c \in meets : b = found(c)
        BY <2>2
      <3>2. b.item = c[1]
        BY <1>3, <3>1
      <3> QED
        BY <3>1, <3>2
    <2> QED
      BY <1>1, <1>5, <2>1, <2>2
  <1>6. ASSUME NEW i \in Candidates(rs), MonitoringSla(rs[i], rl, now)
        PROVE  \E b \in SlaItems(rs, rl, now) : b.item = i
    <2>1. CASE rs[i].status # "FieldCompleted" /\ rs[i].due < now
      <3>1. PlanBreach(i) \in plans
        BY <2>1 DEF PlanOverdue
      <3> QED
        BY <1>1, <1>2, <3>1
    <2>2. CASE \E rule \in Enabled(rl) : SqlRuleHolds(rs[i], rule, now)
      <3>1. PICK rule \in Enabled(rl) : SqlRuleHolds(rs[i], rule, now)
        BY <2>2
      <3>2. RuleMatches(rs[i], rule) /\ RuleBreach(rs, i, rule, now).kind # ""
        BY <1>4, <3>1, RuleAgrees
      <3>3. <<i, rule>> \in meets /\ found(<<i, rule>>) = RuleBreach(rs, i, rule, now)
        BY <3>1, <3>2
      <3>4. found(<<i, rule>>) \in late /\ found(<<i, rule>>).item = i
        <4> HIDE DEF meets
        <4>1. found(<<i, rule>>).item = <<i, rule>>[1]
          BY <1>3
        <4> HIDE DEF found
        <4> QED
          BY <3>2, <3>3, <4>1
      <3> QED
        BY <1>1, <3>4
    <2> QED
      BY <1>6, <2>1, <2>2 DEF MonitoringSla
  <1>7. ASSUME NEW i \in Candidates(rs), NEW b \in SlaItems(rs, rl, now), b.item = i
        PROVE  MonitoringSla(rs[i], rl, now)
    <2>1. rs[i].status # "Terminated"
      BY DEF Candidates
    <2>2. CASE b \in plans
      <3>1. PICK j \in Candidates(rs) : PlanOverdue(rs[j], now) /\ b = PlanBreach(j)
        BY <2>2
      <3>2. i = j
        BY <1>2, <1>7, <3>1
      <3> QED
        BY <2>1, <3>1, <3>2 DEF MonitoringSla, PlanOverdue
    <2>3. CASE b \in late
      <3>1. PICK c \in meets : b = found(c)
        BY <2>3
      <3>2. c[1] = i /\ c[2] \in Enabled(rl) /\ RuleMatches(rs[i], c[2])
            /\ RuleBreach(rs, i, c[2], now).kind # ""
        <4>1. c[1] = i
          <5>1. b.item = c[1]
            BY <1>3, <3>1
          <5> QED
            BY <1>7, <5>1
        <4>2. c[2] \in Enabled(rl) /\ RuleMatches(rs[i], c[2])
          BY <4>1
        <4> QED
          BY <2>3, <3>1, <4>1, <4>2
      <3>3. SqlRuleHolds(rs[i], c[2], now)
        BY <1>4, <3>2, RuleAgrees
      <3> QED
        BY <2>1, <3>2, <3>3 DEF MonitoringSla
    <2> QED
      BY <1>1, <2>2, <2>3
  <1> QED
    BY <1>5, <1>6, <1>7

\* A quotient is a hundred per cent only of the whole.
LEMMA HundredPercent ==
    ASSUME NEW part \in Nat, NEW whole \in Nat, whole > 0, part <= whole
    PROVE  (part * 100) \div whole = 100 <=> part = whole
  <1>1. (whole * 100) \div whole = 100
    OBVIOUS
  <1>2. ASSUME part < whole
        PROVE  (part * 100) \div whole < 100
    BY <1>2
  <1> QED
    BY <1>1, <1>2

\* The progress is the sum of the ranks over the most there could be.
LEMMA ProgressIs ==
    ASSUME NEW rs, NEW S, S = Active(rs), S # {}, IsFiniteSet(S),
           NEW rank, rank = [i \in S |-> LifecycleRank(rs[i])]
    PROVE  DeriveProjectProgress(rs) = (SumOver(rank, S) * 100) \div (8 * Cardinality(S))
  <1> DEFINE IsSum(it) == it = [s \in SUBSET S |->
                                  IF s = {} THEN 0
                                  ELSE LifecycleRank(rs[Pick(s)]) + it[s \ {Pick(s)}]]
             sum == CHOOSE it : IsSum(it)
  <1>1. DeriveProjectProgress(rs) = (sum[S] * 100) \div (8 * Cardinality(S))
    BY DEF DeriveProjectProgress, MapThenSumSet, MapThenFoldSet, Pick
  <1>2. \A it : IsSum(it) <=> Sums(it, rank, S)
    <2> SUFFICES ASSUME NEW it
                 PROVE  IsSum(it) <=> Sums(it, rank, S)
      OBVIOUS
    <2>1. \A s \in SUBSET S : s # {} => rank[Pick(s)] = LifecycleRank(rs[Pick(s)])
      BY PickIsIn
    <2>2. [s \in SUBSET S |-> IF s = {} THEN 0
                              ELSE LifecycleRank(rs[Pick(s)]) + it[s \ {Pick(s)}]]
            = [s \in SUBSET S |-> IF s = {} THEN 0 ELSE rank[Pick(s)] + it[s \ {Pick(s)}]]
      BY <2>1
    <2> QED
      BY <2>2 DEF Sums
  <1> HIDE DEF IsSum
  <1>3. Sums(sum, rank, S)
    <2>1. \E it : Sums(it, rank, S)
      BY SumsExist
    <2> QED
      BY <1>2, <2>1
  <1> HIDE DEF sum
  <1>4. SumOver(rank, S) = sum[S]
    <2>1. S \subseteq S /\ \A i \in S : rank[i] = rank[i]
      OBVIOUS
    <2> QED
      BY <1>3, <2>1, SumOverIs
  <1> QED
    BY <1>1, <1>4

\* A project shows a hundred per cent exactly when each of its items has the last rank.
LEMMA ProgressAgrees ==
    ASSUME NEW rs \in [BoardItems -> Row], Active(rs) # {}, NEW sup, sup # "REQUIRED", NEW st
    PROVE  DeriveProjectProgress(rs) = 100 <=> DeriveProjectStatus(rs, sup, st) = "Completed"
  <1> DEFINE S == Active(rs)
             rank == [i \in S |-> LifecycleRank(rs[i])]
  <1>1. IsFiniteSet(S) /\ \A i \in S : rank[i] \in 0..8
    BY BoardAssumption, FS_Subset, RankOfRow DEF Active, LiveRows
  <1>2. DeriveProjectProgress(rs) = (SumOver(rank, S) * 100) \div (8 * Cardinality(S))
    BY <1>1, ProgressIs
  <1>3. /\ SumOver(rank, S) \in Nat /\ 8 * Cardinality(S) \in Nat /\ 8 * Cardinality(S) > 0
        /\ SumOver(rank, S) <= 8 * Cardinality(S)
    <2>1. Cardinality(S) \in Nat /\ Cardinality(S) # 0
      BY <1>1, FS_CardinalityType, FS_EmptySet
    <2>2. SumOver(rank, S) <= 8 * Cardinality(S)
      <3> HIDE DEF S, rank
      <3> QED
        BY <1>1, SumOfRanks
    <2>3. SumOver(rank, S) \in Nat
      <3>1. \A i \in S : rank[i] \in Nat
        BY <1>1
      <3> HIDE DEF S, rank
      <3> QED
        BY <1>1, <3>1, SumOverIsNatural
    <2> HIDE DEF S, rank
    <2> QED
      BY <2>1, <2>2, <2>3
  <1>4. SumOver(rank, S) = 8 * Cardinality(S) <=> \A i \in S : rank[i] = 8
    <2> HIDE DEF S, rank
    <2> QED
      BY <1>1, SumOfRanks
  <1>5. DeriveProjectProgress(rs) = 100 <=> \A i \in S : LifecycleRank(rs[i]) = 8
    <2>1. (SumOver(rank, S) * 100) \div (8 * Cardinality(S)) = 100
            <=> SumOver(rank, S) = 8 * Cardinality(S)
      <3> HIDE DEF S, rank
      <3> QED
        BY <1>3, HundredPercent
    <2>2. \A i \in S : rank[i] = LifecycleRank(rs[i])
      OBVIOUS
    <2> HIDE DEF S, rank
    <2> QED
      BY <1>2, <1>4, <2>1, <2>2
  <1>6. LowestRank(rs) = 8 <=> \A i \in S : LifecycleRank(rs[i]) = 8
    <2>1. /\ LowestRank(rs) \in 0..8
          /\ \A i \in S : LowestRank(rs) <= LifecycleRank(rs[i]) /\ LifecycleRank(rs[i]) \in 0..8
          /\ \E i \in S : LowestRank(rs) = LifecycleRank(rs[i])
      BY <1>1, LowestOfActive
    <2> HIDE DEF S
    <2> QED
      BY <2>1
  <1>7. DeriveProjectStatus(rs, sup, st) = Node[LowestRank(rs)]
    BY LowestOfActive DEF DeriveProjectStatus, Active
  <1>8. \A r \in 0..8 : Node[r] = "Completed" <=> r = 8
    BY DEF Node
  <1> QED
    BY <1>5, <1>6, <1>7, <1>8, LowestOfActive

\* ... and where no item is active it shows none.
LEMMA NoProgress ==
    ASSUME NEW rs, Active(rs) = {}
    PROVE  DeriveProjectProgress(rs) = 0
  BY DEF DeriveProjectProgress

-----------------------------------------------------------------------------
(* What the deliveries do to the rows, and to the column by whatever view *)

\* A step that leaves the project an item keeps the invariant, whatever the column says.
LEMMA ItemsStay ==
    ASSUME BoardTyped', LiveRows(rows') # {}
    PROVE  BoardInv'
  BY DEF BoardInv, NeverEmptied

\* A step that writes nothing but the column, by an old view or the rows, keeps it too.
LEMMA SyncedStays ==
    ASSUME BoardInv, BoardTyped', UNCHANGED <<rows, views>>, NEW view \in Views, Synced(view)
    PROVE  BoardInv'
  <1> SUFFICES ASSUME LiveRows(rows) = {}
               PROVE  stored' \in {"PendingDecomposition", "SupplementRequired"}
    BY DEF BoardInv, NeverEmptied
  <1>1. LiveRows(view) = {}
    BY DEF Views, BoardInv, NeverEmptied
  <1>2. stored' \in {"SupplementRequired", stored}
    BY <1>1 DEF Synced, DeriveProjectStatus
  <1> QED
    BY <1>2 DEF BoardInv, NeverEmptied

\* One row is rewritten in its place.
LEMMA RowRewritten ==
    ASSUME BoardInv, NEW i \in LiveRows(rows), NEW row \in Row, row.state = rows[i].state,
           rows' = [rows EXCEPT ![i] = row], UNCHANGED <<supplementStatus, rules, clock>>
    PROVE  BoardInv'
  <1>1. BoardTyped'
    BY DEF BoardInv, BoardTyped
  <1>2. i \in LiveRows(rows')
    BY DEF LiveRows, BoardInv, BoardTyped
  <1> QED
    BY <1>1, <1>2, ItemsStay

\* The fields of a row.
LEMMA RowFields ==
    \A row \in Row : /\ row = [state |-> row.state, status |-> row.status, report |-> row.report,
                               since |-> row.since, reported |-> row.reported, due |-> row.due]
                     /\ row.state \in {"unused", "live", "archived"}
                     /\ row.status \in RowStatuses /\ row.report \in RowReports
                     /\ row.since \in 0..Hours /\ row.reported \in 0..Hours
                     /\ row.due \in 0..NeverDue
  BY DEF Row

\* A row is rewritten field by field.
RowWith(row, status, stamp, report, reported, due) ==
    [row EXCEPT !.status = status, !.since = stamp, !.report = report,
                !.reported = reported, !.due = due]

\* It is still a row, and in use as before.
LEMMA RowMade ==
    ASSUME NEW row \in Row, NEW status \in RowStatuses, NEW report \in RowReports,
           NEW stamp \in 0..Hours, NEW reported \in 0..Hours, NEW due \in 0..NeverDue
    PROVE  /\ RowWith(row, status, stamp, report, reported, due) \in Row
           /\ RowWith(row, status, stamp, report, reported, due).state = row.state
  BY RowFields DEF Row, RowWith

\* A status, with its stamp and the plan's end.
LEMMA SteppedKept ==
    ASSUME BoardInv, NEW i \in LiveRows(rows), NEW to \in RowStatuses, NEW view,
           ItemStepped(i, to, view)
    PROVE  BoardInv'
  <1>1. PICK due \in PlannedEnds(rows[i], to) :
           rows' = [rows EXCEPT ![i].status = to, ![i].since = clock, ![i].due = due,
                                ![i].report = IF to = "FieldCompleted" THEN "NONE" ELSE @]
    BY DEF ItemStepped
  <1>2. rows[i] \in Row /\ clock \in 0..Hours /\ rows \in [BoardItems -> Row] /\ i \in BoardItems
    BY DEF BoardInv, BoardTyped, LiveRows
  <1>3. due \in 0..NeverDue
    <2>1. PlanEnds \subseteq 0..NeverDue /\ NeverDue \in 0..NeverDue /\ rows[i].due \in 0..NeverDue
      BY <1>2, BoardAssumption, RowFields DEF NeverDue
    <2> QED
      BY <1>1, <2>1 DEF PlannedEnds
  <1> DEFINE report == IF to = "FieldCompleted" THEN "NONE" ELSE rows[i].report
             new == RowWith(rows[i], to, clock, report, rows[i].reported, due)
  <1>4. report \in RowReports
    BY <1>2, RowFields DEF RowReports, ReportStages
  <1>5. new \in Row /\ new.state = rows[i].state
    <2>1. rows[i].reported \in 0..Hours
      BY <1>2, RowFields
    <2> HIDE DEF report
    <2> QED
      BY <1>2, <1>3, <1>4, <2>1, RowMade
  <1>6. rows' = [rows EXCEPT ![i] = new]
    BY <1>1, <1>2, RowFields DEF RowWith
  <1> HIDE DEF new
  <1> QED
    BY <1>5, <1>6, RowRewritten DEF ItemStepped

\* A stage of the report, with its stamp, and the item taken back to the field or not.
LEMMA ReportKept ==
    ASSUME BoardInv, NEW i \in LiveRows(rows), NEW status \in RowStatuses,
           NEW stamp \in 0..Hours, NEW report \in RowReports,
           rows' = [rows EXCEPT ![i].status = status, ![i].since = stamp,
                                ![i].report = report, ![i].reported = clock],
           UNCHANGED <<supplementStatus, rules, clock>>
    PROVE  BoardInv'
  <1>1. rows[i] \in Row /\ clock \in 0..Hours /\ rows \in [BoardItems -> Row] /\ i \in BoardItems
    BY DEF BoardInv, BoardTyped, LiveRows
  <1> DEFINE new == RowWith(rows[i], status, stamp, report, clock, rows[i].due)
  <1>2. new \in Row /\ new.state = rows[i].state
    <2>1. rows[i].due \in 0..NeverDue
      BY <1>1, RowFields
    <2> QED
      BY <1>1, <2>1, RowMade
  <1>3. rows' = [rows EXCEPT ![i] = new]
    BY <1>1, RowFields DEF RowWith
  <1> HIDE DEF new
  <1> QED
    BY <1>2, <1>3, RowRewritten

\* Fields that a step leaves alone.
LEMMA SameFields ==
    ASSUME BoardTyped, NEW i \in LiveRows(rows), NEW report, NEW status, NEW stamp
    PROVE  /\ rows[i].status \in RowStatuses /\ rows[i].since \in 0..Hours
           /\ [rows EXCEPT ![i].report = report, ![i].reported = clock]
                = [rows EXCEPT ![i].status = rows[i].status, ![i].since = rows[i].since,
                               ![i].report = report, ![i].reported = clock]
  <1>1. rows[i] \in Row /\ rows \in [BoardItems -> Row] /\ i \in BoardItems
    BY DEF BoardTyped, LiveRows
  <1> QED
    BY <1>1, RowFields

\* Items are confirmed, and stay.
LEMMA ConfirmedKept ==
    ASSUME BoardInv, NEW chosen \in SUBSET LiveRows(rows), NEW view,
           RowsConfirmed(chosen, view)
    PROVE  BoardInv'
  <1>1. /\ rows \in [BoardItems -> Row] /\ clock \in 0..Hours /\ chosen \subseteq BoardItems
        /\ supplementStatus \in {"NONE", "REQUIRED"} /\ rules \in [Rules -> Rule]
    BY DEF BoardInv, BoardTyped, LiveRows
  <1>2. /\ DOMAIN rows' = BoardItems
        /\ \A i \in BoardItems : i \notin chosen => rows'[i] = rows[i]
        /\ \A i \in chosen :
             rows'[i] = [rows[i] EXCEPT !.status = "PendingAssign", !.since = clock]
    BY <1>1 DEF RowsConfirmed
  <1>3. \A i \in chosen : /\ rows'[i] \in Row /\ rows'[i].state = rows[i].state
                          /\ rows'[i].status = "PendingAssign"
    <2> SUFFICES ASSUME NEW i \in chosen
                 PROVE  /\ rows'[i] \in Row /\ rows'[i].state = rows[i].state
                        /\ rows'[i].status = "PendingAssign"
      OBVIOUS
    <2>1. rows[i] \in Row /\ "PendingAssign" \in RowStatuses
      BY <1>1 DEF RowStatuses, StatusRank
    <2> DEFINE new == [rows[i] EXCEPT !.status = "PendingAssign", !.since = clock]
    <2>2. new \in Row /\ new.state = rows[i].state /\ new.status = "PendingAssign"
      BY <1>1, <2>1, RowFields DEF Row
    <2> QED
      BY <1>2, <2>2
  <1>4. rows' \in [BoardItems -> Row]
    <2>1. \A i \in BoardItems : rows'[i] \in Row
      BY <1>1, <1>2, <1>3
    <2>2. rows' = [i \in BoardItems |-> rows'[i]]
      BY DEF RowsConfirmed
    <2> QED
      BY <2>1, <2>2
  <1>5. LiveRows(rows') = LiveRows(rows)
    BY <1>2, <1>3 DEF LiveRows
  <1>6. supplementStatus' \in {"NONE", "REQUIRED"} /\ UNCHANGED <<rules, clock>>
    BY <1>1 DEF RowsConfirmed
  <1>7. BoardTyped'
    BY <1>1, <1>4, <1>6 DEF BoardTyped
  <1>8. LiveRows(rows') # {}
    BY <1>5 DEF RowsConfirmed
  <1> QED
    BY <1>7, <1>8, ItemsStay

\* All items are replaced: there is at least one new one.
LEMMA ReplacedKept ==
    ASSUME BoardInv, NEW brought \in SUBSET BoardItems, NEW view, RowsReplaced(brought, view)
    PROVE  BoardInv'
  <1> DEFINE fresh == [state |-> "live", status |-> "PendingConfirm", report |-> "",
                       since |-> clock, reported |-> 0, due |-> NeverDue]
  <1>1. /\ rows \in [BoardItems -> Row] /\ clock \in 0..Hours /\ Hours \in Nat
        /\ supplementStatus' = "REQUIRED" /\ rules \in [Rules -> Rule]
        /\ UNCHANGED <<rules, clock>>
    BY BoardAssumption DEF BoardInv, BoardTyped, RowsReplaced
  <1>2. fresh \in Row /\ fresh.state = "live"
    <2>1. "PendingConfirm" \in RowStatuses /\ "" \in RowReports
      BY DEF RowStatuses, StatusRank, RowReports
    <2>2. NeverDue \in 0..NeverDue /\ 0 \in 0..Hours
      BY <1>1 DEF NeverDue
    <2> QED
      BY <1>1, <2>1, <2>2 DEF Row
  <1> DEFINE becomes(i) == CASE i \in brought -> fresh
                             [] i \in LiveRows(rows) -> [rows[i] EXCEPT !.state = "archived"]
                             [] OTHER -> rows[i]
  <1>3. rows' = [i \in BoardItems |-> becomes(i)] /\ \A i \in brought : i \notin LiveRows(rows)
    BY DEF RowsReplaced, LiveRows
  <1>4. DOMAIN rows' = BoardItems /\ \A i \in BoardItems : rows'[i] = becomes(i)
    <2> HIDE DEF becomes
    <2> QED
      BY <1>3
  <1>5. \A i \in BoardItems : i \in brought => rows'[i] = fresh
    BY <1>3, <1>4
  <1>6. \A i \in BoardItems : rows'[i] \in Row
    <2> SUFFICES ASSUME NEW i \in BoardItems
                 PROVE  rows'[i] \in Row
      OBVIOUS
    <2>1. rows'[i] \in {fresh, [rows[i] EXCEPT !.state = "archived"], rows[i]}
      BY <1>3, <1>4
    <2>2. [rows[i] EXCEPT !.state = "archived"] \in Row
      BY <1>1, RowFields DEF Row
    <2> HIDE DEF fresh
    <2> QED
      BY <1>1, <1>2, <2>1, <2>2
  <1>7. rows' \in [BoardItems -> Row]
    <2>1. rows' = [i \in BoardItems |-> rows'[i]]
      <3> HIDE DEF becomes
      <3> QED
        BY <1>3
    <2> QED
      BY <1>6, <2>1
  <1>8. LiveRows(rows') # {}
    <2>1. PICK i \in brought : TRUE
      BY DEF RowsReplaced
    <2> QED
      BY <1>2, <1>5, <2>1 DEF LiveRows
  <1>9. BoardTyped'
    BY <1>1, <1>7 DEF BoardTyped
  <1> QED
    BY <1>8, <1>9, ItemsStay

\* The project, its clock, what is read of it, and nothing else.
LEMMA ProjectKept ==
    ASSUME BoardInv,
           \/ ViewTaken \/ \E view \in views : ViewLeft(view)
           \/ \E view \in Views : Noted(view)
           \/ DriftRecorded \/ SupplementLeft \/ HourPasses \/ UNCHANGED boardVars
    PROVE  BoardInv'
  <1>1. ASSUME NEW view \in Views, Synced(view), UNCHANGED <<rows, views, rules, clock>>,
               supplementStatus' \in {"NONE", "REQUIRED"}
        PROVE  BoardInv'
    <2>1. BoardTyped'
      BY <1>1 DEF BoardInv, BoardTyped
    <2> QED
      BY <1>1, <2>1, SyncedStays
  <1>2. CASE \E view \in Views : Noted(view)
    BY <1>1, <1>2 DEF Noted, BoardInv, BoardTyped
  <1>3. CASE DriftRecorded \/ SupplementLeft
    BY <1>1, <1>3 DEF DriftRecorded, SupplementLeft, Views
  <1>4. CASE ViewTaken \/ \E view \in views : ViewLeft(view)
    <2>1. UNCHANGED <<rows, supplementStatus, stored, rules, clock>> /\ views' \subseteq Views
      BY <1>4 DEF ViewTaken, ViewLeft, Views
    <2> QED
      BY <2>1 DEF BoardInv, BoardTyped, NeverEmptied, Views
  <1>5. CASE HourPasses \/ UNCHANGED boardVars
    <2>1. UNCHANGED <<rows, supplementStatus, stored, views, rules>> /\ clock' \in 0..Hours
      BY <1>5, BoardAssumption DEF HourPasses, boardVars, BoardInv, BoardTyped
    <2> QED
      BY <2>1 DEF BoardInv, BoardTyped, NeverEmptied
  <1> QED
    BY <1>2, <1>3, <1>4, <1>5

\* Every step keeps the invariant.
LEMMA BoardKept == BoardInv /\ [BoardNext]_boardVars => BoardInv'
  <1> SUFFICES ASSUME BoardInv, [BoardNext]_boardVars
               PROVE  BoardInv'
    OBVIOUS
  <1>1. ASSUME NEW chosen \in SUBSET LiveRows(rows), NEW view \in Views,
               RowsConfirmed(chosen, view)
        PROVE  BoardInv'
    BY <1>1, ConfirmedKept
  <1>2. ASSUME NEW i \in LiveRows(rows), NEW to \in RowStatuses, NEW view \in Views,
               ItemStepped(i, to, view)
        PROVE  BoardInv'
    BY <1>2, SteppedKept
  <1>3. ASSUME NEW i \in LiveRows(rows), NEW phase \in DOMAIN ReportStages, StageAdvanced(i, phase)
        PROVE  BoardInv'
    <2>1. phase \in RowReports /\ BoardTyped
      BY DEF RowReports, BoardInv
    <2>2. rows' = [rows EXCEPT ![i].status = rows[i].status, ![i].since = rows[i].since,
                               ![i].report = phase, ![i].reported = clock]
      BY <1>3, <2>1, SameFields DEF StageAdvanced
    <2>3. rows[i].status \in RowStatuses /\ rows[i].since \in 0..Hours
      BY <2>1, SameFields
    <2>4. UNCHANGED <<supplementStatus, rules, clock>>
      BY <1>3 DEF StageAdvanced
    <2> QED
      BY <2>1, <2>2, <2>3, <2>4, ReportKept
  <1>4. ASSUME NEW i \in LiveRows(rows), ReportReworked(i)
        PROVE  BoardInv'
    <2>1. "NONE" \in RowReports /\ "InProgress" \in RowStatuses /\ clock \in 0..Hours
      BY DEF RowReports, ReportStages, RowStatuses, StatusRank, BoardInv, BoardTyped
    <2>2. /\ rows' = [rows EXCEPT ![i].status = "InProgress", ![i].since = clock,
                                  ![i].report = "NONE", ![i].reported = clock]
          /\ UNCHANGED <<supplementStatus, rules, clock>>
      BY <1>4 DEF ReportReworked
    <2> QED
      BY <2>1, <2>2, ReportKept
  <1>5. ASSUME NEW i \in LiveRows(rows), ReportCorrected(i)
        PROVE  BoardInv'
    <2>1. "NONE" \in RowReports /\ BoardTyped
      BY DEF RowReports, ReportStages, BoardInv
    <2>2. rows' = [rows EXCEPT ![i].status = rows[i].status, ![i].since = rows[i].since,
                               ![i].report = "NONE", ![i].reported = clock]
      BY <1>5, <2>1, SameFields DEF ReportCorrected
    <2>3. rows[i].status \in RowStatuses /\ rows[i].since \in 0..Hours
      BY <2>1, SameFields
    <2>4. UNCHANGED <<supplementStatus, rules, clock>>
      BY <1>5 DEF ReportCorrected
    <2> QED
      BY <2>1, <2>2, <2>3, <2>4, ReportKept
  <1>6. ASSUME NEW brought \in SUBSET BoardItems, NEW view \in Views,
               RowsReplaced(brought, view)
        PROVE  BoardInv'
    BY <1>6, ReplacedKept
  <1> QED
    BY <1>1, <1>2, <1>3, <1>4, <1>5, <1>6, ProjectKept DEF BoardNext

\* The first rows.
LEMMA BoardStarts == BoardInit => BoardInv
  <1> SUFFICES ASSUME BoardInit
               PROVE  BoardInv
    OBVIOUS
  <1>1. BoardTyped
    BY BoardAssumption DEF BoardInit, BoardTyped
  <1>2. stored = DeriveProjectStatus(rows, supplementStatus, "PendingDecomposition")
    BY DEF BoardInit
  <1>3. NeverEmptied
    BY <1>2 DEF BoardInit, NeverEmptied, DeriveProjectStatus
  <1> QED
    BY <1>1, <1>3 DEF BoardInv

-----------------------------------------------------------------------------
(* Whatever is asked, both paths answer the same, but for what the column says *)

\* Where no archived item is in breach, the query asks for what is shown.
LEMMA SelectedIsShown ==
    ASSUME BoardTyped, \A i \in Used(rows) \ LiveRows(rows) : ~MonitoringSla(rows[i], rules, clock)
    PROVE  SlaSelected <=> SlaItems(rows, rules, clock) # {}
  <1>1. rows \in [BoardItems -> Row] /\ rules \in [Rules -> Rule] /\ clock \in Int
    BY BoardAssumption DEF BoardTyped
  <1>2. ASSUME SlaSelected
        PROVE  SlaItems(rows, rules, clock) # {}
    <2>1. PICK i \in LiveRows(rows) : MonitoringSla(rows[i], rules, clock)
      BY <1>2 DEF SlaSelected
    <2>2. i \in Candidates(rows)
      BY <2>1 DEF MonitoringSla, Candidates
    <2> QED
      BY <1>1, <2>1, <2>2, BreachesAgree
  <1>3. ASSUME NEW b \in SlaItems(rows, rules, clock)
        PROVE  SlaSelected
    <2>1. b.item \in Candidates(rows) /\ MonitoringSla(rows[b.item], rules, clock)
      BY <1>1, <1>3, BreachesAgree
    <2>2. Candidates(rows) \subseteq Used(rows)
      BY DEF Candidates, LiveRows, Used
    <2> QED
      BY <2>1, <2>2 DEF SlaSelected
  <1> QED
    BY <1>2, <1>3

\* The filters that can be asked for, one at a time.
LEMMA QueryFields ==
    ASSUME NEW project, NEW query \in MonitoringQueries(project)
    PROVE  /\ query.status \in {"", stored, project.status}
           /\ query.stage \in {"", MonitoringGroup.stage}
  <1> DEFINE one == NoFilter
             two == [one EXCEPT !.sla = TRUE]
             three == [one EXCEPT !.risk = TRUE]
             four(status) == [one EXCEPT !.status = status]
             five(stage) == [one EXCEPT !.stage = stage]
  <1>1. one.status = "" /\ one.stage = "" /\ DOMAIN one = {"status", "stage", "sla", "risk"}
    BY DEF NoFilter
  <1>2. /\ two.status = "" /\ two.stage = "" /\ three.status = "" /\ three.stage = ""
        /\ \A x : four(x).status = x /\ four(x).stage = ""
        /\ \A x : five(x).status = "" /\ five(x).stage = x
    <2> HIDE DEF one
    <2> QED
      BY <1>1
  <1>3. \/ query \in {one, two, three}
        \/ query = four(stored) \/ query = four(project.status)
        \/ query = five(MonitoringGroup.stage)
    BY DEF MonitoringQueries
  <1> HIDE DEF one, two, three, four, five
  <1>4. CASE query = one
    BY <1>1, <1>4
  <1>5. CASE query \in {two, three}
    BY <1>2, <1>5
  <1>6. CASE query = four(stored) \/ query = four(project.status)
    BY <1>2, <1>6
  <1>7. CASE query = five(MonitoringGroup.stage)
    BY <1>2, <1>7
  <1> QED
    BY <1>3, <1>4, <1>5, <1>6, <1>7

\* The query of the monitoring page selects the project exactly when it would be shown with
\* the status of its column.
LEMMA QueriesAgree ==
    ASSUME BoardInv,
           \A i \in Used(rows) \ LiveRows(rows) : ~MonitoringSla(rows[i], rules, clock),
           NEW query \in MonitoringQueries(Metrics), NEW row, row = ByColumn(MonitoringRow)
    PROVE  MonitoringSelected(query) <=> MonitoringMatches(row, query)
  <1>1. /\ row.project.status = stored /\ row.project.stage = DeriveProjectReportStage(rows)
        /\ row.project.risk <=> stored \in RiskStatuses \/ Active(rows) # LiveRows(rows)
        /\ row.sla = SlaItems(rows, rules, clock)
    BY DEF ByColumn, MonitoringRow, Metrics, IsRiskProject
  <1>2. SlaSelected <=> row.sla # {}
    BY <1>1, SelectedIsShown DEF BoardInv
  <1>3. Ended(rows) # {} <=> Active(rows) # LiveRows(rows)
    BY DEF Ended, Active, Aggregated
  <1>4. query.stage # "" =>
          query.stage = DeriveProjectReportStage(rows) /\ SqlInStage(rows, query.stage)
    <2>1. query.stage \in {"", MonitoringGroup.stage}
      BY QueryFields
    <2>2. rows \in [BoardItems -> Row]
      BY DEF BoardInv, BoardTyped
    <2>3. MonitoringGroup.stage = DeriveProjectReportStage(rows)
      BY <2>2, SameStage DEF MonitoringGroup
    <2> QED
      BY <2>1, <2>2, <2>3, SameStage
  <1> QED
    BY <1>1, <1>2, <1>3, <1>4 DEF MonitoringSelected, MonitoringMatches

\* The parts of ViewsAgree that only compare derivations.
LEMMA DerivationsAgree ==
    ASSUME BoardInv
    PROVE  /\ ListCounted(Metrics.status, Metrics.stage)
           /\ MonitoringGroup = [status |-> Dashboard.status, stage |-> Dashboard.stage]
  <1>1. rows \in [BoardItems -> Row]
    BY DEF BoardInv, BoardTyped
  <1>2. /\ Metrics.status = SqlProjectStatus(rows, supplementStatus, stored)
        /\ Dashboard.status = SqlProjectStatus(rows, supplementStatus, stored)
    BY <1>1, SameStatus DEF Metrics, Dashboard
  <1>3. /\ Metrics.stage = DeriveProjectReportStage(rows)
        /\ Dashboard.stage = DeriveProjectReportStage(rows)
    BY DEF Metrics, Dashboard
  <1>4. ListCounted(Metrics.status, Metrics.stage)
    BY <1>1, <1>2, <1>3, SameStage DEF ListCounted
  <1>5. MonitoringGroup = [status |-> Dashboard.status, stage |-> Dashboard.stage]
    BY <1>1, <1>2, <1>3, SameStage DEF MonitoringGroup
  <1> QED
    BY <1>4, <1>5

\* A hundred per cent, and nothing in flight.
LEMMA DoneIsDone ==
    ASSUME BoardInv, supplementStatus = "NONE"
    PROVE  Metrics.progress = 100 <=> ~Dashboard.inFlight
  <1> DEFINE status == DeriveProjectStatus(rows, supplementStatus, stored)
  <1>1. /\ rows \in [BoardItems -> Row]
        /\ Metrics.progress = DeriveProjectProgress(rows)
        /\ Dashboard.inFlight <=> status # "Completed"
    BY DEF BoardInv, BoardTyped, Metrics, Dashboard
  <1>2. CASE Active(rows) = {}
    <2>1. status \in {"PendingDecomposition", "SupplementRequired", "Terminated"}
      BY <1>1, <1>2 DEF DeriveProjectStatus, BoardInv, NeverEmptied
    <2> QED
      BY <1>1, <1>2, <2>1, NoProgress
  <1>3. CASE Active(rows) # {}
    BY <1>1, <1>3, ProgressAgrees
  <1> QED
    BY <1>2, <1>3

\* For any number of items and rules, whatever happens to them, and by however old a view
\* the stored status is written: the filters, counts and pages that SQL selects by are those
\* of the rows Go derives; the monitoring page selects by SQL what it would show by
\* Go if the project had the status of its column; and a project shows a hundred per cent
\* exactly when it is completed (projectDerivedSQL, DeriveProjectStatus,
\* LoadProjectMonitoringPage, computeSlaItems).
THEOREM BothDerivationsAgree == BoardSpec => []ViewsAgree
  <1>1. BoardInv => ViewsAgree
    <2> SUFFICES ASSUME BoardInv
                 PROVE  ViewsAgree
      OBVIOUS
    <2>1. MonitoringRow.project = Metrics /\ MonitoringRow.sla = SlaItems(rows, rules, clock)
      BY DEF MonitoringRow
    <2>2. rows \in [BoardItems -> Row] /\ rules \in [Rules -> Rule] /\ clock \in Int
      BY BoardAssumption DEF BoardInv, BoardTyped
    <2>3. \A i \in Candidates(rows) :
            MonitoringSla(rows[i], rules, clock) <=> \E b \in MonitoringRow.sla : b.item = i
      BY <2>1, <2>2, BreachesAgree
    <2>4. (\A i \in Used(rows) \ LiveRows(rows) : ~MonitoringSla(rows[i], rules, clock)) =>
            \A query \in MonitoringQueries(Metrics) :
              MonitoringSelected(query) <=> MonitoringMatches(ByColumn(MonitoringRow), query)
      BY QueriesAgree
    <2> QED
      BY <2>1, <2>3, <2>4, DerivationsAgree, DoneIsDone DEF ViewsAgree
  <1> QED
    BY <1>1, BoardStarts, BoardKept, PTL DEF BoardSpec

-----------------------------------------------------------------------------
(* The stream of an export: what its lines are, and what they add up to *)

\* The projects of a tenant, as a statement may find them.
IsTable(b) == DOMAIN b \subseteq ExportIds /\ b \in [DOMAIN b -> BaseProjects]

LineAt(b, id) == ExportLine(id, b[id], b[id].items, b[id].touched)
IdsOf(lines) == {lines[n].id : n \in DOMAIN lines}
LastOf(lines) == IF lines = <<>> THEN 0 ELSE lines[Len(lines)].id
TotalItems(lines) == SumOver([n \in DOMAIN lines |-> lines[n]["items"]], DOMAIN lines)
TotalSize(lines) == SumOver([n \in DOMAIN lines |-> lines[n]["size"]], DOMAIN lines)
ItemsIn(b) == [id \in DOMAIN b |-> b[id].items]
SizesIn(b) == [id \in DOMAIN b |-> b[id].size]

\* What has been sent are the first projects of the table b, in order, and they are not too
\* many, have not too many items and are not too long, neither together nor one of them.
Stream(lines, b) ==
    /\ lines \in Seq(LinesOf(b))
    /\ \A m, n \in DOMAIN lines : m < n => lines[m].id < lines[n].id
    /\ \A id \in DOMAIN b : id <= LastOf(lines) => id \in IdsOf(lines)
    /\ Len(lines) = Cardinality(IdsOf(lines))
    /\ TotalItems(lines) = SumOver(ItemsIn(b), IdsOf(lines))
    /\ TotalSize(lines) = SumOver(SizesIn(b), IdsOf(lines))
    /\ Len(lines) <= MaxProjects
    /\ TotalItems(lines) <= MaxServiceItems
    /\ HeaderBytes + TotalSize(lines) + EndBytes <= MaxBytes
    /\ \A id \in IdsOf(lines) : b[id].size <= MaxLineBytes

\* The page holds the next projects, and none of them is too many.
NextPage(page, lines, b) ==
    /\ DOMAIN page # {}
    /\ DOMAIN page \subseteq DOMAIN b
    /\ \A id \in DOMAIN page : id > LastOf(lines) /\ page[id] = b[id]
    /\ \A id \in DOMAIN page, other \in DOMAIN b :
         other > LastOf(lines) /\ other <= id => other \in DOMAIN page
    /\ Len(lines) + Cardinality(DOMAIN page) <= MaxProjects

CountsFit(counts, page, lines, b) ==
    /\ \A id \in DOMAIN page : counts[id] = b[id].items
    /\ TotalItems(lines) + SumOver(ItemsIn(b), DOMAIN page) <= MaxServiceItems

\* The numbers of a table.
LEMMA TableNumbers ==
    ASSUME NEW b, IsTable(b)
    PROVE  /\ IsFiniteSet(DOMAIN b) /\ DOMAIN b \subseteq Nat \ {0}
           /\ \A id \in DOMAIN b : ItemsIn(b)[id] = b[id].items /\ SizesIn(b)[id] = b[id].size
           /\ \A id \in DOMAIN b : b[id].items \in Nat /\ b[id].size \in Nat
  <1>1. IsFiniteSet(DOMAIN b) /\ DOMAIN b \subseteq Nat \ {0}
    BY ExportAssumption, FS_Subset DEF IsTable
  <1>2. \A id \in DOMAIN b : b[id].items \in Nat /\ b[id].size \in Nat
    BY ExportAssumption DEF IsTable, BaseProjects
  <1> QED
    BY <1>1, <1>2 DEF ItemsIn, SizesIn

\* The line of a project.
LEMMA LineFields ==
    \A b, id : /\ LineAt(b, id).id = id /\ LineAt(b, id)["items"] = b[id].items
               /\ LineAt(b, id)["size"] = b[id].size
               /\ id \in DOMAIN b => LineAt(b, id) \in LinesOf(b)
  BY DEF LineAt, ExportLine, LinesOf

\* A line that was sent is that of its project.
LEMMA SentLine ==
    ASSUME NEW b, NEW lines \in Seq(LinesOf(b)), NEW n \in DOMAIN lines
    PROVE  lines[n].id \in DOMAIN b /\ lines[n] = LineAt(b, lines[n].id)
  <1>1. lines[n] \in LinesOf(b)
    OBVIOUS
  <1>2. PICK id \in DOMAIN b : lines[n] = LineAt(b, id)
    BY <1>1 DEF LinesOf, LineAt
  <1> QED
    BY <1>2, LineFields

\* What one more line adds.
Grown(more, lines, b, id) ==
    /\ more \in Seq(LinesOf(b)) /\ Len(more) = Len(lines) + 1
    /\ more[Len(lines) + 1] = LineAt(b, id)
    /\ \A n \in DOMAIN lines : n \in DOMAIN more /\ more[n] = lines[n]
    /\ \A n \in DOMAIN more : n \in DOMAIN lines \/ n = Len(lines) + 1
    /\ IdsOf(more) = IdsOf(lines) \cup {id}
    /\ LastOf(more) = id
    /\ TotalItems(more) = b[id].items + TotalItems(lines)
    /\ TotalSize(more) = b[id].size + TotalSize(lines)

\* It adds that.
LEMMA OneMoreLine ==
    ASSUME NEW b, IsTable(b), NEW lines \in Seq(LinesOf(b)), NEW id \in DOMAIN b
    PROVE  Grown(Append(lines, LineAt(b, id)), lines, b, id)
  <1> DEFINE k == Len(lines) + 1
             more == Append(lines, LineAt(b, id))
  <1>1. /\ more \in Seq(LinesOf(b)) /\ Len(more) = k /\ k \in Nat /\ k # 0
        /\ more[k] = LineAt(b, id) /\ DOMAIN lines = 1..Len(lines) /\ DOMAIN more = 1..k
        /\ \A n \in 1..Len(lines) : more[n] = lines[n]
        /\ Len(lines) \in Nat
    <2>1. LineAt(b, id) \in LinesOf(b)
      BY LineFields
    <2> QED
      BY <2>1
  <1> HIDE DEF more
  <1>2. /\ DOMAIN more = DOMAIN lines \cup {k} /\ k \notin DOMAIN lines
        /\ \A n \in DOMAIN lines : more[n] = lines[n]
    BY <1>1
  <1>3. IdsOf(more) = IdsOf(lines) \cup {id}
    <2>1. more[k].id = id
      BY <1>1, LineFields
    <2> QED
      BY <1>2, <2>1 DEF IdsOf
  <1>4. LastOf(more) = id
    <2>1. more # <<>>
      BY <1>1
    <2>2. more[Len(more)].id = id
      BY <1>1, LineFields
    <2> QED
      BY <2>1, <2>2 DEF LastOf
  <1>5. IsFiniteSet(DOMAIN more) /\ DOMAIN more \ {k} = DOMAIN lines /\ IsFiniteSet(DOMAIN lines)
    <2>1. IsFiniteSet(1..k) /\ IsFiniteSet(1..Len(lines))
      BY <1>1, FS_Interval
    <2> QED
      BY <1>1, <1>2, <2>1
  <1>6. /\ \A n \in DOMAIN more : more[n]["items"] \in Nat /\ more[n]["size"] \in Nat
        /\ more[k]["items"] = b[id].items /\ more[k]["size"] = b[id].size
    <2>1. \A n \in DOMAIN more : more[n].id \in DOMAIN b /\ more[n] = LineAt(b, more[n].id)
      BY <1>1, SentLine
    <2> QED
      BY <1>1, <2>1, LineFields, TableNumbers
  <1>7. TotalItems(more) = b[id].items + TotalItems(lines)
    <2> DEFINE f == [n \in DOMAIN more |-> more[n]["items"]]
               g == [n \in DOMAIN lines |-> lines[n]["items"]]
    <2>1. /\ \A n \in DOMAIN more : f[n] \in Nat
          /\ f[k] = b[id].items /\ \A n \in DOMAIN lines : f[n] = g[n]
      BY <1>2, <1>6
    <2>2. TotalItems(more) = SumOver(f, DOMAIN more) /\ TotalItems(lines) = SumOver(g, DOMAIN lines)
      BY DEF TotalItems
    <2> HIDE DEF f, g
    <2>3. SumOver(f, DOMAIN more) = f[k] + SumOver(f, DOMAIN more \ {k})
      BY <1>2, <1>5, <2>1, SumOverAdds
    <2>4. SumOver(f, DOMAIN lines) = SumOver(g, DOMAIN lines)
      BY <1>5, <2>1, SumOverSame
    <2> QED
      BY <1>5, <2>1, <2>2, <2>3, <2>4
  <1>8. TotalSize(more) = b[id].size + TotalSize(lines)
    <2> DEFINE f == [n \in DOMAIN more |-> more[n]["size"]]
               g == [n \in DOMAIN lines |-> lines[n]["size"]]
    <2>1. /\ \A n \in DOMAIN more : f[n] \in Nat
          /\ f[k] = b[id].size /\ \A n \in DOMAIN lines : f[n] = g[n]
      BY <1>2, <1>6
    <2>2. TotalSize(more) = SumOver(f, DOMAIN more) /\ TotalSize(lines) = SumOver(g, DOMAIN lines)
      BY DEF TotalSize
    <2> HIDE DEF f, g
    <2>3. SumOver(f, DOMAIN more) = f[k] + SumOver(f, DOMAIN more \ {k})
      BY <1>2, <1>5, <2>1, SumOverAdds
    <2>4. SumOver(f, DOMAIN lines) = SumOver(g, DOMAIN lines)
      BY <1>5, <2>1, SumOverSame
    <2> QED
      BY <1>5, <2>1, <2>2, <2>3, <2>4
  <1>9. Grown(more, lines, b, id)
    BY <1>1, <1>2, <1>3, <1>4, <1>7, <1>8 DEF Grown
  <1> QED
    BY <1>9 DEF more

\* Nothing has been sent yet.
LEMMA NothingSent ==
    ASSUME NEW b, IsTable(b), HeaderBytes + EndBytes <= MaxBytes
    PROVE  Stream(<<>>, b)
  <1>1. DOMAIN <<>> = {} /\ Len(<<>>) = 0 /\ LastOf(<<>>) = 0 /\ IdsOf(<<>>) = {}
    <2>1. DOMAIN <<>> = {} /\ Len(<<>>) = 0
      OBVIOUS
    <2> QED
      BY <2>1 DEF IdsOf, LastOf
  <1>2. TotalItems(<<>>) = 0 /\ TotalSize(<<>>) = 0
    BY <1>1, SumOverNothing DEF TotalItems, TotalSize
  <1>3. SumOver(ItemsIn(b), {}) = 0 /\ SumOver(SizesIn(b), {}) = 0 /\ Cardinality({}) = 0
    BY SumOverNothing, FS_EmptySet
  <1>4. \A id \in DOMAIN b : ~(id <= 0)
    BY TableNumbers
  <1>5. /\ 0 <= MaxProjects /\ 0 <= MaxServiceItems
        /\ HeaderBytes + 0 + EndBytes <= MaxBytes
    BY ExportAssumption DEF HeaderBytes, EndBytes
  <1>6. <<>> \in Seq(LinesOf(b))
    OBVIOUS
  <1>7. \A m, n \in DOMAIN <<>> : m < n => <<>>[m].id < <<>>[n].id
    BY <1>1
  <1>8. \A id \in DOMAIN b : id <= LastOf(<<>>) => id \in IdsOf(<<>>)
    BY <1>1, <1>4
  <1>9. /\ Len(<<>>) = Cardinality(IdsOf(<<>>))
        /\ TotalItems(<<>>) = SumOver(ItemsIn(b), IdsOf(<<>>))
        /\ TotalSize(<<>>) = SumOver(SizesIn(b), IdsOf(<<>>))
    BY <1>1, <1>2, <1>3
  <1>10. /\ Len(<<>>) <= MaxProjects /\ TotalItems(<<>>) <= MaxServiceItems
         /\ HeaderBytes + TotalSize(<<>>) + EndBytes <= MaxBytes
    BY <1>1, <1>2, <1>5
  <1>11. \A id \in IdsOf(<<>>) : b[id].size <= MaxLineBytes
    BY <1>1
  <1> QED
    BY <1>6, <1>7, <1>8, <1>9, <1>10, <1>11 DEF Stream

\* What has been sent has the identities up to the last.
LEMMA SentIds ==
    ASSUME NEW b, IsTable(b), NEW lines, Stream(lines, b)
    PROVE  /\ IdsOf(lines) = {id \in DOMAIN b : id <= LastOf(lines)}
           /\ IsFiniteSet(IdsOf(lines)) /\ LastOf(lines) \in Nat
           /\ Len(lines) \in Nat /\ TotalItems(lines) \in Nat /\ TotalSize(lines) \in Nat
  <1>1. lines \in Seq(LinesOf(b)) /\ Len(lines) \in Nat /\ DOMAIN lines = 1..Len(lines)
    BY DEF Stream
  <1>2. \A n \in DOMAIN lines : lines[n].id \in DOMAIN b /\ lines[n].id \in Nat
    BY <1>1, SentLine, TableNumbers
  <1>3. LastOf(lines) \in Nat
    <2>1. CASE lines = <<>>
      BY <2>1 DEF LastOf
    <2>2. CASE lines # <<>>
      <3>1. Len(lines) \in DOMAIN lines
        BY <1>1, <2>2
      <3> QED
        BY <1>2, <2>2, <3>1 DEF LastOf
    <2> QED
      BY <2>1, <2>2
  <1>4. \A n \in DOMAIN lines : lines[n].id <= LastOf(lines)
    <2> SUFFICES ASSUME NEW n \in DOMAIN lines
                 PROVE  lines[n].id <= LastOf(lines)
      OBVIOUS
    <2>1. /\ Len(lines) \in DOMAIN lines /\ lines # <<>> /\ n \in Nat
          /\ (n < Len(lines) \/ n = Len(lines))
      BY <1>1
    <2>2. LastOf(lines) = lines[Len(lines)].id
      BY <2>1 DEF LastOf
    <2>3. n < Len(lines) => lines[n].id < lines[Len(lines)].id
      BY <2>1 DEF Stream
    <2> QED
      BY <1>2, <2>1, <2>2, <2>3
  <1>5. IdsOf(lines) = {id \in DOMAIN b : id <= LastOf(lines)}
    BY <1>2, <1>4 DEF Stream, IdsOf
  <1>6. IsFiniteSet(IdsOf(lines))
    BY <1>5, TableNumbers, FS_Subset
  <1>7. TotalItems(lines) \in Nat /\ TotalSize(lines) \in Nat
    <2>1. /\ \A id \in IdsOf(lines) : ItemsIn(b)[id] \in Nat
          /\ \A id \in IdsOf(lines) : SizesIn(b)[id] \in Nat
      BY <1>5, TableNumbers
    <2> QED
      BY <1>6, <2>1, SumOverIsNatural DEF Stream
  <1> QED
    BY <1>1, <1>3, <1>5, <1>6, <1>7

\* The amounts of a set of projects with one more.
LEMMA OneMoreProject ==
    ASSUME NEW b, IsTable(b), NEW ids \in SUBSET DOMAIN b, NEW id \in DOMAIN b, id \notin ids
    PROVE  /\ SumOver(ItemsIn(b), ids \cup {id}) = b[id].items + SumOver(ItemsIn(b), ids)
           /\ SumOver(SizesIn(b), ids \cup {id}) = b[id].size + SumOver(SizesIn(b), ids)
           /\ Cardinality(ids \cup {id}) = Cardinality(ids) + 1
           /\ Cardinality(ids) \in Nat
           /\ SumOver(ItemsIn(b), ids) \in Nat /\ SumOver(SizesIn(b), ids) \in Nat
  <1> DEFINE all == ids \cup {id}
  <1>1. /\ IsFiniteSet(ids) /\ IsFiniteSet(all) /\ all \ {id} = ids /\ id \in all
        /\ \A x \in all : ItemsIn(b)[x] \in Nat /\ SizesIn(b)[x] \in Nat
        /\ ItemsIn(b)[id] = b[id].items /\ SizesIn(b)[id] = b[id].size
    BY TableNumbers, FS_Subset
  <1>2. Cardinality(all) = Cardinality(ids) + 1 /\ Cardinality(ids) \in Nat
    BY <1>1, FS_AddElement, FS_CardinalityType
  <1> HIDE DEF all
  <1>3. SumOver(ItemsIn(b), all) = ItemsIn(b)[id] + SumOver(ItemsIn(b), all \ {id})
    BY <1>1, SumOverAdds
  <1>4. SumOver(SizesIn(b), all) = SizesIn(b)[id] + SumOver(SizesIn(b), all \ {id})
    BY <1>1, SumOverAdds
  <1>5. SumOver(ItemsIn(b), ids) \in Nat /\ SumOver(SizesIn(b), ids) \in Nat
    BY <1>1, SumOverIsNatural DEF all
  <1> QED
    BY <1>1, <1>2, <1>3, <1>4, <1>5 DEF all

\* The amounts of two sets of projects are at most those of the table.
LEMMA PartOfTable ==
    ASSUME NEW b, IsTable(b), NEW S \in SUBSET DOMAIN b, NEW T \in SUBSET DOMAIN b, S \cap T = {}
    PROVE  /\ Cardinality(S) + Cardinality(T) <= Cardinality(DOMAIN b)
           /\ SumOver(ItemsIn(b), S) + SumOver(ItemsIn(b), T) <= SumOver(ItemsIn(b), DOMAIN b)
           /\ SumOver(SizesIn(b), S) + SumOver(SizesIn(b), T) <= SumOver(SizesIn(b), DOMAIN b)
  <1>1. /\ IsFiniteSet(DOMAIN b) /\ IsFiniteSet(S) /\ IsFiniteSet(T)
        /\ S \cup T \subseteq DOMAIN b
        /\ \A x \in DOMAIN b : ItemsIn(b)[x] \in Nat /\ SizesIn(b)[x] \in Nat
    BY TableNumbers, FS_Subset
  <1>2. Cardinality(S) + Cardinality(T) <= Cardinality(DOMAIN b)
    <2>1. Cardinality(S \cup T) = Cardinality(S) + Cardinality(T)
      <3>1. Cardinality(S \cap T) = 0
        BY FS_EmptySet
      <3>2. Cardinality(S \cup T) = Cardinality(S) + Cardinality(T) - Cardinality(S \cap T)
        BY <1>1, FS_Union
      <3> QED
        BY <1>1, <3>1, <3>2, FS_CardinalityType
    <2> QED
      BY <1>1, <2>1, FS_Subset
  <1>3. /\ SumOver(ItemsIn(b), S \cup T) = SumOver(ItemsIn(b), S) + SumOver(ItemsIn(b), T)
        /\ SumOver(SizesIn(b), S \cup T) = SumOver(SizesIn(b), S) + SumOver(SizesIn(b), T)
    BY <1>1, SumOverBoth
  <1>4. /\ SumOver(ItemsIn(b), S \cup T) <= SumOver(ItemsIn(b), DOMAIN b)
        /\ SumOver(SizesIn(b), S \cup T) <= SumOver(SizesIn(b), DOMAIN b)
    BY <1>1, SumOverPart
  <1> QED
    BY <1>2, <1>3, <1>4

\* What else there is to send is not what was sent.
LEMMA PageIsNew ==
    ASSUME NEW b, IsTable(b), NEW lines, Stream(lines, b), NEW ids \in SUBSET DOMAIN b,
           \A id \in ids : id > LastOf(lines)
    PROVE  IdsOf(lines) \cap ids = {} /\ IdsOf(lines) \in SUBSET DOMAIN b
  <1>1. \A id \in ids : id \in Nat
    BY TableNumbers
  <1> QED
    BY <1>1, SentIds

\* The line of the first project of the page goes out, and the rest follows.
LEMMA NextLine ==
    ASSUME NEW b, IsTable(b), NEW lines, Stream(lines, b), NEW page, NextPage(page, lines, b),
           NEW counts, CountsFit(counts, page, lines, b), NEW id, id = Min(DOMAIN page),
           HeaderBytes + TotalSize(lines) + b[id].size + EndBytes <= MaxBytes,
           b[id].size <= MaxLineBytes,
           NEW more, more = Append(lines, LineAt(b, id)),
           NEW rest, rest = [other \in DOMAIN page \ {id} |-> page[other]]
    PROVE  /\ Stream(more, b)
           /\ DOMAIN rest # {} => NextPage(rest, more, b) /\ CountsFit(counts, rest, more, b)
  <1> DEFINE S == IdsOf(lines)
             P == DOMAIN page
  <1>1. /\ P # {} /\ P \in SUBSET Nat /\ P \in SUBSET DOMAIN b
        /\ lines \in Seq(LinesOf(b))
    BY TableNumbers DEF NextPage, Stream
  <1>2. id \in P /\ \A other \in P : id <= other
    BY <1>1, MinOfNaturals
  <1>3. /\ id \in DOMAIN b /\ id \in Nat /\ id > LastOf(lines) /\ id \notin S
        /\ S \in SUBSET DOMAIN b /\ S \cap P = {}
    <2>1. \A other \in P : other > LastOf(lines)
      BY DEF NextPage
    <2>2. S \cap P = {} /\ S \in SUBSET DOMAIN b
      BY <1>1, <2>1, PageIsNew
    <2> QED
      BY <1>1, <1>2, <2>1, <2>2
  <1>4. /\ more \in Seq(LinesOf(b)) /\ Len(more) = Len(lines) + 1
        /\ more[Len(lines) + 1] = LineAt(b, id)
        /\ \A n \in DOMAIN lines : n \in DOMAIN more /\ more[n] = lines[n]
        /\ \A n \in DOMAIN more : n \in DOMAIN lines \/ n = Len(lines) + 1
        /\ IdsOf(more) = S \cup {id} /\ LastOf(more) = id
        /\ TotalItems(more) = b[id].items + TotalItems(lines)
        /\ TotalSize(more) = b[id].size + TotalSize(lines)
    <2> HIDE DEF S, P
    <2>1. Grown(more, lines, b, id)
      BY <1>1, <1>3, OneMoreLine
    <2> QED
      BY <2>1 DEF Grown, S
  <1>5. /\ SumOver(ItemsIn(b), S \cup {id}) = b[id].items + SumOver(ItemsIn(b), S)
        /\ SumOver(SizesIn(b), S \cup {id}) = b[id].size + SumOver(SizesIn(b), S)
        /\ Cardinality(S \cup {id}) = Cardinality(S) + 1
    BY <1>3, OneMoreProject
  <1>6. /\ SumOver(ItemsIn(b), P) = b[id].items + SumOver(ItemsIn(b), P \ {id})
        /\ Cardinality(P) = Cardinality(P \ {id}) + 1
        /\ SumOver(ItemsIn(b), P \ {id}) \in Nat /\ Cardinality(P \ {id}) \in Nat
    <2> DEFINE Q == P \ {id}
    <2>1. Q \in SUBSET DOMAIN b /\ id \notin Q /\ Q \cup {id} = P
      BY <1>1, <1>2
    <2> HIDE DEF P, Q
    <2>2. /\ SumOver(ItemsIn(b), Q \cup {id}) = b[id].items + SumOver(ItemsIn(b), Q)
          /\ Cardinality(Q \cup {id}) = Cardinality(Q) + 1
          /\ SumOver(ItemsIn(b), Q) \in Nat /\ Cardinality(Q) \in Nat
      BY <1>3, <2>1, OneMoreProject
    <2> QED
      BY <2>1, <2>2 DEF Q
  <1>7. /\ Len(lines) \in Nat /\ TotalItems(lines) \in Nat /\ TotalSize(lines) \in Nat
        /\ b[id].items \in Nat /\ b[id].size \in Nat /\ LastOf(lines) \in Nat
    BY <1>3, SentIds, TableNumbers
  <1>8. Stream(more, b)
    <2>1. \A m, n \in DOMAIN more : m < n => more[m].id < more[n].id
      <3> SUFFICES ASSUME NEW m \in DOMAIN more, NEW n \in DOMAIN more, m < n
                   PROVE  more[m].id < more[n].id
        OBVIOUS
      <3>1. DOMAIN lines = 1..Len(lines) /\ DOMAIN more = 1..(Len(lines) + 1)
        BY <1>1, <1>4, <1>7
      <3>2. m \in DOMAIN lines
        BY <1>7, <3>1
      <3>3. CASE n \in DOMAIN lines
        BY <1>4, <3>2, <3>3 DEF Stream
      <3>4. CASE n = Len(lines) + 1
        <4>1. more[n].id = id
          BY <1>4, <3>4, LineFields
        <4>2. lines[m].id \in S
          BY <3>2 DEF IdsOf
        <4>3. lines[m].id <= LastOf(lines) /\ lines[m].id \in Nat
          BY <1>3, <4>2, SentIds, TableNumbers
        <4> QED
          BY <1>3, <1>4, <1>7, <3>2, <4>1, <4>3
      <3> QED
        BY <1>4, <3>3, <3>4
    <2>2. \A other \in DOMAIN b : other <= LastOf(more) => other \in IdsOf(more)
      <3> SUFFICES ASSUME NEW other \in DOMAIN b, other <= id
                   PROVE  other \in S \cup {id}
        BY <1>4
      <3>1. other \in Nat
        BY TableNumbers
      <3>2. CASE other <= LastOf(lines)
        BY <3>2 DEF Stream
      <3>3. CASE other > LastOf(lines)
        <4>1. other \in P
          BY <1>2, <3>3 DEF NextPage
        <4> QED
          BY <1>2, <1>3, <3>1, <4>1
      <3> QED
        BY <1>7, <3>1, <3>2, <3>3
    <2>3. /\ Len(more) = Cardinality(IdsOf(more))
          /\ TotalItems(more) = SumOver(ItemsIn(b), IdsOf(more))
          /\ TotalSize(more) = SumOver(SizesIn(b), IdsOf(more))
      BY <1>4, <1>5 DEF Stream
    <2>4. Len(more) <= MaxProjects
      <3> DEFINE sent == Len(lines)
                 others == Cardinality(P \ {id})
      <3>1. sent + (others + 1) <= MaxProjects
        BY <1>6 DEF NextPage
      <3>2. sent \in Nat /\ others \in Nat /\ MaxProjects \in Nat
        BY <1>6, <1>7, ExportAssumption
      <3> HIDE DEF sent, others
      <3>3. sent + 1 <= MaxProjects
        BY <3>1, <3>2
      <3> QED
        BY <1>4, <3>3 DEF sent
    <2>5. TotalItems(more) <= MaxServiceItems
      <3> DEFINE sent == TotalItems(lines)
                 first == b[id].items
                 others == SumOver(ItemsIn(b), P \ {id})
      <3>1. sent + (first + others) <= MaxServiceItems
        BY <1>6 DEF CountsFit
      <3>2. sent \in Nat /\ first \in Nat /\ others \in Nat /\ MaxServiceItems \in Nat
        BY <1>6, <1>7, ExportAssumption
      <3>3. TotalItems(more) = first + sent
        BY <1>4
      <3> HIDE DEF sent, first, others
      <3>4. first + sent <= MaxServiceItems
        BY <3>1, <3>2
      <3> QED
        BY <3>3, <3>4
    <2>6. HeaderBytes + TotalSize(more) + EndBytes <= MaxBytes
      <3> DEFINE sent == TotalSize(lines)
                 size == b[id].size
      <3>1. HeaderBytes + sent + size + EndBytes <= MaxBytes
        OBVIOUS
      <3>2. sent \in Nat /\ size \in Nat /\ MaxBytes \in Nat
        BY <1>7, ExportAssumption
      <3>3. TotalSize(more) = size + sent
        BY <1>4
      <3> HIDE DEF sent, size
      <3>4. HeaderBytes + (size + sent) + EndBytes <= MaxBytes
        BY <3>1, <3>2 DEF HeaderBytes, EndBytes
      <3> QED
        BY <3>3, <3>4
    <2>7. \A other \in IdsOf(more) : b[other].size <= MaxLineBytes
      BY <1>4 DEF Stream
    <2> QED
      BY <1>4, <2>1, <2>2, <2>3, <2>4, <2>5, <2>6, <2>7 DEF Stream
  <1>9. ASSUME DOMAIN rest # {}
        PROVE  NextPage(rest, more, b) /\ CountsFit(counts, rest, more, b)
    <2>1. DOMAIN rest = P \ {id} /\ \A other \in P \ {id} : rest[other] = page[other]
      OBVIOUS
    <2>2. \A other \in P \ {id} : other > id /\ other \in Nat
      BY <1>1, <1>2
    <2>3. /\ DOMAIN rest # {} /\ DOMAIN rest \subseteq DOMAIN b
          /\ \A other \in DOMAIN rest : other > LastOf(more) /\ rest[other] = b[other]
      BY <1>1, <1>4, <1>9, <2>1, <2>2 DEF NextPage
    <2>4. \A it \in DOMAIN rest, other \in DOMAIN b :
            other > LastOf(more) /\ other <= it => other \in DOMAIN rest
      <3> SUFFICES ASSUME NEW it \in DOMAIN rest, NEW other \in DOMAIN b, other > id, other <= it
                   PROVE  other \in P \ {id}
        BY <1>4, <2>1
      <3>1. other \in Nat /\ it \in P
        BY <2>1, TableNumbers
      <3>2. other > LastOf(lines) /\ other # id
        BY <1>3, <1>7, <3>1
      <3> QED
        BY <3>1, <3>2 DEF NextPage
    <2>5. Len(more) + Cardinality(DOMAIN rest) <= MaxProjects
      <3> DEFINE sent == Len(lines)
                 others == Cardinality(P \ {id})
      <3>1. sent + (others + 1) <= MaxProjects
        BY <1>6 DEF NextPage
      <3>2. sent \in Nat /\ others \in Nat /\ MaxProjects \in Nat
        BY <1>6, <1>7, ExportAssumption
      <3>3. Len(more) = sent + 1 /\ Cardinality(DOMAIN rest) = others
        BY <1>4, <2>1
      <3> HIDE DEF sent, others
      <3>4. (sent + 1) + others <= MaxProjects
        BY <3>1, <3>2
      <3> QED
        BY <3>3, <3>4
    <2>6. TotalItems(more) + SumOver(ItemsIn(b), DOMAIN rest) <= MaxServiceItems
      <3> DEFINE sent == TotalItems(lines)
                 first == b[id].items
                 others == SumOver(ItemsIn(b), P \ {id})
      <3>1. sent + (first + others) <= MaxServiceItems
        BY <1>6 DEF CountsFit
      <3>2. sent \in Nat /\ first \in Nat /\ others \in Nat /\ MaxServiceItems \in Nat
        BY <1>6, <1>7, ExportAssumption
      <3>3. TotalItems(more) = first + sent /\ SumOver(ItemsIn(b), DOMAIN rest) = others
        BY <1>4, <2>1
      <3> HIDE DEF sent, first, others
      <3>4. (first + sent) + others <= MaxServiceItems
        BY <3>1, <3>2
      <3> QED
        BY <3>3, <3>4
    <2>7. \A other \in DOMAIN rest : counts[other] = b[other].items
      BY <2>1 DEF CountsFit
    <2>8. NextPage(rest, more, b)
      BY <2>3, <2>4, <2>5 DEF NextPage
    <2> QED
      BY <2>6, <2>7, <2>8 DEF CountsFit
  <1> QED
    BY <1>8, <1>9

\* A page that has too many projects: the table has.
LEMMA TooManyProjects ==
    ASSUME NEW b, IsTable(b), NEW lines, Stream(lines, b), NEW ids \in SUBSET DOMAIN b,
           \A id \in ids : id > LastOf(lines), Cardinality(ids) > MaxProjects - Len(lines)
    PROVE  TooLarge(b)
  <1>1. IdsOf(lines) \cap ids = {} /\ IdsOf(lines) \in SUBSET DOMAIN b
    BY PageIsNew
  <1>2. Cardinality(IdsOf(lines)) + Cardinality(ids) <= Cardinality(DOMAIN b)
    BY <1>1, PartOfTable
  <1>3. /\ Cardinality(ids) \in Nat /\ Cardinality(DOMAIN b) \in Nat /\ Len(lines) \in Nat
        /\ Len(lines) = Cardinality(IdsOf(lines)) /\ MaxProjects \in Nat
    BY TableNumbers, SentIds, FS_Subset, FS_CardinalityType, ExportAssumption DEF Stream
  <1>4. Cardinality(DOMAIN b) > MaxProjects
    BY <1>2, <1>3
  <1> QED
    BY <1>4 DEF TooLarge

\* A page that has too many service items: the table has.
LEMMA TooManyItems ==
    ASSUME NEW b, IsTable(b), NEW lines, Stream(lines, b), NEW page, NextPage(page, lines, b),
           SumOver(ItemsIn(b), DOMAIN page) > MaxServiceItems - TotalItems(lines)
    PROVE  TooLarge(b)
  <1> DEFINE P == DOMAIN page
  <1>1. P \in SUBSET DOMAIN b /\ \A id \in P : id > LastOf(lines)
    BY DEF NextPage
  <1>2. IdsOf(lines) \cap P = {} /\ IdsOf(lines) \in SUBSET DOMAIN b
    BY <1>1, PageIsNew
  <1>3. SumOver(ItemsIn(b), IdsOf(lines)) + SumOver(ItemsIn(b), P)
          <= SumOver(ItemsIn(b), DOMAIN b)
    BY <1>1, <1>2, PartOfTable
  <1>4. /\ IsFiniteSet(P) /\ \A id \in DOMAIN b : ItemsIn(b)[id] \in Nat
        /\ IsFiniteSet(DOMAIN b)
    BY <1>1, TableNumbers, FS_Subset
  <1>5. /\ SumOver(ItemsIn(b), P) \in Nat /\ SumOver(ItemsIn(b), DOMAIN b) \in Nat
        /\ TotalItems(lines) \in Nat /\ TotalItems(lines) = SumOver(ItemsIn(b), IdsOf(lines))
        /\ MaxServiceItems \in Nat
    BY <1>1, <1>4, SumOverIsNatural, SentIds, ExportAssumption DEF Stream
  <1>6. SumOver(ItemsIn(b), P) > MaxServiceItems - TotalItems(lines)
    OBVIOUS
  <1> HIDE DEF P
  <1>7. SumOver(ItemsIn(b), DOMAIN b) > MaxServiceItems
    BY <1>3, <1>5, <1>6
  <1> QED
    BY <1>7 DEF TooLarge, ItemsIn

\* A line that does not fit after the others: the table does not.
LEMMA TooLong ==
    ASSUME NEW b, IsTable(b), NEW lines, Stream(lines, b), NEW id \in DOMAIN b, id > LastOf(lines),
           HeaderBytes + TotalSize(lines) + b[id].size + EndBytes > MaxBytes
    PROVE  TooLarge(b)
  <1> DEFINE S == IdsOf(lines)
  <1>1. S \cap {id} = {} /\ S \in SUBSET DOMAIN b /\ id \notin S
    <2>1. {id} \in SUBSET DOMAIN b /\ \A other \in {id} : other > LastOf(lines)
      OBVIOUS
    <2>2. S \cap {id} = {} /\ S \in SUBSET DOMAIN b
      <3> HIDE DEF S
      <3>1. IdsOf(lines) \cap {id} = {} /\ IdsOf(lines) \in SUBSET DOMAIN b
        BY ONLY IsTable(b), Stream(lines, b), <2>1, PageIsNew
      <3> QED
        BY <3>1 DEF S
    <2> HIDE DEF S
    <2> QED
      BY <2>2
  <1>2. SumOver(SizesIn(b), S \cup {id}) = b[id].size + SumOver(SizesIn(b), S)
    BY <1>1, OneMoreProject
  <1>3. SumOver(SizesIn(b), S \cup {id}) <= SumOver(SizesIn(b), DOMAIN b)
    <2>1. S \cup {id} \subseteq DOMAIN b
      BY <1>1
    <2> HIDE DEF S
    <2> QED
      BY <2>1, TableNumbers, SumOverPart
  <1>4. /\ SumOver(SizesIn(b), DOMAIN b) \in Nat /\ b[id].size \in Nat
        /\ TotalSize(lines) \in Nat /\ TotalSize(lines) = SumOver(SizesIn(b), S)
        /\ MaxBytes \in Nat
    BY TableNumbers, SumOverIsNatural, SentIds, ExportAssumption DEF Stream
  <1> HIDE DEF S
  <1>5. HeaderBytes + EndBytes + SumOver(SizesIn(b), DOMAIN b) > MaxBytes
    BY <1>2, <1>3, <1>4 DEF HeaderBytes, EndBytes
  <1> QED
    BY <1>5 DEF TooLarge, SizesIn

\* Where not even the header fits.
LEMMA NothingFits ==
    ASSUME NEW b, IsTable(b), HeaderBytes + EndBytes > MaxBytes
    PROVE  TooLarge(b)
  <1>1. SumOver(SizesIn(b), DOMAIN b) \in Nat
    BY TableNumbers, SumOverIsNatural
  <1>2. HeaderBytes + EndBytes + SumOver(SizesIn(b), DOMAIN b) > MaxBytes
    BY <1>1, ExportAssumption DEF HeaderBytes, EndBytes
  <1> QED
    BY <1>2 DEF TooLarge, SizesIn

\* When everything was sent, the lines are the table, and it is not too large.
LEMMA AllSent ==
    ASSUME NEW b, IsTable(b), NEW lines, Stream(lines, b), IdsOf(lines) = DOMAIN b
    PROVE  {lines[n] : n \in DOMAIN lines} = LinesOf(b) /\ ~TooLarge(b)
  <1>1. \A n \in DOMAIN lines : lines[n] = LineAt(b, lines[n].id) /\ lines[n].id \in DOMAIN b
    BY SentLine DEF Stream
  <1>2. \A id \in DOMAIN b : \E n \in DOMAIN lines : lines[n].id = id
    BY DEF IdsOf
  <1>3. {lines[n] : n \in DOMAIN lines} = {LineAt(b, id) : id \in DOMAIN b}
    BY <1>1, <1>2
  <1>4. {lines[n] : n \in DOMAIN lines} = LinesOf(b)
    BY <1>3 DEF LinesOf, LineAt
  <1>5. /\ Cardinality(DOMAIN b) = Len(lines) /\ SumOver(ItemsIn(b), DOMAIN b) = TotalItems(lines)
        /\ SumOver(SizesIn(b), DOMAIN b) = TotalSize(lines)
    BY DEF Stream
  <1>6. /\ Len(lines) \in Nat /\ TotalItems(lines) \in Nat /\ TotalSize(lines) \in Nat
        /\ {MaxProjects, MaxServiceItems, MaxBytes} \subseteq Nat
    BY SentIds, ExportAssumption
  <1>7. /\ ~(Cardinality(DOMAIN b) > MaxProjects)
        /\ ~(SumOver(ItemsIn(b), DOMAIN b) > MaxServiceItems)
        /\ ~(HeaderBytes + EndBytes + SumOver(SizesIn(b), DOMAIN b) > MaxBytes)
    BY <1>5, <1>6 DEF Stream, HeaderBytes, EndBytes
  <1>8. \A id \in DOMAIN b : ~(b[id].size > MaxLineBytes)
    BY TableNumbers, ExportAssumption DEF Stream
  <1> QED
    BY <1>4, <1>7, <1>8 DEF TooLarge, ItemsIn, SizesIn

-----------------------------------------------------------------------------
(* The export: the inductive invariant *)

AtWork == {"begun", "paged", "counted", "dated", "read", "committed", "ended"}

\* How far an export e of the table b is.
Exporting(e, b) ==
    /\ Stream(e.lines, b)
    /\ e.state \in {"paged", "counted", "dated"} => NextPage(e.page, e.lines, b)
    /\ e.state \in {"counted", "dated"} => CountsFit(e.counts, e.page, e.lines, b)
    /\ e.state = "dated" => \A id \in DOMAIN e.page : e.dates[id] = b[id].touched
    /\ e.state \in {"read", "committed", "ended"} => IdsOf(e.lines) = DOMAIN b

\* Its transaction sees that table, or has not read any yet.
Sees(e, b) == \/ e.snapshot = {b}
              \/ e.snapshot = {} /\ e.state = "begun" /\ e.lines = <<>>

ExportFields == {"state", "snapshot", "page", "counts", "dates", "lines"}

ExportShape(e) == /\ DOMAIN e = ExportFields
                  /\ e = [field \in ExportFields |-> e[field]]
                  /\ e.state \in AtWork \cup {"idle", "refused", "cut"}
                  /\ e.state = "idle" => e = NoExport

Outcomes(e, moments) ==
    /\ e.state \in AtWork => \E b \in moments : Exporting(e, b) /\ Sees(e, b)
    /\ e.state = "refused" => \E b \in moments : TooLarge(b)

ExportInv == /\ IsTable(base)
             /\ \A b \in since : IsTable(b)
             /\ Running => base \in since
             /\ ExportShape(export)
             /\ Outcomes(export, since)

\* What a statement reads is one of the moments, and the stream is what it was then.
LEMMA ReadsOneMoment ==
    ASSUME ExportInv, export.state \in AtWork \ {"ended"}
    PROVE  /\ SnapshotRead \in since /\ IsTable(SnapshotRead)
           /\ Exporting(export, SnapshotRead)
           /\ export.state # "begun" => export.snapshot = {SnapshotRead}
  <1>1. PICK b \in since : Exporting(export, b) /\ Sees(export, b)
    BY DEF ExportInv, Outcomes
  <1>2. CASE export.snapshot = {b}
    <2>1. SnapshotRead = b
      BY <1>2 DEF SnapshotRead
    <2> QED
      BY <1>1, <1>2, <2>1 DEF ExportInv
  <1>3. CASE export.snapshot = {} /\ export.state = "begun" /\ export.lines = <<>>
    <2>1. SnapshotRead = base /\ base \in since /\ IsTable(base)
      BY <1>3 DEF SnapshotRead, ExportInv, Running
    <2>2. HeaderBytes + EndBytes <= MaxBytes
      <3>1. Stream(<<>>, b)
        BY <1>1, <1>3 DEF Exporting
      <3>2. TotalSize(<<>>) \in Nat /\ HeaderBytes + TotalSize(<<>>) + EndBytes <= MaxBytes
        BY <3>1, SentIds DEF Stream, ExportInv
      <3> QED
        BY <3>2, ExportAssumption DEF HeaderBytes, EndBytes
    <2>3. Exporting(export, base)
      BY <1>3, <2>1, <2>2, NothingSent DEF Exporting
    <2> QED
      BY <1>3, <2>1, <2>3
  <1> QED
    BY <1>1, <1>2, <1>3 DEF Sees

\* The cursor is the last identity that was sent, and the sums are those of the lines.
LEMMA CursorIs == /\ Cursor = LastOf(export.lines)
                  /\ Sent("items") = TotalItems(export.lines)
                  /\ Sent("size") = TotalSize(export.lines)
  BY DEF Cursor, LastOf, Sent, TotalItems, TotalSize

\* The next identities are the first of those that are left.
LEMMA NextIdsAre ==
    ASSUME NEW b, b = SnapshotRead, IsTable(b), Stream(export.lines, b)
    PROVE  /\ NextIds \subseteq {id \in DOMAIN b : id > LastOf(export.lines)}
           /\ \A id \in NextIds, other \in DOMAIN b :
                other > LastOf(export.lines) /\ other <= id => other \in NextIds
           /\ NextIds = {} => IdsOf(export.lines) = DOMAIN b
  <1> DEFINE after == {id \in DOMAIN b : id > LastOf(export.lines)}
             upto(id) == {other \in after : other <= id}
  <1>1. NextIds = {id \in after : Cardinality(upto(id)) <= BatchLimit}
    BY CursorIs DEF NextIds
  <1>2. /\ IsFiniteSet(after) /\ after \in SUBSET Nat
        /\ \A id \in after : IsFiniteSet(upto(id)) /\ Cardinality(upto(id)) \in Nat
    <2>1. IsFiniteSet(after) /\ after \in SUBSET Nat
      BY TableNumbers, FS_Subset
    <2>2. \A id \in after : upto(id) \subseteq after
      OBVIOUS
    <2> HIDE DEF after, upto
    <2> QED
      BY <2>1, <2>2, FS_Subset, FS_CardinalityType
  <1>3. BatchLimit \in Nat /\ BatchLimit >= 1
    <2> DEFINE T == {BatchSize, MaxProjects - Len(export.lines) + 1}
    <2>1. Len(export.lines) \in Nat /\ Len(export.lines) <= MaxProjects
      BY SentIds DEF Stream
    <2>2. T \in SUBSET Nat /\ T # {} /\ \A n \in T : n >= 1
      BY <2>1, ExportAssumption
    <2>3. BatchLimit = Min(T)
      BY DEF BatchLimit
    <2> HIDE DEF T
    <2> QED
      BY <2>2, <2>3, MinOfNaturals
  <1>4. ASSUME NEW id \in NextIds, NEW other \in DOMAIN b,
               other > LastOf(export.lines), other <= id
        PROVE  other \in NextIds
    <2>1. id \in after /\ other \in after /\ Cardinality(upto(id)) <= BatchLimit
      BY <1>1, <1>4
    <2>2. upto(other) \subseteq upto(id)
      BY <1>2, <1>4, <2>1
    <2>3. Cardinality(upto(other)) <= Cardinality(upto(id))
      <3> HIDE DEF upto, after
      <3> QED
        BY <1>2, <2>1, <2>2, FS_Subset
    <2>4. Cardinality(upto(other)) <= BatchLimit
      <3>1. Cardinality(upto(other)) \in Nat /\ Cardinality(upto(id)) \in Nat
        <4> HIDE DEF upto, after
        <4> QED
          BY <1>2, <2>1
      <3>2. \A a, c, d \in Nat : a <= c /\ c <= d => a <= d
        OBVIOUS
      <3> HIDE DEF upto, after
      <3> QED
        BY <1>3, <2>1, <2>3, <3>1, <3>2
    <2> QED
      BY <1>1, <2>1, <2>4
  <1>5. ASSUME NextIds = {}
        PROVE  IdsOf(export.lines) = DOMAIN b
    <2>1. after = {}
      <3> SUFFICES ASSUME after # {}
                   PROVE  FALSE
        OBVIOUS
      <3>1. Min(after) \in after /\ \A n \in after : Min(after) <= n
        <4> HIDE DEF after
        <4> QED
          BY <1>2, MinOfNaturals
      <3>2. upto(Min(after)) = {Min(after)}
        <4>1. Min(after) \in upto(Min(after))
          BY <1>2, <3>1
        <4>2. ASSUME NEW other \in upto(Min(after))
              PROVE  other = Min(after)
          <5>1. other \in after /\ other <= Min(after)
            BY <4>2
          <5>2. other \in Nat /\ Min(after) \in Nat
            <6> HIDE DEF after
            <6> QED
              BY <1>2, <3>1, <5>1
          <5>3. Min(after) <= other
            BY <3>1, <5>1
          <5> HIDE DEF after, upto
          <5> QED
            BY <5>1, <5>2, <5>3
        <4> HIDE DEF after, upto
        <4> QED
          BY <4>1, <4>2
      <3>3. Cardinality(upto(Min(after))) = 1
        BY <3>2, FS_Singleton
      <3>4. Min(after) \in NextIds
        <4> HIDE DEF after, upto
        <4> QED
          BY <1>1, <1>3, <3>1, <3>3
      <3> QED
        BY <1>5, <3>4
    <2>2. \A id \in DOMAIN b : id <= LastOf(export.lines)
      <3>1. LastOf(export.lines) \in Nat
        BY SentIds
      <3> QED
        BY <2>1, <3>1, TableNumbers
    <2> QED
      BY <2>2, SentIds
  <1> QED
    BY <1>1, <1>4, <1>5

\* A statement, a line or the end: the export moves, and the tables stay.
LEMMA ExportMoves ==
    ASSUME ExportInv, UNCHANGED <<base, since>>, Running' => Running,
           ExportShape(export'), Outcomes(export', since)
    PROVE  ExportInv'
  BY DEF ExportInv

\* Another transaction writes a project.
LEMMA WrittenKept ==
    ASSUME ExportInv, NEW id \in ExportIds, ProjectWritten(id)
    PROVE  ExportInv'
  <1>1. PICK project \in BaseProjects :
           base' = [other \in DOMAIN base \cup {id} |->
                      IF other = id THEN project ELSE base[other]]
    BY DEF ProjectWritten
  <1>2. IsTable(base')
    BY <1>1 DEF IsTable, ExportInv
  <1>3. since' = since \cup {base'} /\ UNCHANGED export
    BY DEF ProjectWritten
  <1>4. \A b \in since' : IsTable(b)
    BY <1>2, <1>3 DEF ExportInv
  <1>5. Outcomes(export, since) => Outcomes(export, since')
    BY <1>3 DEF Outcomes
  <1> QED
    BY <1>2, <1>3, <1>4, <1>5 DEF ExportInv

\* The export begins.
LEMMA BeginsKept ==
    ASSUME ExportInv, ExportBegins
    PROVE  ExportInv'
  <1>1. /\ export = NoExport /\ since' = {base} /\ base' = base /\ IsTable(base)
        /\ export' = [NoExport EXCEPT
                        !.state = IF HeaderBytes + EndBytes > MaxBytes THEN "refused" ELSE "begun"]
    BY DEF ExportBegins, ExportInv, ExportShape
  <1>2. ExportShape(export')
    BY <1>1 DEF ExportShape, ExportFields, NoExport, AtWork
  <1>3. CASE HeaderBytes + EndBytes > MaxBytes
    <2>1. export'.state = "refused"
      BY <1>1, <1>3 DEF NoExport
    <2>2. Outcomes(export', since')
      BY <1>1, <1>3, <2>1, NothingFits DEF Outcomes, AtWork
    <2> QED
      BY <1>1, <1>2, <2>2 DEF ExportInv
  <1>4. CASE ~(HeaderBytes + EndBytes > MaxBytes)
    <2>1. export'.state = "begun" /\ export'.lines = <<>> /\ export'.snapshot = {}
      BY <1>1, <1>4 DEF NoExport
    <2>2. HeaderBytes + EndBytes <= MaxBytes
      BY <1>4, ExportAssumption DEF HeaderBytes, EndBytes
    <2>3. Outcomes(export', since')
      BY <1>1, <2>1, <2>2, NothingSent DEF Outcomes, Exporting, Sees
    <2> QED
      BY <1>1, <1>2, <2>3 DEF ExportInv
  <1> QED
    BY <1>3, <1>4

\* A page is read: it is empty, too many, or the next one.
LEMMA PageKept ==
    ASSUME ExportInv, PageRead
    PROVE  ExportInv'
  <1> DEFINE b == SnapshotRead
             lines == export.lines
  <1>1. /\ export.state = "begun" /\ ExportShape(export)
        /\ UNCHANGED <<base, writes, since>>
    BY DEF PageRead, ExportInv
  <1>2. b \in since /\ IsTable(b) /\ Exporting(export, b) /\ Stream(lines, b)
    BY <1>1, ReadsOneMoment DEF Exporting, AtWork
  <1>3. Running
    BY <1>1 DEF Running
  <1> HIDE DEF b
  <1>4. /\ NextIds \subseteq DOMAIN b /\ \A id \in NextIds : id > LastOf(lines)
        /\ \A id \in NextIds, other \in DOMAIN b :
             other > LastOf(lines) /\ other <= id => other \in NextIds
        /\ NextIds = {} => IdsOf(lines) = DOMAIN b
    BY <1>2, NextIdsAre DEF b
  <1>5. CASE NextIds = {}
    <2>1. export' = [export EXCEPT !.state = "read", !.snapshot = {b}]
      BY <1>5 DEF PageRead, b
    <2>2. /\ ExportShape(export') /\ export'.state = "read" /\ export'.snapshot = {b}
          /\ export'.lines = lines
      BY <1>1, <2>1 DEF ExportShape, ExportFields, AtWork
    <2>3. Exporting(export', b) /\ Sees(export', b)
      BY <1>2, <1>4, <1>5, <2>2 DEF Exporting, Sees
    <2>4. Outcomes(export', since)
      BY <1>2, <2>2, <2>3 DEF Outcomes
    <2> QED
      BY <1>1, <1>3, <2>2, <2>4, ExportMoves
  <1>6. CASE NextIds # {} /\ Cardinality(NextIds) > MaxProjects - Len(lines)
    <2>1. export' = [export EXCEPT !.state = "refused", !.snapshot = {b}]
      BY <1>6 DEF PageRead, b
    <2>2. ExportShape(export') /\ export'.state = "refused"
      BY <1>1, <2>1 DEF ExportShape, ExportFields, AtWork
    <2>3. TooLarge(b)
      BY <1>2, <1>4, <1>6, TooManyProjects
    <2>4. Outcomes(export', since)
      BY <1>2, <2>2, <2>3 DEF Outcomes, AtWork
    <2> QED
      BY <1>1, <1>3, <2>2, <2>4, ExportMoves
  <1>7. CASE NextIds # {} /\ ~(Cardinality(NextIds) > MaxProjects - Len(lines))
    <2> DEFINE page == [id \in NextIds |-> b[id]]
    <2>1. export' = [export EXCEPT !.state = "paged", !.snapshot = {b}, !.page = page]
      BY <1>7 DEF PageRead, b
    <2>2. DOMAIN page = NextIds /\ \A id \in NextIds : page[id] = b[id]
      OBVIOUS
    <2>3. Len(lines) + Cardinality(DOMAIN page) <= MaxProjects
      <3>1. Len(lines) \in Nat /\ MaxProjects \in Nat /\ Cardinality(NextIds) \in Nat
        BY <1>2, <1>4, SentIds, TableNumbers, ExportAssumption, FS_Subset, FS_CardinalityType
      <3> HIDE DEF page, lines
      <3> QED
        BY <1>7, <2>2, <3>1
    <2> HIDE DEF page
    <2>4. NextPage(page, lines, b)
      BY <1>4, <1>7, <2>2, <2>3 DEF NextPage
    <2>5. /\ ExportShape(export') /\ export'.state = "paged" /\ export'.snapshot = {b}
          /\ export'.lines = lines /\ export'.page = page
      BY <1>1, <2>1 DEF ExportShape, ExportFields, AtWork
    <2>6. Exporting(export', b) /\ Sees(export', b)
      BY <1>2, <2>4, <2>5 DEF Exporting, Sees
    <2>7. Outcomes(export', since)
      BY <1>2, <2>5, <2>6 DEF Outcomes
    <2> QED
      BY <1>1, <1>3, <2>5, <2>7, ExportMoves
  <1> QED
    BY <1>5, <1>6, <1>7

\* The items of the page are counted: they are too many, or fit.
LEMMA ItemsKept ==
    ASSUME ExportInv, ItemsRead
    PROVE  ExportInv'
  <1> DEFINE b == SnapshotRead
             lines == export.lines
             page == export.page
             counts == CountsRead(DOMAIN page)
  <1>1. /\ export.state = "paged" /\ ExportShape(export)
        /\ UNCHANGED <<base, writes, since>>
    BY DEF ItemsRead, ExportInv
  <1>2. /\ b \in since /\ IsTable(b) /\ Exporting(export, b) /\ Stream(lines, b)
        /\ export.snapshot = {b} /\ NextPage(page, lines, b)
    BY <1>1, ReadsOneMoment DEF Exporting, AtWork
  <1>3. Running
    BY <1>1 DEF Running
  <1>4. DOMAIN counts = DOMAIN page /\ \A id \in DOMAIN page : counts[id] = b[id].items
    BY DEF CountsRead
  <1> HIDE DEF b, counts
  <1>5. /\ SumOver(counts, DOMAIN counts) = SumOver(ItemsIn(b), DOMAIN page)
        /\ SumOver(ItemsIn(b), DOMAIN page) \in Nat
    <2>1. /\ DOMAIN page \subseteq DOMAIN b /\ IsFiniteSet(DOMAIN page)
          /\ \A id \in DOMAIN page : ItemsIn(b)[id] \in Nat
          /\ \A id \in DOMAIN page : counts[id] = ItemsIn(b)[id]
      <3>1. DOMAIN page \subseteq DOMAIN b
        BY <1>2 DEF NextPage
      <3> QED
        BY <1>2, <1>4, <3>1, TableNumbers, FS_Subset
    <2> QED
      BY <1>4, <2>1, SumOverSame, SumOverIsNatural
  <1>6. CASE SumOver(counts, DOMAIN counts) > MaxServiceItems - TotalItems(lines)
    <2>1. export' = [export EXCEPT !.state = "refused"]
      BY <1>6, CursorIs DEF ItemsRead, counts
    <2>2. ExportShape(export') /\ export'.state = "refused"
      BY <1>1, <2>1 DEF ExportShape, ExportFields, AtWork
    <2>3. TooLarge(b)
      BY <1>2, <1>5, <1>6, TooManyItems
    <2>4. Outcomes(export', since)
      BY <1>2, <2>2, <2>3 DEF Outcomes, AtWork
    <2> QED
      BY <1>1, <1>3, <2>2, <2>4, ExportMoves
  <1>7. CASE ~(SumOver(counts, DOMAIN counts) > MaxServiceItems - TotalItems(lines))
    <2>1. export' = [export EXCEPT !.state = "counted", !.counts = counts]
      BY <1>7, CursorIs DEF ItemsRead, counts
    <2>2. TotalItems(lines) + SumOver(ItemsIn(b), DOMAIN page) <= MaxServiceItems
      <3>1. TotalItems(lines) \in Nat /\ MaxServiceItems \in Nat
        BY <1>2, SentIds, ExportAssumption
      <3> HIDE DEF lines, page
      <3> QED
        BY <1>5, <1>7, <3>1
    <2>3. CountsFit(counts, page, lines, b)
      BY <1>4, <2>2 DEF CountsFit
    <2>4. /\ ExportShape(export') /\ export'.state = "counted" /\ export'.snapshot = {b}
          /\ export'.lines = lines /\ export'.page = page /\ export'.counts = counts
      BY <1>1, <1>2, <2>1 DEF ExportShape, ExportFields, AtWork
    <2>5. Exporting(export', b) /\ Sees(export', b)
      BY <1>2, <2>3, <2>4 DEF Exporting, Sees
    <2>6. Outcomes(export', since)
      BY <1>2, <2>4, <2>5 DEF Outcomes
    <2> QED
      BY <1>1, <1>3, <2>4, <2>6, ExportMoves
  <1> QED
    BY <1>6, <1>7

\* The modification times of the page are read.
LEMMA DatesKept ==
    ASSUME ExportInv, ModificationsRead
    PROVE  ExportInv'
  <1> DEFINE b == SnapshotRead
             dates == DatesRead(DOMAIN export.page)
  <1>1. /\ export.state = "counted" /\ ExportShape(export) /\ Running
        /\ UNCHANGED <<base, writes, since>>
        /\ export' = [export EXCEPT !.state = "dated", !.dates = dates]
    BY DEF ModificationsRead, ExportInv, Running
  <1>2. b \in since /\ Exporting(export, b) /\ export.snapshot = {b}
    BY <1>1, ReadsOneMoment DEF AtWork
  <1>3. \A id \in DOMAIN export.page : dates[id] = b[id].touched
    BY DEF DatesRead
  <1> HIDE DEF b, dates
  <1>4. /\ ExportShape(export') /\ export'.state = "dated" /\ export'.snapshot = {b}
        /\ export'.lines = export.lines /\ export'.page = export.page
        /\ export'.counts = export.counts /\ export'.dates = dates
    BY <1>1, <1>2 DEF ExportShape, ExportFields, AtWork
  <1>5. Exporting(export', b) /\ Sees(export', b)
    BY <1>1, <1>2, <1>3, <1>4 DEF Exporting, Sees
  <1>6. Outcomes(export', since)
    BY <1>2, <1>4, <1>5 DEF Outcomes
  <1> QED
    BY <1>1, <1>4, <1>6, ExportMoves

\* A line goes out, or is too long.
LEMMA LineKept ==
    ASSUME ExportInv, LineSent
    PROVE  ExportInv'
  <1> DEFINE b == SnapshotRead
             lines == export.lines
             page == export.page
             id == Min(DOMAIN page)
             rest == [other \in DOMAIN page \ {id} |-> page[other]]
             line == ExportLine(id, page[id], export.counts[id], export.dates[id])
             more == Append(lines, line)
  <1>1. /\ export.state = "dated" /\ ExportShape(export) /\ Running
        /\ UNCHANGED <<base, writes, since>>
    BY DEF LineSent, ExportInv, Running
  <1>2. /\ b \in since /\ IsTable(b) /\ Stream(lines, b)
        /\ export.snapshot = {b} /\ NextPage(page, lines, b)
        /\ CountsFit(export.counts, page, lines, b)
        /\ \A other \in DOMAIN page : export.dates[other] = b[other].touched
    BY <1>1, ReadsOneMoment DEF Exporting, AtWork
  <1> HIDE DEF b
  <1>3. id \in DOMAIN page /\ id \in DOMAIN b /\ id > LastOf(lines)
    <2>1. DOMAIN page \in SUBSET Nat /\ DOMAIN page # {}
      BY <1>2, TableNumbers DEF NextPage
    <2>2. id \in DOMAIN page
      BY <2>1, MinOfNaturals
    <2> QED
      BY <1>2, <2>2 DEF NextPage
  <1>4. line = LineAt(b, id) /\ page[id] = b[id]
    BY <1>2, <1>3 DEF NextPage, CountsFit, LineAt
  <1>5. DOMAIN rest = DOMAIN page \ {id}
    OBVIOUS
  <1> DEFINE unfit == \/ b[id].size > MaxLineBytes
                      \/ HeaderBytes + TotalSize(lines) + b[id].size + EndBytes > MaxBytes
  <1>6. export' = IF unfit
                  THEN [export EXCEPT !.state = "refused"]
                  ELSE [export EXCEPT !.state = IF DOMAIN rest = {} THEN "begun" ELSE "dated",
                                      !.page = rest, !.lines = more]
    BY <1>4, <1>5, CursorIs DEF LineSent, DoesNotFit
  <1> HIDE DEF id, rest, line
  <1>7. CASE unfit
    <2>1. export' = [export EXCEPT !.state = "refused"]
      BY <1>6, <1>7
    <2>2. ExportShape(export') /\ export'.state = "refused"
      BY <1>1, <2>1 DEF ExportShape, ExportFields, AtWork
    <2>3. TooLarge(b)
      BY <1>2, <1>3, <1>7, TooLong DEF TooLarge
    <2>4. Outcomes(export', since)
      BY <1>2, <2>2, <2>3 DEF Outcomes, AtWork
    <2> QED
      BY <1>1, <2>2, <2>4, ExportMoves
  <1>8. CASE ~unfit
    <2>1. /\ HeaderBytes + TotalSize(lines) + b[id].size + EndBytes <= MaxBytes
          /\ b[id].size <= MaxLineBytes
      <3>1. /\ TotalSize(lines) \in Nat /\ b[id].size \in Nat
            /\ MaxBytes \in Nat /\ MaxLineBytes \in Nat
        BY <1>2, <1>3, SentIds, TableNumbers, ExportAssumption
      <3> HIDE DEF lines
      <3> QED
        BY <1>8, <3>1 DEF HeaderBytes, EndBytes
    <2>2. /\ Stream(more, b)
          /\ DOMAIN rest # {} => NextPage(rest, more, b) /\ CountsFit(export.counts, rest, more, b)
      BY <1>2, <1>4, <2>1, NextLine DEF id, rest
    <2> DEFINE state == IF DOMAIN rest = {} THEN "begun" ELSE "dated"
    <2>3. export' = [export EXCEPT !.state = state, !.page = rest, !.lines = more]
      BY <1>6, <1>8
    <2>4. /\ ExportShape(export') /\ export'.state = state /\ export'.snapshot = {b}
          /\ export'.lines = more /\ export'.page = rest
          /\ export'.counts = export.counts /\ export'.dates = export.dates
      <3>1. state \in AtWork
        BY DEF AtWork
      <3> HIDE DEF state, more
      <3> QED
        BY <1>1, <1>2, <2>3, <3>1 DEF ExportShape, ExportFields, AtWork
    <2>5. \A other \in DOMAIN rest : export.dates[other] = b[other].touched
      BY <1>2, <1>5
    <2> HIDE DEF more
    <2>6. Exporting(export', b) /\ Sees(export', b)
      BY <2>2, <2>4, <2>5 DEF Exporting, Sees
    <2>7. Outcomes(export', since)
      BY <1>2, <2>4, <2>6 DEF Outcomes
    <2> QED
      BY <1>1, <2>4, <2>7, ExportMoves
  <1> QED
    BY <1>7, <1>8

\* The end of the stream, with its record or without.
LEMMA EndKept ==
    ASSUME ExportInv, ExportCommits \/ EndSent \/ ExportCut
    PROVE  ExportInv'
  <1>1. CASE ExportCommits \/ EndSent
    <2> DEFINE state == IF ExportCommits THEN "committed" ELSE "ended"
    <2>1. /\ export.state \in {"read", "committed"} /\ ExportShape(export) /\ Running
          /\ UNCHANGED <<base, since>>
          /\ export' = [export EXCEPT !.state = state] /\ state \in {"committed", "ended"}
      BY <1>1 DEF ExportCommits, EndSent, ExportInv, Running
    <2> HIDE DEF state
    <2>2. PICK b \in since : Exporting(export, b) /\ Sees(export, b)
      BY <2>1 DEF ExportInv, Outcomes, AtWork
    <2>3. /\ ExportShape(export') /\ export'.state = state
          /\ export'.lines = export.lines /\ export'.snapshot = export.snapshot
      BY <2>1 DEF ExportShape, ExportFields, AtWork
    <2>4. Exporting(export', b) /\ Sees(export', b)
      BY <2>1, <2>2, <2>3 DEF Exporting, Sees
    <2>5. Outcomes(export', since)
      BY <2>1, <2>3, <2>4 DEF Outcomes
    <2> QED
      BY <2>1, <2>3, <2>5, ExportMoves
  <1>2. CASE ExportCut
    <2>1. /\ ExportShape(export) /\ Running /\ UNCHANGED <<base, since>>
          /\ export' = [export EXCEPT !.state = "cut"]
      BY <1>2 DEF ExportCut, ExportInv
    <2>2. ExportShape(export') /\ export'.state = "cut"
      BY <2>1 DEF ExportShape, ExportFields, AtWork
    <2>3. Outcomes(export', since)
      BY <2>2 DEF Outcomes, AtWork
    <2> QED
      BY <2>1, <2>2, <2>3, ExportMoves
  <1> QED
    BY <1>1, <1>2

\* Every step keeps the invariant.
LEMMA ExportKept == ExportInv /\ [ExportNext]_exportVars => ExportInv'
  <1> SUFFICES ASSUME ExportInv, [ExportNext]_exportVars
               PROVE  ExportInv'
    OBVIOUS
  <1>1. CASE UNCHANGED exportVars
    <2>1. UNCHANGED <<base, since, export>>
      BY <1>1 DEF exportVars
    <2> QED
      BY <2>1 DEF ExportInv, Running
  <1> QED
    BY <1>1, WrittenKept, BeginsKept, PageKept, ItemsKept, DatesKept, LineKept, EndKept
       DEF ExportNext

\* The projects before the export.
LEMMA ExportStarts == ExportInit => ExportInv
  <1> SUFFICES ASSUME ExportInit
               PROVE  ExportInv
    OBVIOUS
  <1>1. IsTable(base) /\ since = {} /\ export = NoExport
    BY FirstBasesAssumption DEF ExportInit, IsTable
  <1>2. ExportShape(export) /\ export.state = "idle"
    BY <1>1 DEF ExportShape, ExportFields, NoExport
  <1>3. Outcomes(export, since)
    BY <1>2 DEF Outcomes, AtWork
  <1> QED
    BY <1>1, <1>2, <1>3 DEF ExportInv, Running

\* For any number of projects and pages, and whatever is written meanwhile: a stream with its
\* end record is the tenant's projects at one moment, each once and in order, and an export is
\* refused only where they are too large (ExportProjectSnapshot, ProjectSnapshotStream).
THEOREM StreamIsOneMoment == ExportSpec => []ExportIsOneMoment
  <1>1. ExportInv => ExportIsOneMoment
    <2> SUFFICES ASSUME ExportInv
                 PROVE  ExportIsOneMoment
      OBVIOUS
    <2>1. ASSUME export.state = "ended"
          PROVE  /\ \E b \in since :
                      /\ {export.lines[n] : n \in DOMAIN export.lines} = LinesOf(b)
                      /\ ~TooLarge(b)
                 /\ \A m, n \in DOMAIN export.lines :
                      m < n => export.lines[m].id < export.lines[n].id
      <3>1. PICK b \in since : Exporting(export, b)
        BY <2>1 DEF ExportInv, Outcomes, AtWork
      <3>2. IsTable(b) /\ Stream(export.lines, b) /\ IdsOf(export.lines) = DOMAIN b
        BY <2>1, <3>1 DEF ExportInv, Exporting
      <3> QED
        BY <3>1, <3>2, AllSent DEF Stream
    <2>2. export.state = "refused" => \E b \in since : TooLarge(b)
      BY DEF ExportInv, Outcomes
    <2> QED
      BY <2>1, <2>2 DEF ExportIsOneMoment
  <1> QED
    BY <1>1, ExportStarts, ExportKept, PTL DEF ExportSpec
=============================================================================
