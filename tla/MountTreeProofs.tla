-------------------------- MODULE MountTreeProofs ---------------------------
(***************************************************************************)
(* What the operators of MountTree do to any table: which mounts they      *)
(* leave alone, where lookups and trees end, and what is attached where.   *)
(***************************************************************************)
EXTENDS MountTree, FiniteSetTheorems, SequenceTheorems, WellFoundedInduction, TLAPS

(* Induction, for a set of numbers.                                        *)
LEMMA NatSet ==
    ASSUME NEW S, 0 \in S, \A n \in Nat : n \in S => n + 1 \in S
    PROVE  Nat \subseteq S
<1> DEFINE R == OpToRel(<, Nat)
           T == Nat \ S
<1>1. IsWellFoundedOn(R, Nat)
  BY NatLessThanWellFounded
<1>2. \A i, j \in Nat : <<i, j>> \in R <=> i < j
  BY DEF OpToRel
<1> HIDE DEF R
<1>3. SUFFICES ASSUME T # {} PROVE FALSE
  OBVIOUS
<1>4. PICK x \in T : \A y \in T : ~(<<y, x>> \in R)
  BY <1>1, <1>3, WFMin
<1>5. x \in Nat /\ x # 0 /\ x - 1 \in Nat /\ (x - 1) + 1 = x /\ x - 1 < x
  BY <1>4
<1>6. x - 1 \in T
  BY <1>4, <1>5
<1>7. <<x - 1, x>> \in R
  BY <1>2, <1>4, <1>5
<1> QED
  BY <1>4, <1>6, <1>7

(* A function on 0 .. N, defined from one value to the next.               *)
Iteration(g, N, V, a, F) ==
    /\ g \in [0 .. N -> V]
    /\ g[0] = a
    /\ \A n \in 1 .. N : g[n] = F[g[n - 1]]

(* There always is one.                                                    *)
LEMMA Iterates ==
    ASSUME NEW N \in Nat, NEW V, NEW a \in V, NEW F \in [V -> V]
    PROVE  \E g : Iteration(g, N, V, a, F)
<1> DEFINE Upto(k, g) == g[0] = a /\ \A n \in 1 .. k : g[n] = F[g[n - 1]]
           S == {k \in Nat : \E g \in [0 .. k -> V] : Upto(k, g)}
<1>1. 0 \in S
  <2> DEFINE g == [n \in 0 .. 0 |-> a]
  <2>1. g \in [0 .. 0 -> V] /\ Upto(0, g)
    OBVIOUS
  <2> QED
    BY <2>1
<1>2. ASSUME NEW k \in Nat, k \in S
      PROVE  k + 1 \in S
  <2>1. PICK g \in [0 .. k -> V] : Upto(k, g)
    BY <1>2
  <2> DEFINE h == [n \in 0 .. k + 1 |-> IF n = k + 1 THEN F[g[k]] ELSE g[n]]
  <2>2. h \in [0 .. k + 1 -> V] /\ h[0] = a
    BY <2>1
  <2>3. ASSUME NEW n \in 1 .. k + 1
        PROVE  h[n] = F[h[n - 1]]
    <3>1. CASE n = k + 1
      <4>1. h[n] = F[g[k]] /\ h[n - 1] = g[k]
        BY <3>1
      <4> QED
        BY <4>1
    <3>2. CASE n \in 1 .. k
      <4>1. h[n] = g[n] /\ h[n - 1] = g[n - 1]
        BY <3>2
      <4> QED
        BY <2>1, <3>2, <4>1
    <3> QED
      BY <3>1, <3>2
  <2> HIDE DEF h
  <2> QED
    BY <2>2, <2>3
<1> HIDE DEF S
<1>3. N \in S
  BY <1>1, <1>2, NatSet
<1> QED
  BY <1>3 DEF S, Iteration

(* A set of numbers up to n has a greatest one.                            *)
LEMMA MaxIn ==
    ASSUME NEW n \in Nat, NEW T \in SUBSET (1 .. n), T # {}
    PROVE  Max(T) \in T /\ \A y \in T : Max(T) >= y
<1> DEFINE S == {k \in Nat : \A U \in SUBSET (1 .. k) : U # {} => \E x \in U : \A y \in U : x >= y}
<1>1. 0 \in S
  <2>1. \A U \in SUBSET (1 .. 0) : U = {}
    OBVIOUS
  <2> QED
    BY <2>1
<1>2. ASSUME NEW k \in Nat, k \in S
      PROVE  k + 1 \in S
  <2> SUFFICES ASSUME NEW U \in SUBSET (1 .. k + 1), U # {}
               PROVE  \E x \in U : \A y \in U : x >= y
    OBVIOUS
  <2>1. CASE k + 1 \in U
    BY <2>1
  <2>2. CASE k + 1 \notin U
    <3>1. U \in SUBSET (1 .. k)
      BY <2>2
    <3> QED
      BY <1>2, <3>1
  <2> QED
    BY <2>1, <2>2
<1> HIDE DEF S
<1>3. n \in S
  BY <1>1, <1>2, NatSet
<1>4. \E x \in T : \A y \in T : x >= y
  BY <1>3 DEF S
<1> QED
  BY <1>4 DEF Max

-----------------------------------------------------------------------------
(* Mount tables, which are sequences.                                      *)

IsSeq(ms) == ms \in Seq(Range(ms))

(* The indices of a table.                                                 *)
LEMMA SeqFacts ==
    ASSUME NEW ms, IsSeq(ms)
    PROVE  Len(ms) \in Nat /\ DOMAIN ms = 1 .. Len(ms)
BY LenProperties DEF IsSeq

(* Every sequence is a table.                                              *)
LEMMA EverySeq ==
    ASSUME NEW S, NEW s \in Seq(S)
    PROVE  IsSeq(s)
<1>1. Len(s) \in Nat /\ s \in [1 .. Len(s) -> S]
  BY LenProperties
<1>2. s \in [1 .. Len(s) -> Range(s)]
  BY <1>1 DEF Range
<1> QED
  BY <1>1, <1>2, SeqDef DEF IsSeq

(* So is a function on an initial segment of the numbers.                  *)
LEMMA FunctionIsSeq ==
    ASSUME NEW n \in Nat, NEW f, DOMAIN f = 1 .. n, f = [i \in DOMAIN f |-> f[i]]
    PROVE  IsSeq(f) /\ Len(f) = n
<1>1. f \in [1 .. n -> Range(f)]
  BY DEF Range
<1>2. f \in Seq(Range(f))
  BY <1>1, SeqDef
<1>3. Len(f) \in Nat /\ DOMAIN f = 1 .. Len(f)
  BY <1>2, LenProperties
<1> QED
  BY <1>2, <1>3 DEF IsSeq

(* A longer table.                                                         *)
LEMMA SeqConcat ==
    ASSUME NEW s, NEW t, IsSeq(s), IsSeq(t)
    PROVE  /\ IsSeq(s \o t)
           /\ Len(s \o t) = Len(s) + Len(t)
           /\ \A i \in 1 .. Len(s) : (s \o t)[i] = s[i]
           /\ \A i \in 1 .. Len(t) : (s \o t)[Len(s) + i] = t[i]
<1> DEFINE S == Range(s) \cup Range(t)
<1>1. s \in Seq(S) /\ t \in Seq(S)
  BY SeqMonotonic DEF IsSeq
<1>2. Len(s) \in Nat /\ Len(t) \in Nat
  BY SeqFacts
<1>3. /\ s \o t \in Seq(S)
      /\ Len(s \o t) = Len(s) + Len(t)
      /\ \A i \in 1 .. Len(s) + Len(t) :
            (s \o t)[i] = IF i <= Len(s) THEN s[i] ELSE t[i - Len(s)]
  <2> HIDE DEF S
  <2> QED
    BY <1>1, ConcatProperties
<1>4. IsSeq(s \o t)
  BY <1>3, EverySeq
<1>5. ASSUME NEW i \in 1 .. Len(s)
      PROVE  (s \o t)[i] = s[i]
  <2>1. i \in 1 .. Len(s) + Len(t) /\ i <= Len(s)
    BY <1>2
  <2> QED
    BY <1>3, <2>1
<1>6. ASSUME NEW i \in 1 .. Len(t)
      PROVE  (s \o t)[Len(s) + i] = t[i]
  <2>1. Len(s) + i \in 1 .. Len(s) + Len(t) /\ ~(Len(s) + i <= Len(s)) /\ (Len(s) + i) - Len(s) = i
    BY <1>2
  <2> QED
    BY <1>3, <2>1
<1> QED
  BY <1>3, <1>4, <1>5, <1>6

-----------------------------------------------------------------------------
(* Trees of mounts.                                                        *)

(* A set of mounts is closed if it has all that is mounted on its mounts.  *)
Closed(ms, X) == \A i \in Mounted(ms) : ms[i].parent \in X => i \in X

(* The levels from which Tree is built.                                    *)
LEMMA TreeLevels ==
    ASSUME NEW ms, Len(ms) \in Nat, NEW m
    PROVE  \E g : /\ g[0] = {m}
                  /\ \A n \in 1 .. Len(ms) : g[n] = With(ms, g[n - 1])
                  /\ Tree(ms, m) = g[Len(ms)]
<1> DEFINE V == SUBSET ({m} \cup DOMAIN ms)
           F == [S \in V |-> With(ms, S)]
           Is(g) == g = [n \in 0 .. Len(ms) |-> IF n = 0 THEN {m} ELSE With(ms, g[n - 1])]
           f == CHOOSE g : Is(g)
<1>1. {m} \in V /\ F \in [V -> V]
  <2>1. ASSUME NEW S \in V
        PROVE  With(ms, S) \in V
    BY DEF With, Mounted
  <2> QED
    BY <2>1
<1>2. PICK g : Iteration(g, Len(ms), V, {m}, F)
  <2> HIDE DEF F, V
  <2> QED
    BY <1>1, Iterates
<1>3. Is(g)
  <2>1. ASSUME NEW n \in 1 .. Len(ms)
        PROVE  g[n] = With(ms, g[n - 1])
    <3>1. n - 1 \in 0 .. Len(ms)
      OBVIOUS
    <3>2. g[n - 1] \in V /\ g[n] = F[g[n - 1]]
      BY <1>2, <3>1 DEF Iteration
    <3> HIDE DEF V
    <3> QED
      BY <3>2
  <2>2. \A n \in 0 .. Len(ms) : g[n] = IF n = 0 THEN {m} ELSE With(ms, g[n - 1])
    BY <1>2, <2>1 DEF Iteration
  <2>3. g = [n \in 0 .. Len(ms) |-> g[n]]
    BY <1>2 DEF Iteration
  <2> QED
    BY <2>2, <2>3, Zenon
<1>4. Is(f)
  BY <1>3, Zenon
<1>5. Tree(ms, m) = f[Len(ms)]
  BY DEF Tree
<1> HIDE DEF f
<1>6. f[0] = {m} /\ \A n \in 1 .. Len(ms) : f[n] = With(ms, f[n - 1])
  <2>1. \A n \in 0 .. Len(ms) : f[n] = IF n = 0 THEN {m} ELSE With(ms, f[n - 1])
    BY <1>4, Zenon
  <2> QED
    BY <2>1
<1> QED
  BY <1>5, <1>6

(* A tree lies within every closed set its top is in.                      *)
LEMMA TreeWithin ==
    ASSUME NEW ms, Len(ms) \in Nat, NEW X, Closed(ms, X), NEW m \in X
    PROVE  Tree(ms, m) \subseteq X
<1>1. PICK g : /\ g[0] = {m}
               /\ \A n \in 1 .. Len(ms) : g[n] = With(ms, g[n - 1])
               /\ Tree(ms, m) = g[Len(ms)]
  BY TreeLevels
<1> DEFINE S == {n \in Nat : n \in 0 .. Len(ms) => g[n] \subseteq X}
<1>2. 0 \in S
  BY <1>1
<1>3. ASSUME NEW n \in Nat, n \in S
      PROVE  n + 1 \in S
  <2>1. CASE n + 1 \in 0 .. Len(ms)
    <3>1. g[n + 1] = With(ms, g[n]) /\ g[n] \subseteq X
      BY <1>1, <1>3, <2>1
    <3> QED
      BY <3>1 DEF With, Closed
  <2> QED
    BY <2>1
<1> HIDE DEF S
<1>4. Len(ms) \in S
  BY <1>2, <1>3, NatSet
<1> QED
  BY <1>1, <1>4 DEF S

(* A tree holds its top, and with every other mount its parent.            *)
LEMMA TreeParents ==
    ASSUME NEW ms, Len(ms) \in Nat, NEW m
    PROVE  /\ m \in Tree(ms, m)
           /\ \A i \in Tree(ms, m) \ {m} : i \in Mounted(ms) /\ ms[i].parent \in Tree(ms, m)
<1>1. PICK g : /\ g[0] = {m}
               /\ \A n \in 1 .. Len(ms) : g[n] = With(ms, g[n - 1])
               /\ Tree(ms, m) = g[Len(ms)]
  BY TreeLevels
<1> DEFINE Rooted(U) == m \in U /\ \A i \in U \ {m} : i \in Mounted(ms) /\ ms[i].parent \in U
           S == {n \in Nat : n \in 0 .. Len(ms) => Rooted(g[n])}
<1>2. 0 \in S
  BY <1>1
<1>3. ASSUME NEW n \in Nat, n \in S
      PROVE  n + 1 \in S
  <2>1. CASE n + 1 \in 0 .. Len(ms)
    <3>1. g[n + 1] = With(ms, g[n]) /\ Rooted(g[n])
      BY <1>1, <1>3, <2>1
    <3> QED
      BY <3>1 DEF With
  <2> QED
    BY <2>1
<1> HIDE DEF S
<1>4. Len(ms) \in S
  BY <1>2, <1>3, NatSet
<1> QED
  BY <1>1, <1>4 DEF S

(* A tree is closed: each level adds a mount or is the last, and there are *)
(* not more mounts than the table has.                                     *)
LEMMA TreeClosed ==
    ASSUME NEW ms, IsSeq(ms), NEW m \in DOMAIN ms
    PROVE  Closed(ms, Tree(ms, m)) /\ Tree(ms, m) \subseteq DOMAIN ms
<1>1. PICK g : /\ g[0] = {m}
               /\ \A n \in 1 .. Len(ms) : g[n] = With(ms, g[n - 1])
               /\ Tree(ms, m) = g[Len(ms)]
  BY TreeLevels, SeqFacts
<1>2. IsFiniteSet(DOMAIN ms) /\ Cardinality(DOMAIN ms) = Len(ms)
  <2>1. DOMAIN ms = 1 .. Len(ms) /\ Len(ms) \in Nat /\ Len(ms) \in Int /\ 1 \in Int
    BY SeqFacts
  <2>2. /\ IsFiniteSet(1 .. Len(ms))
        /\ Cardinality(1 .. Len(ms)) = IF 1 > Len(ms) THEN 0 ELSE Len(ms) - 1 + 1
    BY <2>1, FS_Interval
  <2>3. Cardinality(1 .. Len(ms)) = Len(ms)
    BY <2>1, <2>2
  <2> QED
    BY <2>1, <2>2, <2>3, Zenon
<1> DEFINE S == {n \in Nat : n \in 0 .. Len(ms) =>
                    /\ g[n] \subseteq DOMAIN ms
                    /\ Closed(ms, g[n]) \/ Cardinality(g[n]) > n}
<1>3. 0 \in S
  <2>1. Cardinality({m}) = 1
    BY FS_Singleton
  <2>2. g[0] \subseteq DOMAIN ms /\ Cardinality(g[0]) > 0
    BY <1>1, <2>1
  <2> QED
    BY <2>2
<1>4. ASSUME NEW n \in Nat, n \in S
      PROVE  n + 1 \in S
  <2> SUFFICES ASSUME n + 1 \in 0 .. Len(ms)
               PROVE  /\ g[n + 1] \subseteq DOMAIN ms
                      /\ Closed(ms, g[n + 1]) \/ Cardinality(g[n + 1]) > n + 1
    OBVIOUS
  <2>1. g[n + 1] = With(ms, g[n])
    BY <1>1, SeqFacts
  <2>2. g[n] \subseteq DOMAIN ms /\ (Closed(ms, g[n]) \/ Cardinality(g[n]) > n)
    BY <1>4, SeqFacts
  <2>3. g[n + 1] \subseteq DOMAIN ms
    BY <2>1, <2>2 DEF With, Mounted
  <2>4. CASE Closed(ms, g[n])
    <3>1. g[n + 1] = g[n]
      BY <2>1, <2>4 DEF With, Closed
    <3> QED
      BY <2>3, <2>4, <3>1
  <2>5. CASE ~Closed(ms, g[n]) /\ Cardinality(g[n]) > n
    <3>1. PICK i \in Mounted(ms) : ms[i].parent \in g[n] /\ i \notin g[n]
      BY <2>5 DEF Closed
    <3>2. IsFiniteSet(g[n]) /\ IsFiniteSet(g[n + 1])
      BY <1>2, <2>2, <2>3, FS_Subset
    <3>3. Cardinality(g[n] \cup {i}) = Cardinality(g[n]) + 1
      BY <3>1, <3>2, FS_AddElement
    <3>4. g[n] \cup {i} \subseteq g[n + 1]
      BY <2>1, <3>1 DEF With
    <3>5. Cardinality(g[n] \cup {i}) <= Cardinality(g[n + 1])
      BY <3>2, <3>4, FS_Subset
    <3>6. Cardinality(g[n]) \in Nat /\ Cardinality(g[n + 1]) \in Nat
      BY <3>2, FS_CardinalityType
    <3> QED
      BY <2>3, <2>5, <3>3, <3>5, <3>6
  <2> QED
    BY <2>2, <2>4, <2>5
<1> HIDE DEF S
<1>5. Len(ms) \in S
  BY <1>3, <1>4, NatSet, SeqFacts
<1>6. Len(ms) \in Nat /\ Len(ms) \in 0 .. Len(ms)
  BY SeqFacts
<1>7. /\ g[Len(ms)] \subseteq DOMAIN ms
      /\ Closed(ms, g[Len(ms)]) \/ Cardinality(g[Len(ms)]) > Len(ms)
  BY <1>5, <1>6, Zenon DEF S
<1>8. Cardinality(g[Len(ms)]) <= Len(ms) /\ Cardinality(g[Len(ms)]) \in Nat
  <2>1. IsFiniteSet(g[Len(ms)]) /\ Cardinality(g[Len(ms)]) <= Cardinality(DOMAIN ms)
    BY <1>2, <1>7, FS_Subset
  <2> QED
    BY <1>2, <2>1, FS_CardinalityType
<1>9. ~(Cardinality(g[Len(ms)]) > Len(ms))
  BY <1>6, <1>8
<1> QED
  BY <1>1, <1>7, <1>9, Zenon

-----------------------------------------------------------------------------
(* Lookups.                                                                *)

(* The steps of Top.                                                       *)
LEMMA TopSteps ==
    ASSUME NEW ms, IsSeq(ms), NEW p, Over(ms, p) # {}
    PROVE  \E g : /\ g[0] = p
                  /\ \A n \in 1 .. Len(ms) : g[n] = Up(ms, g[n - 1])
                  /\ Top(ms, p) = g[Len(ms)]
<1> DEFINE N == Len(ms)
           V == {p} \cup {RootOf(ms, i) : i \in DOMAIN ms}
           F == [q \in V |-> Up(ms, q)]
           Is(g) == g = [n \in 0 .. N |-> IF n = 0 THEN p ELSE Up(ms, g[n - 1])]
           f == CHOOSE g : Is(g)
<1>1. p \in V /\ F \in [V -> V]
  <2>1. ASSUME NEW q \in V
        PROVE  Up(ms, q) \in V
    <3>1. CASE Over(ms, q) = {}
      BY <3>1 DEF Up
    <3>2. CASE Over(ms, q) # {}
      <4>1. Over(ms, q) \in SUBSET (1 .. N) /\ N \in Nat /\ DOMAIN ms = 1 .. N
        BY SeqFacts DEF Over, Children, Mounted
      <4>2. Max(Over(ms, q)) \in DOMAIN ms
        BY <3>2, <4>1, MaxIn
      <4> QED
        BY <3>2, <4>2 DEF Up
    <3> QED
      BY <3>1, <3>2
  <2> QED
    BY <2>1
<1>2. N \in Nat
  BY SeqFacts
<1>3. PICK g : Iteration(g, N, V, p, F)
  <2> HIDE DEF F, V, N
  <2> QED
    BY <1>1, <1>2, Iterates
<1>4. Is(g)
  <2>1. ASSUME NEW n \in 1 .. N
        PROVE  g[n] = Up(ms, g[n - 1])
    <3>1. n - 1 \in 0 .. N
      BY <1>2
    <3>2. g[n - 1] \in V /\ g[n] = F[g[n - 1]]
      BY <1>3, <3>1 DEF Iteration
    <3> HIDE DEF V
    <3> QED
      BY <3>2
  <2>2. \A n \in 0 .. N : g[n] = IF n = 0 THEN p ELSE Up(ms, g[n - 1])
    BY <1>2, <1>3, <2>1 DEF Iteration
  <2>3. g = [n \in 0 .. N |-> g[n]]
    BY <1>3 DEF Iteration
  <2> QED
    BY <2>2, <2>3, Zenon
<1>5. Is(f)
  BY <1>4, Zenon
<1>6. Top(ms, p) = f[N]
  BY DEF Top
<1> HIDE DEF f
<1>7. f[0] = p /\ \A n \in 1 .. N : f[n] = Up(ms, f[n - 1])
  <2>1. \A n \in 0 .. N : f[n] = IF n = 0 THEN p ELSE Up(ms, f[n - 1])
    BY <1>5, Zenon
  <2> QED
    BY <1>2, <2>1
<1> QED
  BY <1>6, <1>7

(* A lookup that goes up ends at the root of a mount.                      *)
LEMMA TopIsRoot ==
    ASSUME NEW ms, IsSeq(ms), NEW p
    PROVE  Top(ms, p) = p \/ IsRoot(ms, Top(ms, p))
<1> SUFFICES ASSUME Over(ms, p) # {}
             PROVE  IsRoot(ms, Top(ms, p))
  BY DEF Top
<1>1. PICK g : /\ g[0] = p
               /\ \A n \in 1 .. Len(ms) : g[n] = Up(ms, g[n - 1])
               /\ Top(ms, p) = g[Len(ms)]
  BY TopSteps
<1>2. ASSUME NEW q
      PROVE  Up(ms, q) = q \/ IsRoot(ms, Up(ms, q))
  BY DEF Up, RootOf, IsRoot, Place
<1>3. IsRoot(ms, Up(ms, p))
  BY DEF Up, RootOf, IsRoot, Place
<1> DEFINE S == {n \in Nat : n \in 1 .. Len(ms) => IsRoot(ms, g[n])}
<1>4. 0 \in S
  OBVIOUS
<1>5. ASSUME NEW n \in Nat, n \in S
      PROVE  n + 1 \in S
  <2>1. CASE n + 1 \in 1 .. Len(ms)
    <3>1. g[n + 1] = Up(ms, g[n])
      <4>1. (n + 1) - 1 = n
        OBVIOUS
      <4> QED
        BY <1>1, <2>1, <4>1
    <3>2. CASE n = 0
      BY <1>1, <1>3, <2>1, <3>1, <3>2
    <3>3. CASE n # 0
      <4>1. n \in 1 .. Len(ms)
        BY <2>1, <3>3, SeqFacts
      <4>2. IsRoot(ms, g[n])
        BY <1>5, <4>1
      <4> QED
        BY <1>2, <3>1, <4>2
    <3> QED
      BY <3>2, <3>3
  <2> QED
    BY <2>1
<1> HIDE DEF S
<1>6. Over(ms, p) \in SUBSET (1 .. Len(ms)) /\ Len(ms) \in Nat
  BY SeqFacts DEF Over, Children, Mounted
<1>7. Len(ms) \in S /\ Len(ms) \in 1 .. Len(ms)
  BY <1>4, <1>5, <1>6, NatSet
<1> QED
  BY <1>1, <1>7 DEF S

(* A lookup that begins in a closed set of mounts ends in it.              *)
LEMMA TopWithin ==
    ASSUME NEW ms, IsSeq(ms), NEW X, Closed(ms, X), NEW p, p.mount \in X
    PROVE  Top(ms, p).mount \in X
<1> SUFFICES ASSUME Over(ms, p) # {}
             PROVE  Top(ms, p).mount \in X
  BY DEF Top
<1>1. PICK g : /\ g[0] = p
               /\ \A n \in 1 .. Len(ms) : g[n] = Up(ms, g[n - 1])
               /\ Top(ms, p) = g[Len(ms)]
  BY TopSteps
<1>2. ASSUME NEW q, q.mount \in X
      PROVE  Up(ms, q).mount \in X
  <2>1. CASE Over(ms, q) = {}
    BY <1>2, <2>1 DEF Up
  <2>2. CASE Over(ms, q) # {}
    <3>1. Over(ms, q) \in SUBSET (1 .. Len(ms)) /\ Len(ms) \in Nat
      BY SeqFacts DEF Over, Children, Mounted
    <3>2. Max(Over(ms, q)) \in Over(ms, q)
      BY <2>2, <3>1, MaxIn
    <3>3. Max(Over(ms, q)) \in X
      BY <1>2, <3>2 DEF Over, Children, Closed
    <3> QED
      BY <2>2, <3>3 DEF Up, RootOf, Place
  <2> QED
    BY <2>1, <2>2
<1> DEFINE S == {n \in Nat : n \in 0 .. Len(ms) => g[n].mount \in X}
<1>3. 0 \in S
  BY <1>1
<1>4. ASSUME NEW n \in Nat, n \in S
      PROVE  n + 1 \in S
  <2>1. CASE n + 1 \in 0 .. Len(ms)
    <3>1. n + 1 \in 1 .. Len(ms) /\ (n + 1) - 1 = n /\ n \in 0 .. Len(ms)
      BY <2>1, SeqFacts
    <3>2. g[n + 1] = Up(ms, g[n]) /\ g[n].mount \in X
      BY <1>1, <1>4, <3>1
    <3> QED
      BY <1>2, <3>2
  <2> QED
    BY <2>1
<1> HIDE DEF S
<1>5. Len(ms) \in S /\ Len(ms) \in 0 .. Len(ms)
  BY <1>3, <1>4, NatSet, SeqFacts
<1> QED
  BY <1>1, <1>5 DEF S

(* Where a path leads by its next name.                                    *)
Enter(ms, p, name) == Top(ms, Place(p.mount, Append(p.dentry, name)))

(* The steps of Walk.                                                      *)
LEMMA WalkSteps ==
    ASSUME NEW ms, NEW r, NEW path, Len(path) \in Nat
    PROVE  \E g : /\ g[0] = RootOf(ms, r)
                  /\ \A n \in 1 .. Len(path) : g[n] = Enter(ms, g[n - 1], path[n])
                  /\ Walk(ms, r, path) = g[Len(path)]
<1> DEFINE Is(k, g) == g = [n \in 0 .. k |-> IF n = 0 THEN RootOf(ms, r)
                                             ELSE Enter(ms, g[n - 1], path[n])]
           S == {k \in Nat : \E g : Is(k, g)}
           f == CHOOSE g : Is(Len(path), g)
<1>1. 0 \in S
  <2> DEFINE g == [n \in 0 .. 0 |-> RootOf(ms, r)]
  <2>1. Is(0, g)
    OBVIOUS
  <2> QED
    BY <2>1
<1>2. ASSUME NEW k \in Nat, k \in S
      PROVE  k + 1 \in S
  <2>1. PICK g : Is(k, g)
    BY <1>2
  <2>2. \A n \in 0 .. k : g[n] = IF n = 0 THEN RootOf(ms, r) ELSE Enter(ms, g[n - 1], path[n])
    BY <2>1, Zenon
  <2> DEFINE h == [n \in 0 .. k + 1 |-> IF n = k + 1 THEN Enter(ms, g[k], path[n]) ELSE g[n]]
  <2>3. ASSUME NEW n \in 0 .. k + 1
        PROVE  h[n] = IF n = 0 THEN RootOf(ms, r) ELSE Enter(ms, h[n - 1], path[n])
    <3>1. CASE n = k + 1
      BY <3>1
    <3>2. CASE n \in 0 .. k
      BY <2>2, <3>2
    <3> QED
      BY <3>1, <3>2
  <2>4. h = [n \in 0 .. k + 1 |-> h[n]]
    OBVIOUS
  <2> HIDE DEF h
  <2>5. Is(k + 1, h)
    BY <2>3, <2>4, Zenon
  <2> QED
    BY <2>5
<1>3. Len(path) \in S
  <2> HIDE DEF S
  <2> QED
    BY <1>1, <1>2, NatSet
<1>4. Is(Len(path), f)
  BY <1>3, Zenon
<1>5. Walk(ms, r, path) = f[Len(path)]
  BY DEF Walk, Enter
<1> HIDE DEF f
<1>6. \A n \in 0 .. Len(path) :
          f[n] = IF n = 0 THEN RootOf(ms, r) ELSE Enter(ms, f[n - 1], path[n])
  BY <1>4, Zenon
<1> QED
  BY <1>5, <1>6

(* A path from the root of a mount in a closed set stays in it.            *)
LEMMA WalkWithin ==
    ASSUME NEW ms, IsSeq(ms), NEW X, Closed(ms, X), NEW r \in X, NEW path, Len(path) \in Nat
    PROVE  Walk(ms, r, path).mount \in X
<1>1. PICK g : /\ g[0] = RootOf(ms, r)
               /\ \A n \in 1 .. Len(path) : g[n] = Enter(ms, g[n - 1], path[n])
               /\ Walk(ms, r, path) = g[Len(path)]
  BY WalkSteps
<1>2. ASSUME NEW q, q.mount \in X, NEW name
      PROVE  Enter(ms, q, name).mount \in X
  BY <1>2, TopWithin DEF Enter, Place
<1> DEFINE S == {n \in Nat : n \in 0 .. Len(path) => g[n].mount \in X}
<1>3. 0 \in S
  BY <1>1 DEF RootOf, Place
<1>4. ASSUME NEW n \in Nat, n \in S
      PROVE  n + 1 \in S
  <2>1. CASE n + 1 \in 0 .. Len(path)
    <3>1. n + 1 \in 1 .. Len(path) /\ (n + 1) - 1 = n /\ n \in 0 .. Len(path)
      BY <2>1
    <3>2. g[n + 1] = Enter(ms, g[n], path[n + 1]) /\ g[n].mount \in X
      BY <1>1, <1>4, <3>1
    <3> QED
      BY <1>2, <3>2
  <2> QED
    BY <2>1
<1> HIDE DEF S
<1>5. Len(path) \in S /\ Len(path) \in 0 .. Len(path)
  BY <1>3, <1>4, NatSet
<1> QED
  BY <1>1, <1>5 DEF S

-----------------------------------------------------------------------------
(* Attaching.                                                              *)

(* An element appended.                                                    *)
LEMMA AppendName ==
    ASSUME NEW d, IsSeq(d), NEW a
    PROVE  /\ IsSeq(Append(d, a)) /\ Len(Append(d, a)) = Len(d) + 1
           /\ \A i \in 1 .. Len(d) : Append(d, a)[i] = d[i]
           /\ Append(d, a)[Len(d) + 1] = a
<1> DEFINE T == Range(d) \cup {a}
<1>1. d \in Seq(T) /\ a \in T
  BY SeqMonotonic DEF IsSeq
<1> HIDE DEF T
<1>2. /\ Append(d, a) \in Seq(T) /\ Len(Append(d, a)) = Len(d) + 1
      /\ \A i \in 1 .. Len(d) : Append(d, a)[i] = d[i]
      /\ Append(d, a)[Len(d) + 1] = a
  BY <1>1, AppendProperties
<1> QED
  BY <1>2, EverySeq

(* The steps of Listed.                                                    *)
LEMMA ListedSteps ==
    ASSUME NEW ms, Len(ms) \in Nat, NEW U
    PROVE  \E g : /\ g[0] = <<>>
                  /\ \A n \in 1 .. Len(ms) :
                        g[n] = IF n \in U THEN Append(g[n - 1], n) ELSE g[n - 1]
                  /\ Listed(ms, U) = g[Len(ms)]
<1> DEFINE Is(k, g) == g = [n \in 0 .. k |-> IF n = 0 THEN <<>>
                               ELSE IF n \in U THEN Append(g[n - 1], n) ELSE g[n - 1]]
           S == {k \in Nat : \E g : Is(k, g)}
           f == CHOOSE g : Is(Len(ms), g)
<1>1. 0 \in S
  <2> DEFINE g == [n \in 0 .. 0 |-> <<>>]
  <2>1. Is(0, g)
    OBVIOUS
  <2> QED
    BY <2>1
<1>2. ASSUME NEW k \in Nat, k \in S
      PROVE  k + 1 \in S
  <2>1. PICK g : Is(k, g)
    BY <1>2
  <2>2. \A n \in 0 .. k : g[n] = IF n = 0 THEN <<>>
                                 ELSE IF n \in U THEN Append(g[n - 1], n) ELSE g[n - 1]
    BY <2>1, Zenon
  <2> DEFINE last == IF k + 1 \in U THEN Append(g[k], k + 1) ELSE g[k]
             h == [n \in 0 .. k + 1 |-> IF n = k + 1 THEN last ELSE g[n]]
  <2>3. ASSUME NEW n \in 0 .. k + 1
        PROVE  h[n] = IF n = 0 THEN <<>> ELSE IF n \in U THEN Append(h[n - 1], n) ELSE h[n - 1]
    <3>1. CASE n = k + 1
      <4>1. h[n] = last /\ h[n - 1] = g[k] /\ n # 0
        BY <3>1
      <4> QED
        BY <3>1, <4>1
    <3>2. CASE n \in 0 .. k
      BY <2>2, <3>2
    <3> QED
      BY <3>1, <3>2
  <2>4. h = [n \in 0 .. k + 1 |-> h[n]]
    OBVIOUS
  <2> HIDE DEF h
  <2>5. Is(k + 1, h)
    BY <2>3, <2>4, Zenon
  <2>6. k + 1 \in Nat
    OBVIOUS
  <2> QED
    BY <2>5, <2>6, Zenon
<1>3. Len(ms) \in S
  <2> HIDE DEF S
  <2> QED
    BY <1>1, <1>2, NatSet
<1>4. Is(Len(ms), f)
  BY <1>3, Zenon
<1>5. Listed(ms, U) = f[Len(ms)]
  BY DEF Listed
<1> HIDE DEF f
<1>6. \A n \in 0 .. Len(ms) : f[n] = IF n = 0 THEN <<>>
                                     ELSE IF n \in U THEN Append(f[n - 1], n) ELSE f[n - 1]
  BY <1>4, Zenon
<1> QED
  BY <1>5, <1>6

(* A set of mounts in order: the sequence of all mounts of the table in    *)
(* the set, each after those before it.                                    *)
LEMMA ListedFacts ==
    ASSUME NEW ms, IsSeq(ms), NEW U
    PROVE  /\ Listed(ms, U) \in Seq(U \cap (1 .. Len(ms)))
           /\ \A i \in U : i \in 1 .. Len(ms) => i \in Range(Listed(ms, U))
           /\ \A a, b \in 1 .. Len(Listed(ms, U)) : a < b => Listed(ms, U)[a] < Listed(ms, U)[b]
<1> DEFINE N == Len(ms)
           T(k) == U \cap (1 .. k)
           Lists(k, s) ==
              /\ s \in Seq(T(k))
              /\ \A i \in T(k) : \E a \in 1 .. Len(s) : s[a] = i
              /\ \A a, b \in 1 .. Len(s) : a < b => s[a] < s[b]
<1>0. N \in Nat
  BY SeqFacts
<1>1. PICK g : /\ g[0] = <<>>
               /\ \A n \in 1 .. N : g[n] = IF n \in U THEN Append(g[n - 1], n) ELSE g[n - 1]
               /\ Listed(ms, U) = g[N]
  BY <1>0, ListedSteps
<1> DEFINE S == {k \in Nat : k \in 0 .. N => Lists(k, g[k])}
<1>2. 0 \in S
  <2>1. T(0) = {}
    OBVIOUS
  <2> HIDE DEF T
  <2>2. <<>> \in Seq(T(0)) /\ Len(<<>>) = 0 /\ \A a : a \notin 1 .. Len(<<>>)
    OBVIOUS
  <2>3. Lists(0, <<>>)
    BY <2>1, <2>2, Zenon
  <2> HIDE DEF Lists
  <2> QED
    BY <1>1, <2>3
<1>3. ASSUME NEW k \in Nat, k \in S
      PROVE  k + 1 \in S
  <2> SUFFICES ASSUME k + 1 \in 0 .. N
               PROVE  Lists(k + 1, g[k + 1])
    OBVIOUS
  <2> DEFINE s == g[k]
  <2>1. k \in 0 .. N /\ k + 1 \in 1 .. N /\ (k + 1) - 1 = k /\ Lists(k, s)
    BY <1>0, <1>3
  <2>2. g[k + 1] = IF k + 1 \in U THEN Append(s, k + 1) ELSE s
    BY <1>1, <2>1
  <2> HIDE DEF s
  <2>3. /\ Len(s) \in Nat /\ IsSeq(s) /\ s \in Seq(T(k + 1))
        /\ \A a \in 1 .. Len(s) : s[a] \in T(k)
    <3>1. T(k) \subseteq T(k + 1)
      OBVIOUS
    <3> HIDE DEF T
    <3> QED
      BY <2>1, <3>1, EverySeq, SeqMonotonic, ElementOfSeq, LenProperties
  <2>4. CASE k + 1 \notin U
    <3>1. \A i \in T(k + 1) : i \in T(k)
      BY <2>4
    <3> HIDE DEF T
    <3> QED
      BY <2>1, <2>2, <2>3, <2>4, <3>1
  <2>5. CASE k + 1 \in U
    <3> DEFINE new == Append(s, k + 1)
    <3>1. /\ Len(new) = Len(s) + 1
          /\ \A a \in 1 .. Len(s) : new[a] = s[a]
          /\ new[Len(s) + 1] = k + 1
      BY <2>3, AppendName
    <3>2. new \in Seq(T(k + 1))
      <4>1. k + 1 \in T(k + 1)
        BY <2>5
      <4> HIDE DEF T
      <4> QED
        BY <2>3, <4>1, AppendProperties
    <3> HIDE DEF new
    <3>3. \A a, b \in 1 .. Len(new) : a < b => new[a] < new[b]
      <4> TAKE a, b \in 1 .. Len(new)
      <4> HAVE a < b
      <4>1. a \in 1 .. Len(s) /\ new[a] = s[a] /\ s[a] \in 1 .. k
        BY <2>3, <3>1
      <4>2. CASE b = Len(s) + 1
        BY <3>1, <4>1, <4>2
      <4>3. CASE b # Len(s) + 1
        <5>1. b \in 1 .. Len(s) /\ new[b] = s[b]
          BY <2>3, <3>1, <4>3
        <5> QED
          BY <2>1, <4>1, <5>1
      <4> QED
        BY <4>2, <4>3
    <3>4. ASSUME NEW i \in T(k + 1)
          PROVE  \E a \in 1 .. Len(new) : new[a] = i
      <4>1. CASE i = k + 1
        <5>1. Len(s) + 1 \in 1 .. Len(new)
          BY <2>3, <3>1
        <5> QED
          BY <3>1, <4>1, <5>1
      <4>2. CASE i # k + 1
        <5>1. i \in T(k)
          BY <4>2
        <5>2. PICK a \in 1 .. Len(s) : s[a] = i
          BY <2>1, <5>1
        <5>3. a \in 1 .. Len(new) /\ new[a] = i
          BY <2>3, <3>1, <5>2
        <5> QED
          BY <5>3
      <4> QED
        BY <4>1, <4>2
    <3>5. g[k + 1] = new
      BY <2>2, <2>5 DEF new
    <3> HIDE DEF T
    <3> QED
      BY <3>2, <3>3, <3>4, <3>5
  <2> QED
    BY <2>4, <2>5
<1> HIDE DEF S
<1>4. N \in S /\ N \in 0 .. N
  BY <1>0, <1>2, <1>3, NatSet
<1> DEFINE s == Listed(ms, U)
<1>5. Lists(N, s)
  BY <1>1, <1>4 DEF S
<1> HIDE DEF s
<1>6. DOMAIN s = 1 .. Len(s)
  BY <1>5, LenProperties
<1>7. \A i \in U : i \in 1 .. N => i \in Range(s)
  BY <1>5, <1>6 DEF Range
<1> QED
  BY <1>5, <1>7 DEF s

(* So are the mounts something is attached to.                             *)
LEMMA TargetsIsSeq ==
    ASSUME NEW ms, IsSeq(ms), NEW p
    PROVE  IsSeq(Targets(ms, p))
<1>1. IsSeq(Listed(ms, Receivers(ms, p.mount, p.dentry)))
  BY ListedFacts, EverySeq
<1>2. <<p.mount>> \in Seq({p.mount})
  OBVIOUS
<1> QED
  BY <1>1, <1>2, EverySeq, SeqConcat DEF Targets

(* What is attached comes after the mounts there are, which stay as they   *)
(* are.                                                                    *)
LEMMA AttachKeeps ==
    ASSUME NEW ms, IsSeq(ms), NEW p, NEW tree, IsSeq(tree)
    PROVE  /\ IsSeq(Attach(ms, p, tree))
           /\ Len(Attach(ms, p, tree)) >= Len(ms)
           /\ \A i \in 1 .. Len(ms) : Attach(ms, p, tree)[i] = ms[i]
<1> DEFINE K == Len(Targets(ms, p)) * Len(tree)
           new == Copies(ms, p, tree)
<1>1. K \in Nat /\ Len(ms) \in Nat
  <2>1. Len(Targets(ms, p)) \in Nat /\ Len(tree) \in Nat /\ Len(ms) \in Nat
    BY TargetsIsSeq, SeqFacts
  <2> QED
    BY <2>1
<1>2. DOMAIN new = 1 .. K /\ new = [n \in DOMAIN new |-> new[n]]
  BY DEF Copies
<1>3. Attach(ms, p, tree) = ms \o new
  BY DEF Attach
<1> HIDE DEF K, new
<1>4. IsSeq(new) /\ Len(new) = K
  BY <1>1, <1>2, FunctionIsSeq
<1> QED
  BY <1>1, <1>3, <1>4, SeqConcat

(* A clone is a table.                                                     *)
LEMMA CloneIsSeq ==
    ASSUME NEW ms, IsSeq(ms), NEW p, NEW rec
    PROVE  IsSeq(Clone(ms, p, rec))
<1> DEFINE new == Clone(ms, p, rec)
<1>1. IsSeq(Taken(ms, p, rec))
  <2>1. IsSeq(Listed(ms, IF rec THEN Bindable(ms, p) ELSE {}))
    BY ListedFacts, EverySeq
  <2>2. <<p.mount>> \in Seq({p.mount})
    OBVIOUS
  <2> QED
    BY <2>1, <2>2, EverySeq, SeqConcat DEF Taken
<1>2. Len(Taken(ms, p, rec)) \in Nat /\ DOMAIN Taken(ms, p, rec) = 1 .. Len(Taken(ms, p, rec))
  BY <1>1, SeqFacts
<1>3. DOMAIN new = DOMAIN Taken(ms, p, rec) /\ new = [n \in DOMAIN new |-> new[n]]
  BY DEF Clone
<1> HIDE DEF new
<1>4. IsSeq(new)
  BY <1>2, <1>3, FunctionIsSeq
<1> QED
  BY <1>4 DEF new

(* A bind mount leaves the mounts there are as they are.                   *)
LEMMA BindKeeps ==
    ASSUME NEW ms, IsSeq(ms), NEW from, NEW to, NEW rec
    PROVE  /\ IsSeq(Bind(ms, from, to, rec))
           /\ Len(Bind(ms, from, to, rec)) >= Len(ms)
           /\ \A i \in 1 .. Len(ms) : Bind(ms, from, to, rec)[i] = ms[i]
BY CloneIsSeq, AttachKeeps DEF Bind

(* A change of kind leaves the other mounts as they are, and takes no      *)
(* mount from its place.                                                   *)
LEMMA SetKindKeeps ==
    ASSUME NEW ms, IsSeq(ms), NEW U, NEW kind
    PROVE  /\ IsSeq(SetKind(ms, U, kind))
           /\ Len(SetKind(ms, U, kind)) = Len(ms)
           /\ \A i \in 1 .. Len(ms) : i \notin U => SetKind(ms, U, kind)[i] = ms[i]
<1> DEFINE new == SetKind(ms, U, kind)
<1>1. DOMAIN ms = 1 .. Len(ms) /\ Len(ms) \in Nat
  BY SeqFacts
<1>2. /\ DOMAIN new = DOMAIN ms
      /\ new = [i \in DOMAIN new |-> new[i]]
      /\ \A i \in DOMAIN ms : i \notin U => new[i] = ms[i]
  BY DEF SetKind
<1> HIDE DEF new
<1>3. IsSeq(new) /\ Len(new) = Len(ms)
  BY <1>1, <1>2, FunctionIsSeq
<1> QED
  BY <1>1, <1>2, <1>3 DEF new

(* So does making mounts read-only.                                        *)
LEMMA SetReadonlyKeeps ==
    ASSUME NEW ms, IsSeq(ms), NEW U
    PROVE  /\ IsSeq(SetReadonly(ms, U))
           /\ Len(SetReadonly(ms, U)) = Len(ms)
           /\ \A i \in 1 .. Len(ms) : i \notin U => SetReadonly(ms, U)[i] = ms[i]
<1> DEFINE new == SetReadonly(ms, U)
<1>1. DOMAIN ms = 1 .. Len(ms) /\ Len(ms) \in Nat
  BY SeqFacts
<1>2. /\ DOMAIN new = DOMAIN ms
      /\ new = [i \in DOMAIN new |-> new[i]]
      /\ \A i \in DOMAIN ms : i \notin U => new[i] = ms[i]
  BY DEF SetReadonly
<1> HIDE DEF new
<1>3. IsSeq(new) /\ Len(new) = Len(ms)
  BY <1>1, <1>2, FunctionIsSeq
<1> QED
  BY <1>1, <1>2, <1>3 DEF new

(* And taking mounts away.                                                 *)
LEMMA ForgetKeeps ==
    ASSUME NEW ms, IsSeq(ms), NEW U
    PROVE  /\ IsSeq(Forget(ms, U))
           /\ Len(Forget(ms, U)) = Len(ms)
           /\ \A i \in 1 .. Len(ms) : i \notin U => Forget(ms, U)[i] = ms[i]
<1> DEFINE new == Forget(ms, U)
<1>1. DOMAIN ms = 1 .. Len(ms) /\ Len(ms) \in Nat
  BY SeqFacts
<1>2. /\ DOMAIN new = DOMAIN ms
      /\ new = [i \in DOMAIN new |-> new[i]]
      /\ \A i \in DOMAIN ms : i \notin U => new[i] = ms[i]
  BY DEF Forget
<1> HIDE DEF new
<1>3. IsSeq(new) /\ Len(new) = Len(ms)
  BY <1>1, <1>2, FunctionIsSeq
<1> QED
  BY <1>1, <1>2, <1>3 DEF new

-----------------------------------------------------------------------------
(* Detaching.                                                              *)

(* The mounts of a table are records.                                      *)
Fields ==
    {"ns", "parent", "at", "fs", "root", "group", "master", "unbindable", "ro"}

Records(ms) == \A i \in 1 .. Len(ms) : DOMAIN ms[i] = Fields

(* A change of kind takes no mount from its place.                         *)
LEMMA SetKindFields ==
    ASSUME NEW ms, IsSeq(ms), Records(ms), NEW U, NEW kind, NEW i \in 1 .. Len(ms)
    PROVE  LET new == SetKind(ms, U, kind)[i]
           IN  /\ DOMAIN new = Fields
               /\ new.ns = ms[i].ns /\ new.parent = ms[i].parent
               /\ new.at = ms[i].at /\ new.root = ms[i].root
               /\ i \in U /\ kind # "shared" => new.group = 0
<1>1. DOMAIN ms = 1 .. Len(ms) /\ DOMAIN ms[i] = Fields
  BY SeqFacts DEF Records
<1>2. CASE i \notin U
  BY <1>1, <1>2 DEF SetKind
<1>3. CASE i \in U
  BY <1>1, <1>3 DEF SetKind, Fields
<1> QED
  BY <1>2, <1>3

(* Nor does it keep one from being bound, but a change to unbindable.      *)
LEMMA SetKindBindable ==
    ASSUME NEW ms, IsSeq(ms), Records(ms), NEW U, NEW kind, kind # "unbindable",
           NEW i \in 1 .. Len(ms), ~ms[i].unbindable
    PROVE  ~SetKind(ms, U, kind)[i].unbindable
<1>1. DOMAIN ms = 1 .. Len(ms) /\ DOMAIN ms[i] = Fields
  BY SeqFacts DEF Records
<1>2. CASE i \notin U
  BY <1>1, <1>2 DEF SetKind
<1>3. CASE i \in U /\ kind \in {"shared", "slave"}
  BY <1>1, <1>3 DEF SetKind, Fields
<1>4. CASE i \in U /\ kind \notin {"shared", "slave"}
  <2> DEFINE new == SetKind(ms, U, kind)[i]
  <2>1. new = [ms[i] EXCEPT !.group = 0, !.master = 0, !.unbindable = (kind = "unbindable")]
    BY <1>1, <1>4 DEF SetKind
  <2> HIDE DEF new
  <2>2. new.unbindable = (kind = "unbindable")
    BY <1>1, <2>1 DEF Fields
  <2> QED
    BY <2>2 DEF new
<1> QED
  BY <1>2, <1>3, <1>4

(* Made a slave, a tree neither sends what happens in it anywhere else,    *)
(* nor does the mount it is on if that is not shared: detaching what is at *)
(* its top takes mounts of the tree away and no others.                    *)
LEMMA DetachKeeps ==
    ASSUME NEW ms, IsSeq(ms), Records(ms), NEW m \in DOMAIN ms,
           ms[m].parent \in DOMAIN ms, ms[ms[m].parent].group = 0
    PROVE  LET s == SetKind(ms, Tree(ms, m), "slave")
               t == Top(s, RootOf(s, m)).mount
           IN  Detach(s, t) = Forget(s, Tree(s, t)) /\ Tree(s, t) \subseteq Tree(ms, m)
<1> DEFINE T == Tree(ms, m)
           s == SetKind(ms, T, "slave")
           t == Top(s, RootOf(s, m)).mount
<1>1. DOMAIN ms = 1 .. Len(ms) /\ Len(ms) \in Nat
  BY SeqFacts
<1>2. /\ IsSeq(s) /\ Len(s) = Len(ms)
      /\ \A i \in 1 .. Len(ms) : i \notin T => s[i] = ms[i]
  BY SetKindKeeps
<1>3. Closed(ms, T) /\ T \subseteq DOMAIN ms /\ m \in T
  BY <1>1, TreeClosed, TreeParents
<1>4. ASSUME NEW i \in DOMAIN ms
      PROVE  /\ s[i].ns = ms[i].ns
             /\ s[i].parent = ms[i].parent
             /\ i \in T => s[i].group = 0
  BY <1>1, SetKindFields
<1> HIDE DEF s, T
<1>5. Closed(s, T)
  BY <1>1, <1>2, <1>3, <1>4, SeqFacts DEF Closed, Mounted
<1>6. t \in T
  BY <1>2, <1>3, <1>5, TopWithin DEF RootOf, Place
<1>7. Tree(s, t) \subseteq T
  BY <1>2, <1>5, <1>6, TreeWithin, SeqFacts
<1>8. ASSUME NEW u \in Tree(s, t)
      PROVE  Receivers(s, s[u].parent, s[u].at) = {}
  <2>1. s[s[u].parent].group = 0
    <3>1. CASE u = m
      <4>1. s[ms[m].parent].group = 0
        BY <1>1, <1>2, <1>4
      <4>2. s[u].parent = ms[m].parent
        BY <1>4, <3>1
      <4> QED
        BY <4>1, <4>2, Zenon
    <3>2. CASE u # m
      <4>1. u \in T /\ u \in DOMAIN ms /\ ms[u].parent \in T
        BY <1>1, <1>3, <1>7, <3>2, TreeParents DEF T
      <4>2. ms[u].parent \in DOMAIN ms /\ s[u].parent = ms[u].parent
        BY <1>3, <1>4, <4>1
      <4>3. s[ms[u].parent].group = 0
        BY <1>4, <4>1, <4>2
      <4> QED
        BY <4>2, <4>3, Zenon
    <3> QED
      BY <3>1, <3>2
  <2> QED
    BY <2>1 DEF Receivers
<1>9. Detach(s, t) = Forget(s, Tree(s, t))
  BY <1>8 DEF Detach
<1> QED
  BY <1>7, <1>9 DEF s, T

-----------------------------------------------------------------------------
(* What is new in a table.                                                 *)

(* What is attached are copies of the tree; where it goes to a mount that  *)
(* is not shared, they are that mount's alone.                             *)
LEMMA AttachNew ==
    ASSUME NEW ms, IsSeq(ms), NEW p, NEW tree, IsSeq(tree), Records(tree)
    PROVE  LET new == Attach(ms, p, tree)
           IN  \A i \in Len(ms) + 1 .. Len(new) :
                  /\ DOMAIN new[i] = Fields
                  /\ ms[p.mount].group = 0 => new[i].ns = ms[p.mount].ns
                  /\ ms[p.mount].group = 0 /\ (\A j \in 1 .. Len(tree) : tree[j].group = 0) =>
                        new[i].group = 0
                  /\ \E j \in 1 .. Len(tree) : new[i].unbindable = tree[j].unbindable
<1> DEFINE M == Len(Targets(ms, p))
           L == Len(tree)
           new == Copies(ms, p, tree)
<1>1. /\ IsSeq(Targets(ms, p)) /\ M \in Nat /\ L \in Nat /\ Len(ms) \in Nat
      /\ DOMAIN Targets(ms, p) = 1 .. M
  BY TargetsIsSeq, SeqFacts
<1>2. DOMAIN new = 1 .. M * L /\ new = [n \in DOMAIN new |-> new[n]] /\ M * L \in Nat
  <2>1. M * L \in Nat
    BY <1>1
  <2> QED
    BY <2>1 DEF Copies
<1>3. IsSeq(new) /\ Len(new) = M * L
  BY <1>2, FunctionIsSeq
<1>4. /\ Attach(ms, p, tree) = ms \o new
      /\ Len(ms \o new) = Len(ms) + M * L
      /\ \A n \in 1 .. M * L : (ms \o new)[Len(ms) + n] = new[n]
  <2>1. Attach(ms, p, tree) = ms \o new
    BY DEF Attach
  <2> HIDE DEF new
  <2> QED
    BY <1>3, <2>1, SeqConcat
<1>5. ms[p.mount].group = 0 => \A k \in 1 .. M : Targets(ms, p)[k] = p.mount
  <2> SUFFICES ASSUME ms[p.mount].group = 0
               PROVE  \A k \in 1 .. M : Targets(ms, p)[k] = p.mount
    OBVIOUS
  <2>1. Receivers(ms, p.mount, p.dentry) = {}
    BY DEF Receivers
  <2>2. Listed(ms, Receivers(ms, p.mount, p.dentry)) \in Seq({p.mount})
    <3>1. Receivers(ms, p.mount, p.dentry) \cap (1 .. Len(ms)) \subseteq {p.mount}
      BY <2>1
    <3> QED
      BY <3>1, ListedFacts, SeqMonotonic
  <2>3. <<p.mount>> \in Seq({p.mount})
    OBVIOUS
  <2>4. Targets(ms, p) \in Seq({p.mount})
    BY <2>2, <2>3, ConcatProperties DEF Targets
  <2> QED
    BY <2>4, ElementOfSeq
<1>6. ASSUME NEW n \in 1 .. M * L
      PROVE  /\ DOMAIN new[n] = Fields
             /\ ms[p.mount].group = 0 => new[n].ns = ms[p.mount].ns
             /\ ms[p.mount].group = 0 /\ (\A j \in 1 .. Len(tree) : tree[j].group = 0) =>
                   new[n].group = 0
             /\ \E j \in 1 .. Len(tree) : new[n].unbindable = tree[j].unbindable
  <2> DEFINE c == (n - 1) \div L
             k == ((n - 1) % L) + 1
             t == Targets(ms, p)[c + 1]
             base == Len(ms) + c * L
  <2>1. k \in 1 .. L /\ c + 1 \in 1 .. M
    <3>1. n - 1 \in Nat /\ n - 1 < M * L
      BY <1>1
    <3> HIDE DEF M, L
    <3>2. L > 0
      BY <1>1, <3>1
    <3>3. k \in 1 .. L
      BY <1>1, <3>1, <3>2
    <3>4. c \in Nat /\ L * c <= n - 1
      BY <1>1, <3>1, <3>2
    <3> HIDE DEF c
    <3>5. L * c < M * L
      BY <1>1, <3>1, <3>4
    <3>6. c < M
      BY <1>1, <3>2, <3>4, <3>5
    <3> QED
      BY <1>1, <3>3, <3>4, <3>6
  <2>2. new[n] = Copy(ms, p, tree, t, k, base)
    BY DEF Copies
  <2>3. DOMAIN tree[k] = Fields
    BY <2>1 DEF Records
  <2> HIDE DEF new, k, t, base, c, M, L
  <2>4. DOMAIN new[n] = Fields
    BY <2>2, <2>3 DEF Copy
  <2>5. ASSUME ms[p.mount].group = 0
        PROVE  new[n].ns = ms[p.mount].ns /\ new[n].group = tree[k].group
    <3>1. t = p.mount
      BY <1>5, <2>1, <2>5 DEF t, M
    <3> QED
      BY <2>2, <2>3, <2>5, <3>1 DEF Copy, Fields
  <2>6. k \in 1 .. Len(tree)
    BY <2>1 DEF L
  <2>7. new[n].unbindable = tree[k].unbindable
    BY <2>2, <2>3 DEF Copy, Fields
  <2> QED
    BY <2>4, <2>5, <2>6, <2>7
<1> HIDE DEF new, M, L
<1>7. ASSUME NEW i \in Len(ms) + 1 .. Len(ms) + M * L
      PROVE  i - Len(ms) \in 1 .. M * L /\ (ms \o new)[i] = new[i - Len(ms)]
  <2>1. i - Len(ms) \in 1 .. M * L /\ Len(ms) + (i - Len(ms)) = i
    BY <1>1, <1>2 DEF M, L
  <2> QED
    BY <1>4, <2>1
<1> QED
  BY <1>4, <1>6, <1>7

(* The mounts below a place that a bind mount may take.                    *)
Below(ms, i, d) ==
    {j \in Children(ms, i) : IsPrefix(d, ms[j].at) /\ ~ms[j].unbindable}

(* A set of mounts with what may be taken below them.                      *)
More(ms, U) == U \cup UNION {Below(ms, i, ms[i].root) : i \in U}

(* The levels from which Bindable is built.                                *)
LEMMA BindableLevels ==
    ASSUME NEW ms, Len(ms) \in Nat, NEW p
    PROVE  \E g : /\ g[0] = Below(ms, p.mount, p.dentry)
                  /\ \A n \in 1 .. Len(ms) : g[n] = More(ms, g[n - 1])
                  /\ Bindable(ms, p) = g[Len(ms)]
<1> DEFINE first == Below(ms, p.mount, p.dentry)
           Is(k, g) == g = [n \in 0 .. k |-> IF n = 0 THEN first ELSE More(ms, g[n - 1])]
           S == {k \in Nat : \E g : Is(k, g)}
           f == CHOOSE g : Is(Len(ms), g)
<1>1. 0 \in S
  <2> DEFINE g == [n \in 0 .. 0 |-> first]
  <2>1. Is(0, g)
    OBVIOUS
  <2> QED
    BY <2>1
<1>2. ASSUME NEW k \in Nat, k \in S
      PROVE  k + 1 \in S
  <2>1. PICK g : Is(k, g)
    BY <1>2
  <2> HIDE DEF first
  <2>2. \A n \in 0 .. k : g[n] = IF n = 0 THEN first ELSE More(ms, g[n - 1])
    BY <2>1, Zenon
  <2> DEFINE h == [n \in 0 .. k + 1 |-> IF n = k + 1 THEN More(ms, g[k]) ELSE g[n]]
  <2>3. ASSUME NEW n \in 0 .. k + 1
        PROVE  h[n] = IF n = 0 THEN first ELSE More(ms, h[n - 1])
    <3>1. CASE n = k + 1
      BY <3>1
    <3>2. CASE n \in 0 .. k
      BY <2>2, <3>2
    <3> QED
      BY <3>1, <3>2
  <2>4. h = [n \in 0 .. k + 1 |-> h[n]]
    OBVIOUS
  <2> HIDE DEF h
  <2>5. Is(k + 1, h)
    BY <2>3, <2>4, Zenon
  <2>6. k + 1 \in Nat
    OBVIOUS
  <2> QED
    BY <2>5, <2>6, Zenon
<1>3. Len(ms) \in S
  <2> HIDE DEF S
  <2> QED
    BY <1>1, <1>2, NatSet
<1>4. Is(Len(ms), f)
  BY <1>3, Zenon
<1>5. Bindable(ms, p) = f[Len(ms)]
  BY DEF Bindable, Below, More
<1> HIDE DEF f, first
<1>6. \A n \in 0 .. Len(ms) : f[n] = IF n = 0 THEN first ELSE More(ms, f[n - 1])
  BY <1>4, Zenon
<1>7. f[0] = first /\ \A n \in 1 .. Len(ms) : f[n] = More(ms, f[n - 1])
  BY <1>6
<1> QED
  BY <1>5, <1>7 DEF first

(* They lie within every closed set the place is in.                       *)
LEMMA BindableWithin ==
    ASSUME NEW ms, Len(ms) \in Nat, NEW X, Closed(ms, X), NEW p, p.mount \in X
    PROVE  Bindable(ms, p) \subseteq X
<1>1. PICK g : /\ g[0] = Below(ms, p.mount, p.dentry)
               /\ \A n \in 1 .. Len(ms) : g[n] = More(ms, g[n - 1])
               /\ Bindable(ms, p) = g[Len(ms)]
  BY BindableLevels
<1>2. \A i \in X : \A d : Below(ms, i, d) \subseteq X
  BY DEF Below, Children, Closed
<1> DEFINE S == {n \in Nat : n \in 0 .. Len(ms) => g[n] \subseteq X}
<1>3. 0 \in S
  BY <1>1, <1>2
<1>4. ASSUME NEW n \in Nat, n \in S
      PROVE  n + 1 \in S
  <2>1. CASE n + 1 \in 0 .. Len(ms)
    <3>1. g[n + 1] = More(ms, g[n]) /\ g[n] \subseteq X
      BY <1>1, <1>4, <2>1
    <3>2. ASSUME NEW j \in More(ms, g[n])
          PROVE  j \in X
      <4>1. CASE j \in g[n]
        BY <3>1, <4>1
      <4>2. CASE \E i \in g[n] : j \in Below(ms, i, ms[i].root)
        BY <1>2, <3>1, <4>2
      <4> QED
        BY <4>1, <4>2 DEF More
    <3> QED
      BY <3>1, <3>2
  <2> QED
    BY <2>1
<1> HIDE DEF S
<1>5. Len(ms) \in S
  BY <1>3, <1>4, NatSet
<1> QED
  BY <1>1, <1>5 DEF S

(* They come with what they are on, as far as that is below the place.     *)
LEMMA BindableParents ==
    ASSUME NEW ms, Len(ms) \in Nat, NEW p
    PROVE  \A j \in Bindable(ms, p) :
              j \in Mounted(ms) /\ ms[j].parent \in Bindable(ms, p) \cup {p.mount}
<1>1. PICK g : /\ g[0] = Below(ms, p.mount, p.dentry)
               /\ \A n \in 1 .. Len(ms) : g[n] = More(ms, g[n - 1])
               /\ Bindable(ms, p) = g[Len(ms)]
  BY BindableLevels
<1> DEFINE Linked(U) == \A j \in U : j \in Mounted(ms) /\ ms[j].parent \in U \cup {p.mount}
           S == {n \in Nat : n \in 0 .. Len(ms) => Linked(g[n])}
<1>2. \A i, d : \A j \in Below(ms, i, d) : j \in Mounted(ms) /\ ms[j].parent = i
  BY DEF Below, Children
<1>3. 0 \in S
  BY <1>1, <1>2
<1>4. ASSUME NEW n \in Nat, n \in S
      PROVE  n + 1 \in S
  <2>1. CASE n + 1 \in 0 .. Len(ms)
    <3>1. g[n + 1] = More(ms, g[n]) /\ Linked(g[n])
      BY <1>1, <1>4, <2>1
    <3>2. ASSUME NEW j \in More(ms, g[n])
          PROVE  j \in Mounted(ms) /\ ms[j].parent \in More(ms, g[n]) \cup {p.mount}
      <4>1. CASE j \in g[n]
        BY <3>1, <4>1 DEF More
      <4>2. CASE \E i \in g[n] : j \in Below(ms, i, ms[i].root)
        BY <1>2, <4>2 DEF More
      <4> QED
        BY <4>1, <4>2 DEF More
    <3> QED
      BY <3>1, <3>2
  <2> QED
    BY <2>1
<1> HIDE DEF S
<1>5. Len(ms) \in S
  BY <1>3, <1>4, NatSet
<1> QED
  BY <1>1, <1>5 DEF S

(* A clone of a place in a closed set has the groups of mounts of the set. *)
LEMMA CloneWithin ==
    ASSUME NEW ms, IsSeq(ms), Records(ms), NEW X \in SUBSET (1 .. Len(ms)), Closed(ms, X),
           NEW p, p.mount \in X, NEW rec
    PROVE  LET tree == Clone(ms, p, rec)
           IN  /\ IsSeq(tree) /\ Records(tree)
               /\ \A i \in 1 .. Len(tree) : \E k \in X :
                     tree[i].group = ms[k].group /\ tree[i].unbindable = ms[k].unbindable
<1> DEFINE U == IF rec THEN Bindable(ms, p) ELSE {}
           ids == Taken(ms, p, rec)
           tree == Clone(ms, p, rec)
<1>1. U \subseteq X
  BY BindableWithin, SeqFacts
<1>2. ids \in Seq(X)
  <2>1. Listed(ms, U) \in Seq(X)
    <3>1. U \cap (1 .. Len(ms)) \subseteq X
      BY <1>1
    <3> HIDE DEF U
    <3> QED
      BY <3>1, ListedFacts, SeqMonotonic
  <2>2. <<p.mount>> \in Seq(X)
    OBVIOUS
  <2> QED
    BY <2>1, <2>2, ConcatProperties DEF Taken
<1>3. IsSeq(tree) /\ Len(tree) \in Nat /\ DOMAIN tree = 1 .. Len(tree)
  BY CloneIsSeq, SeqFacts
<1>4. DOMAIN ids = DOMAIN tree
  BY DEF Clone
<1>5. ASSUME NEW i \in 1 .. Len(tree)
      PROVE  /\ DOMAIN tree[i] = Fields /\ tree[i].group = ms[ids[i]].group /\ ids[i] \in X
             /\ tree[i].unbindable = ms[ids[i]].unbindable
  <2>1. ids[i] \in X /\ i \in DOMAIN ids
    BY <1>2, <1>3, <1>4, ElementOfSeq, LenProperties
  <2>2. DOMAIN ms[ids[i]] = Fields
    BY <2>1 DEF Records
  <2>3. tree[i] = [ms[ids[i]] EXCEPT
                      !.root = IF i = 1 THEN p.dentry ELSE @,
                      !.parent = IF i = 1 THEN 0 ELSE CHOOSE j \in DOMAIN ids : ids[j] = @]
    BY <2>1 DEF Clone
  <2> HIDE DEF tree, ids
  <2> QED
    BY <2>1, <2>2, <2>3 DEF Fields
<1> QED
  BY <1>3, <1>5 DEF Records

-----------------------------------------------------------------------------
(* Clones in detail.                                                       *)

(* A clone has the mounts taken: the first is mounted as a whole, the      *)
(* others, in order, are what they were, and on one of them.               *)
LEMMA CloneShape ==
    ASSUME NEW ms, IsSeq(ms), Records(ms), NEW p, p.mount \in 1 .. Len(ms), NEW rec
    PROVE  LET U == IF rec THEN Bindable(ms, p) ELSE {}
               ids == Taken(ms, p, rec)
               tree == Clone(ms, p, rec)
           IN  /\ IsSeq(tree) /\ Records(tree) /\ Len(tree) >= 1
               /\ ids[1] = p.mount
               /\ \A i \in 2 .. Len(tree) : ids[i] \in U
               /\ \A j \in U : \E i \in 2 .. Len(tree) : ids[i] = j
               /\ \A a, b \in 2 .. Len(tree) : a < b => ids[a] < ids[b]
               /\ \A i \in 1 .. Len(tree) :
                     /\ ids[i] \in 1 .. Len(ms)
                     /\ tree[i].fs = ms[ids[i]].fs /\ tree[i].ro = ms[ids[i]].ro
                     /\ i = 1 => tree[i].root = p.dentry
                     /\ i # 1 =>
                           /\ tree[i].root = ms[ids[i]].root /\ tree[i].at = ms[ids[i]].at
                           /\ tree[i].parent \in 1 .. Len(tree)
                           /\ ids[tree[i].parent] = ms[ids[i]].parent
<1> DEFINE U == IF rec THEN Bindable(ms, p) ELSE {}
           rest == Listed(ms, U)
           ids == Taken(ms, p, rec)
           tree == Clone(ms, p, rec)
<1>1. DOMAIN ms = 1 .. Len(ms) /\ Len(ms) \in Nat
  BY SeqFacts
<1>2. \A j \in U : j \in 1 .. Len(ms) /\ ms[j].parent \in U \cup {p.mount}
  BY <1>1, BindableParents DEF Mounted
<1>3. IsSeq(tree) /\ Len(tree) \in Nat /\ DOMAIN tree = 1 .. Len(tree) /\ DOMAIN ids = DOMAIN tree
  <2>1. DOMAIN ids = DOMAIN tree
    BY DEF Clone
  <2> QED
    BY <2>1, CloneIsSeq, SeqFacts
<1>4. Records(tree)
  <2>1. Closed(ms, 1 .. Len(ms))
    BY <1>1 DEF Closed, Mounted
  <2> QED
    BY <2>1, CloneWithin
<1>5. /\ rest \in Seq(U \cap (1 .. Len(ms))) /\ \A j \in U : j \in Range(rest)
      /\ \A a, b \in 1 .. Len(rest) : a < b => rest[a] < rest[b]
  BY <1>2, ListedFacts
<1> HIDE DEF U
<1>6. /\ rest \in Seq(U) /\ Len(rest) \in Nat /\ DOMAIN rest = 1 .. Len(rest)
      /\ IsSeq(rest) /\ IsSeq(<<p.mount>>)
  <2>1. rest \in Seq(U)
    BY <1>5, SeqMonotonic
  <2>2. <<p.mount>> \in Seq({p.mount})
    OBVIOUS
  <2> QED
    BY <2>1, <2>2, EverySeq, SeqFacts
<1>7. ids = <<p.mount>> \o rest
  BY DEF Taken, U
<1> HIDE DEF rest, ids
<1>8. /\ Len(ids) = Len(rest) + 1 /\ DOMAIN ids = 1 .. Len(ids)
      /\ ids[1] = p.mount
      /\ \A i \in 1 .. Len(rest) : ids[i + 1] = rest[i]
  <2> DEFINE one == <<p.mount>>
  <2>1. Len(one) = 1 /\ one[1] = p.mount /\ IsSeq(one)
    BY <1>6
  <2> HIDE DEF one
  <2>2. /\ IsSeq(one \o rest) /\ Len(one \o rest) = Len(one) + Len(rest)
        /\ \A i \in 1 .. Len(one) : (one \o rest)[i] = one[i]
        /\ \A i \in 1 .. Len(rest) : (one \o rest)[Len(one) + i] = rest[i]
    <3>1. IsSeq(one) /\ IsSeq(rest)
      BY <1>6, <2>1
    <3> QED
      BY <3>1, SeqConcat
  <2>3. ids = one \o rest
    BY <1>7 DEF one
  <2>4. Len(ids) = Len(rest) + 1 /\ DOMAIN ids = 1 .. Len(ids)
    BY <1>6, <2>1, <2>2, <2>3, SeqFacts
  <2>5. ids[1] = p.mount
    BY <2>1, <2>2, <2>3
  <2>6. ASSUME NEW i \in 1 .. Len(rest)
        PROVE  ids[i + 1] = rest[i]
    <3>1. Len(one) + i = i + 1
      BY <1>6, <2>1
    <3> QED
      BY <2>2, <2>3, <3>1
  <2> QED
    BY <2>4, <2>5, <2>6
<1>9. Len(tree) = Len(rest) + 1
  <2> HIDE DEF tree
  <2>0. Len(tree) \in Nat /\ Len(rest) + 1 \in Nat
    BY <1>3, <1>6
  <2>1. 1 .. Len(tree) = 1 .. Len(rest) + 1
    BY <1>3, <1>8, Zenon
  <2>2. Len(rest) + 1 \in 1 .. Len(tree)
    BY <1>6, <2>1
  <2>3. Len(tree) \in 1 .. Len(rest) + 1
    BY <2>0, <2>1, <2>2
  <2> QED
    BY <2>0, <2>2, <2>3
<1>10. ASSUME NEW i \in 2 .. Len(tree)
       PROVE  /\ i - 1 \in 1 .. Len(rest) /\ (i - 1) + 1 = i
              /\ ids[i] = rest[i - 1] /\ ids[i] \in U /\ ids[i] \in 1 .. Len(ms)
  <2>1. i - 1 \in 1 .. Len(rest) /\ (i - 1) + 1 = i
    BY <1>3, <1>6, <1>9
  <2>2. ids[i] = rest[i - 1] /\ ids[i] \in U
    BY <1>6, <1>8, <2>1, ElementOfSeq
  <2> QED
    BY <1>2, <2>1, <2>2
<1>11. ASSUME NEW j \in U
       PROVE  \E i \in 2 .. Len(tree) : ids[i] = j
  <2>1. PICK a \in DOMAIN rest : rest[a] = j
    BY <1>5 DEF Range
  <2>2. a + 1 \in 2 .. Len(tree) /\ ids[a + 1] = rest[a]
    BY <1>6, <1>8, <1>9, <2>1
  <2> QED
    BY <2>1, <2>2
<1>12. ASSUME NEW a \in 2 .. Len(tree), NEW b \in 2 .. Len(tree), a < b
       PROVE  ids[a] < ids[b]
  <2>1. /\ a - 1 \in 1 .. Len(rest) /\ ids[a] = rest[a - 1]
        /\ b - 1 \in 1 .. Len(rest) /\ ids[b] = rest[b - 1]
    BY <1>10
  <2>2. a - 1 < b - 1
    BY <1>12
  <2> QED
    BY <1>5, <2>1, <2>2
<1>13. \A i \in 1 .. Len(tree) : ids[i] \in 1 .. Len(ms)
  <2> TAKE i \in 1 .. Len(tree)
  <2>1. i = 1 \/ i \in 2 .. Len(tree)
    BY <1>3
  <2> QED
    BY <1>8, <1>10, <2>1
<1>14. \A i \in 1 .. Len(tree) : tree[i] = [ms[ids[i]] EXCEPT
              !.root = IF i = 1 THEN p.dentry ELSE @,
              !.parent = IF i = 1 THEN 0 ELSE CHOOSE j \in DOMAIN ids : ids[j] = @]
  BY <1>3 DEF Clone, ids
<1>15. ASSUME NEW i \in 1 .. Len(tree)
       PROVE  /\ ids[i] \in 1 .. Len(ms)
              /\ tree[i].fs = ms[ids[i]].fs /\ tree[i].ro = ms[ids[i]].ro
              /\ i = 1 => tree[i].root = p.dentry
              /\ i # 1 =>
                    /\ tree[i].root = ms[ids[i]].root /\ tree[i].at = ms[ids[i]].at
                    /\ tree[i].parent \in 1 .. Len(tree)
                    /\ ids[tree[i].parent] = ms[ids[i]].parent
  <2>1. DOMAIN ms[ids[i]] = Fields /\ ids[i] \in 1 .. Len(ms)
    BY <1>13 DEF Records
  <2>2. tree[i] = [ms[ids[i]] EXCEPT
              !.root = IF i = 1 THEN p.dentry ELSE @,
              !.parent = IF i = 1 THEN 0 ELSE CHOOSE j \in DOMAIN ids : ids[j] = @]
    BY <1>14
  <2> HIDE DEF tree
  <2>3. /\ tree[i].fs = ms[ids[i]].fs /\ tree[i].ro = ms[ids[i]].ro
        /\ i = 1 => tree[i].root = p.dentry
        /\ i # 1 => /\ tree[i].root = ms[ids[i]].root
                    /\ tree[i].parent = CHOOSE j \in DOMAIN ids : ids[j] = ms[ids[i]].parent
        /\ tree[i].at = ms[ids[i]].at
    BY <2>1, <2>2 DEF Fields
  <2>4. ASSUME i # 1
        PROVE  tree[i].parent \in 1 .. Len(tree) /\ ids[tree[i].parent] = ms[ids[i]].parent
    <3>1. i \in 2 .. Len(tree)
      BY <1>3, <2>4
    <3>2. ids[i] \in U
      BY <1>10, <3>1
    <3>3. ms[ids[i]].parent \in U \cup {p.mount}
      BY <1>2, <3>2
    <3>4. \E j \in DOMAIN ids : ids[j] = ms[ids[i]].parent
      <4>1. CASE ms[ids[i]].parent = p.mount
        <5>1. 1 \in DOMAIN ids
          BY <1>6, <1>8
        <5> QED
          BY <1>8, <4>1, <5>1
      <4>2. CASE ms[ids[i]].parent \in U
        <5>1. PICK j \in 2 .. Len(tree) : ids[j] = ms[ids[i]].parent
          BY <1>11, <4>2
        <5>2. j \in DOMAIN ids
          BY <1>3, <5>1
        <5> QED
          BY <5>1, <5>2
      <4> QED
        BY <3>3, <4>1, <4>2
    <3>5. tree[i].parent \in DOMAIN ids /\ ids[tree[i].parent] = ms[ids[i]].parent
      BY <2>3, <2>4, <3>4
    <3> QED
      BY <1>3, <3>5
  <2> QED
    BY <2>1, <2>3, <2>4
<1>16. Len(tree) >= 1
  BY <1>6, <1>9
<1> HIDE DEF tree
<1> QED
  BY <1>3, <1>4, <1>8, <1>10, <1>11, <1>12, <1>15, <1>16 DEF tree, ids, U

(* In a clone every mount but the first is on another mount of the clone.  *)
LEMMA CloneParents ==
    ASSUME NEW ms, IsSeq(ms), Records(ms), NEW p, p.mount \in 1 .. Len(ms), NEW rec
    PROVE  LET tree == Clone(ms, p, rec)
           IN  /\ IsSeq(tree) /\ Records(tree) /\ Len(tree) >= 1
               /\ \A i \in 2 .. Len(tree) : tree[i].parent \in 1 .. Len(tree)
<1> DEFINE tree == Clone(ms, p, rec)
<1>1. /\ IsSeq(tree) /\ Records(tree) /\ Len(tree) >= 1
      /\ \A i \in 1 .. Len(tree) : i # 1 => tree[i].parent \in 1 .. Len(tree)
  BY CloneShape
<1>2. \A i \in 2 .. Len(tree) : i \in 1 .. Len(tree) /\ i # 1
  BY <1>1, SeqFacts
<1> QED
  BY <1>1, <1>2

(* What is attached to a mount that is not shared is one copy of the tree.  *)
LEMMA AttachOne ==
    ASSUME NEW ms, IsSeq(ms), NEW p, ms[p.mount].group = 0,
           NEW tree, IsSeq(tree), Len(tree) >= 1
    PROVE  LET new == Attach(ms, p, tree)
           IN  /\ IsSeq(new) /\ Len(new) = Len(ms) + Len(tree)
               /\ \A i \in 1 .. Len(ms) : new[i] = ms[i]
               /\ \A n \in 1 .. Len(tree) :
                     new[Len(ms) + n] = Copy(ms, p, tree, p.mount, n, Len(ms))
<1> DEFINE L == Len(tree)
           copies == Copies(ms, p, tree)
<1>1. L \in Nat /\ L >= 1 /\ Len(ms) \in Nat
  BY SeqFacts
<1>2. Targets(ms, p) = <<p.mount>>
  <2>1. Receivers(ms, p.mount, p.dentry) = {}
    BY DEF Receivers
  <2>2. Listed(ms, {}) \in Seq({})
    <3>1. {} \cap (1 .. Len(ms)) = {}
      OBVIOUS
    <3> QED
      BY <3>1, ListedFacts
  <2>3. Listed(ms, {}) = <<>>
    BY <2>2
  <2> HIDE DEF L
  <2>4. <<p.mount>> \o <<>> = <<p.mount>>
    OBVIOUS
  <2> QED
    BY <2>1, <2>3, <2>4, Zenon DEF Targets
<1>3. Len(Targets(ms, p)) = 1 /\ Targets(ms, p)[1] = p.mount
  BY <1>2
<1>4. /\ DOMAIN copies = 1 .. L /\ copies = [n \in DOMAIN copies |-> copies[n]]
      /\ \A n \in 1 .. L : copies[n] = Copy(ms, p, tree, p.mount, n, Len(ms))
  <2> DEFINE c(n) == (n - 1) \div L
             k(n) == ((n - 1) % L) + 1
  <2>1. 1 * L = L /\ Len(ms) + 0 * L = Len(ms)
    BY <1>1
  <2>2. ASSUME NEW n \in 1 .. L
        PROVE  c(n) = 0 /\ k(n) = n
    <3> HIDE DEF L
    <3>1. n - 1 \in 0 .. L - 1 /\ L > 0
      BY <1>1
    <3> QED
      BY <1>1, <3>1
  <2>3. copies = [n \in 1 .. Len(Targets(ms, p)) * L |->
                    Copy(ms, p, tree, Targets(ms, p)[c(n) + 1], k(n), Len(ms) + c(n) * L)]
    BY DEF Copies
  <2> HIDE DEF copies, c, k, L
  <2>4. copies = [n \in 1 .. L |->
                    Copy(ms, p, tree, Targets(ms, p)[c(n) + 1], k(n), Len(ms) + c(n) * L)]
    BY <1>3, <2>1, <2>3
  <2>5. ASSUME NEW n \in 1 .. L
        PROVE  copies[n] = Copy(ms, p, tree, p.mount, n, Len(ms))
    <3>1. c(n) = 0 /\ k(n) = n /\ c(n) + 1 = 1
      BY <2>2
    <3> QED
      BY <1>3, <2>1, <2>4, <3>1
  <2> QED
    BY <2>4, <2>5
<1>5. Attach(ms, p, tree) = ms \o copies
  BY DEF Attach
<1> HIDE DEF copies
<1>6. /\ IsSeq(ms \o copies) /\ Len(ms \o copies) = Len(ms) + L
      /\ \A n \in 1 .. Len(ms) : (ms \o copies)[n] = ms[n]
      /\ \A n \in 1 .. L : (ms \o copies)[Len(ms) + n] = copies[n]
  <2>1. IsSeq(copies) /\ Len(copies) = L
    BY <1>1, <1>4, FunctionIsSeq
  <2> HIDE DEF L
  <2> QED
    BY <2>1, SeqConcat
<1> QED
  BY <1>4, <1>5, <1>6 DEF L

(* Attached to a mount that is not shared, the first mount of a tree is at *)
(* the place given, and the others are on mounts of the tree.              *)
LEMMA AttachPlaces ==
    ASSUME NEW ms, IsSeq(ms), NEW p, ms[p.mount].group = 0,
           NEW tree, IsSeq(tree), Records(tree), Len(tree) >= 1,
           \A i \in 2 .. Len(tree) : tree[i].parent \in 1 .. Len(tree)
    PROVE  LET new == Attach(ms, p, tree)
           IN  /\ Len(new) = Len(ms) + Len(tree)
               /\ new[Len(ms) + 1].parent = p.mount
               /\ new[Len(ms) + 1].at = p.dentry
               /\ new[Len(ms) + 1].ns = ms[p.mount].ns
               /\ \A i \in Len(ms) + 2 .. Len(new) : new[i].parent \in Len(ms) + 1 .. Len(new)
<1> DEFINE new == Attach(ms, p, tree)
           L == Len(tree)
<1>1. /\ IsSeq(new) /\ Len(new) = Len(ms) + L
      /\ \A n \in 1 .. L : new[Len(ms) + n] = Copy(ms, p, tree, p.mount, n, Len(ms))
  BY AttachOne
<1>2. L \in Nat /\ L >= 1 /\ Len(ms) \in Nat
  BY SeqFacts
<1> HIDE DEF new
<1>3. ASSUME NEW n \in 1 .. L
      PROVE  /\ new[Len(ms) + n].ns = ms[p.mount].ns
             /\ n = 1 => new[Len(ms) + n].parent = p.mount /\ new[Len(ms) + n].at = p.dentry
             /\ n # 1 => new[Len(ms) + n].parent = Len(ms) + tree[n].parent
  <2>1. DOMAIN tree[n] = Fields /\ new[Len(ms) + n] = Copy(ms, p, tree, p.mount, n, Len(ms))
    BY <1>1 DEF Records
  <2> QED
    BY <2>1 DEF Copy, Fields
<1>4. 1 \in 1 .. L
  BY <1>2
<1>5. ASSUME NEW i \in Len(ms) + 2 .. Len(ms) + L
      PROVE  new[i].parent \in Len(ms) + 1 .. Len(ms) + L
  <2> DEFINE n == i - Len(ms)
  <2>1. n \in 2 .. L /\ n \in 1 .. L /\ n # 1 /\ Len(ms) + n = i
    BY <1>2
  <2> HIDE DEF n
  <2>2. new[i].parent = Len(ms) + tree[n].parent
    BY <1>3, <2>1
  <2>3. tree[n].parent \in 1 .. L
    BY <2>1
  <2> HIDE DEF L
  <2> QED
    BY <1>2, <2>2, <2>3
<1> QED
  BY <1>1, <1>3, <1>4, <1>5 DEF new

-----------------------------------------------------------------------------
(* Where a lookup ends, and where it comes from.                           *)

(* Each mount of a set comes after what it is on.                          *)
Ordered(ms, X) ==
    /\ X \in SUBSET (1 .. Len(ms))
    /\ \A i \in X : ms[i].parent \in 0 .. i - 1 /\ IsSeq(ms[i].root)

(* A set of mounts in order, with all that is mounted on them, in a table  *)
(* where every mount is on one of the table.                               *)
Rising(ms, X) ==
    /\ IsSeq(ms) /\ Ordered(ms, X)
    /\ X \subseteq Mounted(ms) /\ Closed(ms, X)
    /\ \A i \in Mounted(ms) : ms[i].parent \in 0 .. Len(ms)

(* A place in one of a set of mounts.                                      *)
IsPlace(X, p) == p.mount \in X /\ p = Place(p.mount, p.dentry)

(* What is over a place comes after its mount.                             *)
LEMMA OverRises ==
    ASSUME NEW ms, NEW X, Rising(ms, X), NEW p, p.mount \in X
    PROVE  /\ Over(ms, p) \in SUBSET X /\ X \in SUBSET (1 .. Len(ms)) /\ Len(ms) \in Nat
           /\ \A j \in Over(ms, p) : j > p.mount
<1>1. Len(ms) \in Nat /\ X \in SUBSET (1 .. Len(ms))
  BY SeqFacts DEF Rising, Ordered
<1>2. ASSUME NEW j \in Over(ms, p)
      PROVE  j \in X /\ j > p.mount
  <2>1. j \in Mounted(ms) /\ ms[j].parent = p.mount
    BY DEF Over, Children
  <2>2. j \in X
    BY <2>1 DEF Rising, Closed
  <2>3. ms[j].parent \in 0 .. j - 1
    BY <2>2 DEF Rising, Ordered
  <2> QED
    BY <1>1, <2>1, <2>2, <2>3
<1> QED
  BY <1>1, <1>2

(* One step of a lookup goes to the root of a mount over the place, which  *)
(* comes after its mount, if there is one.                                 *)
LEMMA UpRises ==
    ASSUME NEW ms, NEW X, Rising(ms, X), NEW p, IsPlace(X, p)
    PROVE  /\ IsPlace(X, Up(ms, p))
           /\ Over(ms, p) = {} => Up(ms, p) = p
           /\ Over(ms, p) # {} =>
                 /\ Max(Over(ms, p)) \in Over(ms, p)
                 /\ \A j \in Over(ms, p) : Max(Over(ms, p)) >= j
                 /\ Up(ms, p) = RootOf(ms, Max(Over(ms, p)))
                 /\ Up(ms, p).mount = Max(Over(ms, p))
                 /\ Up(ms, p).mount > p.mount
<1>1. p.mount \in X
  BY DEF IsPlace
<1>2. /\ Over(ms, p) \in SUBSET X /\ X \in SUBSET (1 .. Len(ms)) /\ Len(ms) \in Nat
      /\ \A j \in Over(ms, p) : j > p.mount
  BY <1>1, OverRises
<1>3. CASE Over(ms, p) = {}
  BY <1>3 DEF Up
<1>4. CASE Over(ms, p) # {}
  <2> DEFINE j == Max(Over(ms, p))
  <2>1. j \in Over(ms, p) /\ \A i \in Over(ms, p) : j >= i
    BY <1>2, <1>4, MaxIn
  <2>2. Up(ms, p) = RootOf(ms, j)
    BY <1>4 DEF Up
  <2> HIDE DEF j
  <2>3. RootOf(ms, j).mount = j /\ IsPlace(X, RootOf(ms, j))
    BY <1>2, <2>1 DEF RootOf, Place, IsPlace
  <2> QED
    BY <1>2, <1>4, <2>1, <2>2, <2>3 DEF j
<1> QED
  BY <1>3, <1>4

(* Going up comes to an end: what holds where nothing is over a place, and *)
(* of each place from which it holds one step up, holds everywhere.        *)
LEMMA UpInduction ==
    ASSUME NEW ms, NEW X, Rising(ms, X), NEW V, NEW S,
           \A x \in V : IsPlace(X, x) /\ Up(ms, x) \in V,
           \A x \in V : (Over(ms, x) = {} \/ Up(ms, x) \in S) => x \in S
    PROVE  V \subseteq S
<1> DEFINE N == Len(ms)
           T == {k \in Nat : \A x \in V : N - x.mount <= k => x \in S}
<1>1. N \in Nat /\ \A x \in V : x.mount \in 1 .. N
  BY SeqFacts DEF Rising, Ordered, IsPlace
<1>2. ASSUME NEW x \in V, Over(ms, x) # {}
      PROVE  Up(ms, x) \in V /\ N - Up(ms, x).mount < N - x.mount /\ N - Up(ms, x).mount >= 0
  <2>1. IsPlace(X, x) /\ Up(ms, x) \in V
    OBVIOUS
  <2>2. Up(ms, x).mount > x.mount
    BY <1>2, <2>1, UpRises
  <2> QED
    BY <1>1, <2>1, <2>2
<1> HIDE DEF N
<1>3. 0 \in T
  <2>1. ASSUME NEW x \in V, N - x.mount <= 0
        PROVE  x \in S
    <3>1. Over(ms, x) = {}
      BY <1>1, <1>2, <2>1
    <3> QED
      BY <3>1
  <2> QED
    BY <2>1
<1>4. ASSUME NEW k \in Nat, k \in T
      PROVE  k + 1 \in T
  <2>1. ASSUME NEW x \in V, N - x.mount <= k + 1
        PROVE  x \in S
    <3>1. CASE Over(ms, x) = {}
      BY <3>1
    <3>2. CASE Over(ms, x) # {}
      <4>1. Up(ms, x) \in V /\ N - Up(ms, x).mount < N - x.mount
        BY <1>2, <3>2
      <4>2. N - Up(ms, x).mount <= k
        BY <1>1, <2>1, <4>1
      <4> QED
        BY <1>4, <4>1, <4>2
    <3> QED
      BY <3>1, <3>2
  <2> QED
    BY <2>1
<1> HIDE DEF T
<1>5. N \in T
  BY <1>1, <1>3, <1>4, NatSet
<1>6. \A x \in V : N - x.mount <= N
  BY <1>1
<1> QED
  BY <1>5, <1>6 DEF T

(* The places a lookup of p may pass.                                      *)
Ways(ms, X, p) == {p} \cup {RootOf(ms, i) : i \in X}

LEMMA WaysUp ==
    ASSUME NEW ms, NEW X, Rising(ms, X), NEW p, IsPlace(X, p)
    PROVE  \A x \in Ways(ms, X, p) : IsPlace(X, x) /\ Up(ms, x) \in Ways(ms, X, p)
<1> TAKE x \in Ways(ms, X, p)
<1>1. IsPlace(X, x)
  BY DEF Ways, RootOf, Place, IsPlace
<1>2. CASE Over(ms, x) = {}
  BY <1>1, <1>2, UpRises
<1>3. CASE Over(ms, x) # {}
  <2>1. Max(Over(ms, x)) \in Over(ms, x) /\ Up(ms, x) = RootOf(ms, Max(Over(ms, x)))
    BY <1>1, <1>3, UpRises
  <2>2. x.mount \in X
    BY <1>1 DEF IsPlace
  <2>3. Over(ms, x) \in SUBSET X
    BY <2>2, OverRises
  <2> QED
    BY <1>1, <2>1, <2>3 DEF Ways
<1> QED
  BY <1>1, <1>2, <1>3

(* A lookup ends where nothing is mounted over, and it ends there from     *)
(* every place it passes.                                                  *)
LEMMA TopUnfold ==
    ASSUME NEW ms, NEW X, Rising(ms, X), NEW p, IsPlace(X, p)
    PROVE  /\ IsPlace(X, Top(ms, p)) /\ Over(ms, Top(ms, p)) = {}
           /\ Over(ms, p) = {} => Top(ms, p) = p
           /\ Over(ms, p) # {} =>
                 Top(ms, p) = Top(ms, Up(ms, p)) /\ Top(ms, p).mount > p.mount
<1> DEFINE N == Len(ms)
<1>0. IsSeq(ms) /\ N \in Nat /\ \A i \in X : i \in 1 .. N
  BY SeqFacts DEF Rising, Ordered
<1> HIDE DEF N
<1>1. ASSUME NEW q, IsPlace(X, q), NEW g, g[0] = q,
             \A n \in 1 .. N : g[n] = Up(ms, g[n - 1])
      PROVE  \A n \in 0 .. N : /\ IsPlace(X, g[n]) /\ g[n].mount >= q.mount
                               /\ Over(ms, g[n]) = {} \/ g[n].mount > n
  <2> DEFINE P(n) == /\ IsPlace(X, g[n]) /\ g[n].mount >= q.mount
                     /\ Over(ms, g[n]) = {} \/ g[n].mount > n
             S == {n \in Nat : n \in 0 .. N => P(n)}
  <2>1. 0 \in S
    <3>1. q.mount \in 1 .. N
      BY <1>0, <1>1 DEF IsPlace
    <3> QED
      BY <1>1, <3>1
  <2>2. ASSUME NEW n \in Nat, n \in S
        PROVE  n + 1 \in S
    <3> SUFFICES ASSUME n + 1 \in 0 .. N
                 PROVE  P(n + 1)
      OBVIOUS
    <3>1. n \in 0 .. N /\ n + 1 \in 1 .. N /\ (n + 1) - 1 = n
      BY <1>0
    <3>2. P(n) /\ g[n + 1] = Up(ms, g[n])
      BY <1>1, <2>2, <3>1
    <3>3. IsPlace(X, g[n + 1])
      BY <3>2, UpRises
    <3>4. q.mount \in 1 .. N /\ g[n].mount \in 1 .. N /\ g[n + 1].mount \in 1 .. N
      BY <1>0, <1>1, <3>2, <3>3 DEF IsPlace
    <3>5. CASE Over(ms, g[n]) = {}
      BY <3>2, <3>5, UpRises
    <3>6. CASE Over(ms, g[n]) # {}
      <4>1. g[n + 1].mount > g[n].mount
        BY <3>2, <3>6, UpRises
      <4> QED
        BY <3>2, <3>3, <3>4, <3>6, <4>1
    <3> QED
      BY <3>5, <3>6
  <2> HIDE DEF S
  <2>3. \A n \in 0 .. N : n \in S
    BY <2>1, <2>2, NatSet
  <2> QED
    BY <2>3 DEF S
<1>2. ASSUME NEW q, IsPlace(X, q), Over(ms, q) # {}
      PROVE  \E g : /\ g[0] = q
                    /\ \A n \in 1 .. N : g[n] = Up(ms, g[n - 1])
                    /\ Top(ms, q) = g[N]
                    /\ IsPlace(X, g[N]) /\ Over(ms, g[N]) = {} /\ g[N].mount >= q.mount
  <2>1. PICK g : /\ g[0] = q
                 /\ \A n \in 1 .. N : g[n] = Up(ms, g[n - 1])
                 /\ Top(ms, q) = g[N]
    BY <1>0, <1>2, TopSteps DEF N
  <2>2. N \in 0 .. N
    BY <1>0
  <2>3. /\ IsPlace(X, g[N]) /\ g[N].mount >= q.mount
        /\ Over(ms, g[N]) = {} \/ g[N].mount > N
    BY <1>1, <1>2, <2>1, <2>2
  <2>4. g[N].mount \in 1 .. N
    BY <1>0, <2>3 DEF IsPlace
  <2> QED
    BY <1>0, <2>1, <2>3, <2>4
<1>3. CASE Over(ms, p) = {}
  BY <1>3 DEF Top
<1>4. CASE Over(ms, p) # {}
  <2>1. PICK g : /\ g[0] = p
                 /\ \A n \in 1 .. N : g[n] = Up(ms, g[n - 1])
                 /\ Top(ms, p) = g[N]
                 /\ IsPlace(X, g[N]) /\ Over(ms, g[N]) = {} /\ g[N].mount >= p.mount
    BY <1>2, <1>4
  <2> DEFINE u == Up(ms, p)
  <2>2. IsPlace(X, u) /\ u.mount > p.mount
    BY <1>4, UpRises
  <2>3. \A n \in 0 .. N : IsPlace(X, g[n])
    BY <1>1, <2>1
  <2>4. p.mount \in 1 .. N /\ u.mount \in 1 .. N /\ N >= 1
    BY <1>0, <2>2 DEF IsPlace
  <2> HIDE DEF u
  <2>5. g[1] = u
    <3>1. 1 \in 1 .. N /\ 1 - 1 = 0
      BY <1>0, <2>4
    <3> QED
      BY <2>1, <3>1 DEF u
  <2>6. Top(ms, u) = g[N]
    <3>1. CASE Over(ms, u) = {}
      <4> DEFINE S == {n \in Nat : n \in 1 .. N => g[n] = u}
      <4>1. 0 \in S
        OBVIOUS
      <4>2. ASSUME NEW n \in Nat, n \in S
            PROVE  n + 1 \in S
        <5> SUFFICES ASSUME n + 1 \in 1 .. N
                     PROVE  g[n + 1] = u
          OBVIOUS
        <5>1. CASE n = 0
          BY <2>5, <5>1
        <5>2. CASE n # 0
          <6>1. n \in 1 .. N /\ (n + 1) - 1 = n
            BY <1>0, <5>2
          <6>2. g[n + 1] = Up(ms, g[n]) /\ g[n] = u
            BY <2>1, <4>2, <6>1
          <6> QED
            BY <3>1, <6>2 DEF Up
        <5> QED
          BY <5>1, <5>2
      <4> HIDE DEF S
      <4>3. N \in S /\ N \in 1 .. N
        BY <1>0, <2>4, <4>1, <4>2, NatSet
      <4>4. g[N] = u
        BY <4>3 DEF S
      <4> QED
        BY <3>1, <4>4 DEF Top
    <3>2. CASE Over(ms, u) # {}
      <4>1. PICK h : /\ h[0] = u
                     /\ \A n \in 1 .. N : h[n] = Up(ms, h[n - 1])
                     /\ Top(ms, u) = h[N]
        BY <1>2, <2>2, <3>2
      <4> DEFINE S == {n \in Nat : n + 1 \in 0 .. N => h[n] = g[n + 1]}
      <4>2. 0 \in S
        BY <2>5, <4>1
      <4>3. ASSUME NEW n \in Nat, n \in S
            PROVE  n + 1 \in S
        <5> SUFFICES ASSUME (n + 1) + 1 \in 0 .. N
                     PROVE  h[n + 1] = g[(n + 1) + 1]
          OBVIOUS
        <5>1. /\ n + 1 \in 0 .. N /\ n + 1 \in 1 .. N /\ (n + 1) - 1 = n
              /\ (n + 1) + 1 \in 1 .. N /\ ((n + 1) + 1) - 1 = n + 1
          BY <1>0
        <5>2. h[n] = g[n + 1]
          BY <4>3, <5>1
        <5>3. h[n + 1] = Up(ms, h[n]) /\ g[(n + 1) + 1] = Up(ms, g[n + 1])
          BY <2>1, <4>1, <5>1, Zenon
        <5> QED
          BY <5>2, <5>3
      <4> HIDE DEF S
      <4>4. N - 1 \in S /\ (N - 1) + 1 = N /\ N \in 0 .. N /\ N \in 1 .. N
        BY <1>0, <2>4, <4>2, <4>3, NatSet
      <4>5. h[N - 1] = g[N]
        BY <4>4 DEF S
      <4>6. h[N] = Up(ms, g[N])
        BY <4>1, <4>4, <4>5
      <4>7. h[N] = g[N]
        BY <2>1, <4>6 DEF Up
      <4> QED
        BY <4>1, <4>7
    <3> QED
      BY <3>1, <3>2
  <2>7. Top(ms, p).mount > p.mount
    <3>1. Top(ms, u).mount >= u.mount
      <4>1. CASE Over(ms, u) = {}
        BY <2>4, <4>1 DEF Top
      <4>2. CASE Over(ms, u) # {}
        BY <1>2, <2>2, <4>2
      <4> QED
        BY <4>1, <4>2
    <3>2. g[N].mount \in 1 .. N
      BY <1>0, <2>1 DEF IsPlace
    <3> QED
      BY <2>1, <2>2, <2>4, <2>6, <3>1, <3>2
  <2> QED
    BY <1>4, <2>1, <2>6, <2>7 DEF u
<1> QED
  BY <1>3, <1>4

(* Lookups from two places that are no roots end at different places.      *)
LEMMA TopInjective ==
    ASSUME NEW ms, NEW X, Rising(ms, X), NEW p, IsPlace(X, p), ~IsRoot(ms, p),
           NEW q, IsPlace(X, q), ~IsRoot(ms, q), Top(ms, p) = Top(ms, q)
    PROVE  p = q
<1> DEFINE V == Ways(ms, X, p) \cup Ways(ms, X, q)
           Back(U) == \A x \in V : Over(ms, x) # {} /\ Up(ms, x) \in U => x \in U
           W == {x \in V : \A U \in SUBSET V : Back(U) /\ x \in U => p \in U}
<1>1. \A x \in V : IsPlace(X, x) /\ Up(ms, x) \in V
  BY WaysUp
<1>2. p \in V /\ q \in V
  BY DEF Ways
<1>3. ASSUME NEW x \in V, Over(ms, x) # {}
      PROVE  /\ IsRoot(ms, Up(ms, x)) /\ Top(ms, x) = Top(ms, Up(ms, x))
             /\ x = Place(ms[Up(ms, x).mount].parent, ms[Up(ms, x).mount].at)
  <2> DEFINE j == Max(Over(ms, x))
  <2>1. IsPlace(X, x)
    BY <1>1
  <2>2. j \in Over(ms, x) /\ Up(ms, x) = RootOf(ms, j) /\ Top(ms, x) = Top(ms, Up(ms, x))
    BY <1>3, <2>1, UpRises, TopUnfold
  <2> HIDE DEF j
  <2>3. ms[j].parent = x.mount /\ ms[j].at = x.dentry
    BY <2>2 DEF Over, Children
  <2> QED
    BY <2>1, <2>2, <2>3 DEF IsRoot, RootOf, Place, IsPlace
<1> HIDE DEF V
<1>4. ASSUME NEW U \in SUBSET V, Back(U), NEW y \in V, Top(ms, y) \in U
      PROVE  y \in U
  <2> DEFINE S == {x \in V : Top(ms, x) \in U => x \in U}
  <2>1. ASSUME NEW x \in V, Over(ms, x) = {} \/ Up(ms, x) \in S
        PROVE  x \in S
    <3>1. CASE Over(ms, x) = {}
      <4>1. Top(ms, x) = x
        BY <3>1 DEF Top
      <4> QED
        BY <4>1
    <3>2. CASE Over(ms, x) # {}
      <4>1. Top(ms, x) = Top(ms, Up(ms, x))
        BY <1>3, <3>2
      <4> QED
        BY <1>4, <2>1, <3>2, <4>1
    <3> QED
      BY <3>1, <3>2
  <2> HIDE DEF S
  <2>2. V \subseteq S
    BY <1>1, <2>1, UpInduction
  <2> QED
    BY <1>4, <2>2 DEF S
<1>5. Back(W)
  <2> SUFFICES ASSUME NEW x \in V, Over(ms, x) # {}, Up(ms, x) \in W,
                      NEW U \in SUBSET V, Back(U), x \in U
               PROVE  p \in U
    OBVIOUS
  <2> DEFINE u == Up(ms, x)
             T == U \cup {u}
  <2>1. u \in V /\ IsRoot(ms, u) /\ x = Place(ms[u.mount].parent, ms[u.mount].at)
    BY <1>1, <1>3
  <2>2. Back(T)
    <3> SUFFICES ASSUME NEW y \in V, Over(ms, y) # {}, Up(ms, y) \in T
                 PROVE  y \in U
      OBVIOUS
    <3>1. CASE Up(ms, y) = u
      <4>1. y = Place(ms[u.mount].parent, ms[u.mount].at)
        BY <1>3, <3>1
      <4> QED
        BY <2>1, <4>1
    <3> QED
      BY <3>1
  <2>3. T \in SUBSET V /\ u \in T
    BY <2>1
  <2>4. p \in T
    BY <2>2, <2>3
  <2> QED
    BY <2>1, <2>4
<1>6. q \in W
  <2>1. Back(V) /\ V \in SUBSET V
    OBVIOUS
  <2>2. Top(ms, p) \in V
    <3> DEFINE S == {x \in V : Top(ms, x) \in V}
    <3>1. ASSUME NEW x \in V, Over(ms, x) = {} \/ Up(ms, x) \in S
          PROVE  x \in S
      <4>1. CASE Over(ms, x) = {}
        BY <4>1 DEF Top
      <4>2. CASE Over(ms, x) # {}
        BY <1>3, <3>1, <4>2
      <4> QED
        BY <4>1, <4>2
    <3> HIDE DEF S
    <3>2. V \subseteq S
      BY <1>1, <3>1, UpInduction
    <3> QED
      BY <1>2, <3>2 DEF S
  <2>3. Top(ms, p) \in W
    <3> SUFFICES ASSUME NEW U \in SUBSET V, Back(U), Top(ms, p) \in U
                 PROVE  p \in U
      BY <2>2
    <3> QED
      BY <1>2, <1>4
  <2>4. W \in SUBSET V
    OBVIOUS
  <2> HIDE DEF W
  <2> QED
    BY <1>2, <1>4, <1>5, <2>3, <2>4
<1>7. Back({q})
  <2> SUFFICES ASSUME NEW x \in V, Over(ms, x) # {}, Up(ms, x) = q
               PROVE  FALSE
    OBVIOUS
  <2> QED
    BY <1>3
<1>8. {q} \in SUBSET V
  BY <1>2
<1> QED
  BY <1>6, <1>7, <1>8

-----------------------------------------------------------------------------
(* Walks.                                                                  *)

(* A place in one of a set of mounts, in the part of its file system that  *)
(* is mounted.                                                             *)
IsGood(ms, X, p) ==
    /\ IsPlace(X, p) /\ IsSeq(p.dentry)
    /\ Len(p.dentry) >= Len(ms[p.mount].root)

(* The places a walk passes.                                               *)
Steps(ms, r, path, g) ==
    /\ g[0] = RootOf(ms, r)
    /\ \A n \in 1 .. Len(path) : g[n] = Enter(ms, g[n - 1], path[n])

(* Different names, or different places, make different places.            *)
LEMMA NameInjective ==
    ASSUME NEW d, IsSeq(d), NEW a, NEW e, IsSeq(e), NEW b, Append(d, a) = Append(e, b)
    PROVE  d = e /\ a = b
<1>1. Len(d) \in Nat /\ DOMAIN d = 1 .. Len(d) /\ Len(e) \in Nat /\ DOMAIN e = 1 .. Len(e)
  BY SeqFacts
<1>2. Len(d) = Len(e)
  <2>1. Len(Append(d, a)) = Len(d) + 1 /\ Len(Append(e, b)) = Len(e) + 1
    BY AppendName
  <2>2. Len(d) + 1 = Len(e) + 1
    BY <2>1, Zenon
  <2>3. \A m, n \in Nat : m + 1 = n + 1 => m = n
    OBVIOUS
  <2> QED
    BY <1>1, <2>2, <2>3, Zenon
<1>3. a = b /\ \A i \in 1 .. Len(d) : d[i] = e[i]
  <2>1. /\ \A i \in 1 .. Len(d) : Append(d, a)[i] = d[i]
        /\ Append(d, a)[Len(d) + 1] = a
    BY AppendName
  <2>2. /\ \A i \in 1 .. Len(e) : Append(e, b)[i] = e[i]
        /\ Append(e, b)[Len(e) + 1] = b
    BY AppendName
  <2> QED
    BY <1>2, <2>1, <2>2
<1>4. d = [i \in DOMAIN d |-> d[i]] /\ e = [i \in DOMAIN e |-> e[i]]
  BY DEF IsSeq
<1>5. DOMAIN d = DOMAIN e /\ \A i \in DOMAIN d : d[i] = e[i]
  BY <1>1, <1>2, <1>3
<1>6. d = e
  BY <1>4, <1>5, Zenon
<1> QED
  BY <1>3, <1>6

(* One step of a walk starts at a place that is no root and goes on, to a  *)
(* later mount or to a longer path.                                        *)
LEMMA EnterGood ==
    ASSUME NEW ms, NEW X, Rising(ms, X), NEW p, IsGood(ms, X, p), NEW name
    PROVE  LET y == Place(p.mount, Append(p.dentry, name))
           IN  /\ IsPlace(X, y) /\ ~IsRoot(ms, y)
               /\ IsGood(ms, X, Enter(ms, p, name))
               /\ Over(ms, Enter(ms, p, name)) = {}
               /\ \/ Enter(ms, p, name).mount > p.mount
                  \/ Enter(ms, p, name) = y
<1> DEFINE d == Append(p.dentry, name)
           y == Place(p.mount, d)
<1>1. IsSeq(d) /\ Len(d) = Len(p.dentry) + 1
  BY AppendName DEF IsGood
<1>2. p.mount \in X /\ IsSeq(ms[p.mount].root) /\ Len(p.dentry) >= Len(ms[p.mount].root)
      /\ IsSeq(p.dentry)
  BY DEF IsGood, IsPlace, Rising, Ordered
<1>3. Len(ms[p.mount].root) \in Nat /\ Len(p.dentry) \in Nat
  BY <1>2, SeqFacts
<1> HIDE DEF d
<1>4. y.mount = p.mount /\ y.dentry = d /\ IsPlace(X, y)
  BY <1>2 DEF Place, IsPlace
<1>5. ~IsRoot(ms, y)
  BY <1>1, <1>2, <1>3, <1>4 DEF IsRoot
<1> HIDE DEF y
<1>6. /\ IsPlace(X, Top(ms, y)) /\ Over(ms, Top(ms, y)) = {}
      /\ Over(ms, y) = {} => Top(ms, y) = y
      /\ Over(ms, y) # {} => Top(ms, y).mount > y.mount
  BY <1>4, TopUnfold
<1>7. IsGood(ms, X, Top(ms, y))
  <2>1. CASE Top(ms, y) = y
    <3>1. Len(y.dentry) >= Len(ms[y.mount].root)
      BY <1>1, <1>2, <1>3, <1>4
    <3> QED
      BY <1>1, <1>4, <2>1, <3>1 DEF IsGood
  <2>2. CASE IsRoot(ms, Top(ms, y))
    <3> DEFINE t == Top(ms, y)
    <3>1. t.mount \in X /\ t.dentry = ms[t.mount].root
      BY <1>6, <2>2 DEF IsPlace, IsRoot
    <3>2. IsSeq(t.dentry) /\ Len(t.dentry) \in Nat
      BY <3>1, SeqFacts DEF Rising, Ordered
    <3> QED
      BY <1>6, <3>1, <3>2 DEF IsGood
  <2>3. IsSeq(ms)
    BY DEF Rising
  <2> QED
    BY <2>1, <2>2, <2>3, TopIsRoot
<1>8. Enter(ms, p, name) = Top(ms, y)
  BY DEF Enter, y, d
<1> QED
  BY <1>4, <1>5, <1>6, <1>7, <1>8 DEF y, d

(* Different steps lead to different places.                               *)
LEMMA EnterInjective ==
    ASSUME NEW ms, NEW X, Rising(ms, X), NEW p, IsGood(ms, X, p), NEW a,
           NEW q, IsGood(ms, X, q), NEW b, Enter(ms, p, a) = Enter(ms, q, b)
    PROVE  p = q /\ a = b
<1> DEFINE y == Place(p.mount, Append(p.dentry, a))
           z == Place(q.mount, Append(q.dentry, b))
<1>1. IsPlace(X, y) /\ ~IsRoot(ms, y) /\ IsPlace(X, z) /\ ~IsRoot(ms, z)
  BY EnterGood
<1>2. Top(ms, y) = Top(ms, z)
  BY DEF Enter
<1>3. y = z
  BY <1>1, <1>2, TopInjective
<1>4. p.mount = q.mount /\ Append(p.dentry, a) = Append(q.dentry, b)
  BY <1>3 DEF Place
<1>5. IsSeq(p.dentry) /\ IsSeq(q.dentry)
  BY DEF IsGood
<1>6. p.dentry = q.dentry /\ a = b
  BY <1>4, <1>5, NameInjective
<1> QED
  BY <1>4, <1>6 DEF IsGood, IsPlace

(* Every place of a walk is good, and after the first none is the root it  *)
(* starts from, and nothing is over it.                                    *)
LEMMA WalkGood ==
    ASSUME NEW ms, NEW X, Rising(ms, X), NEW r \in X, NEW path, Len(path) \in Nat, NEW g,
           Steps(ms, r, path, g)
    PROVE  \A n \in 0 .. Len(path) :
              /\ IsGood(ms, X, g[n])
              /\ n > 0 => g[n] # RootOf(ms, r) /\ Over(ms, g[n]) = {}
<1> DEFINE L == Len(path)
           Root == ms[r].root
           Far(p) == p.mount > r \/ (p.mount = r /\ Len(p.dentry) > Len(Root))
           Fine(n) == /\ IsGood(ms, X, g[n])
                      /\ n = 0 => g[n] = RootOf(ms, r)
                      /\ n > 0 => Far(g[n]) /\ Over(ms, g[n]) = {}
           S == {n \in Nat : n \in 0 .. L => Fine(n)}
<1>0. IsSeq(Root) /\ Len(Root) \in Nat /\ r \in Nat /\ \A x \in X : x \in Nat
  <2>1. IsSeq(Root)
    BY DEF Rising, Ordered
  <2> QED
    BY <2>1, SeqFacts DEF Rising, Ordered
<1>1. 0 \in S
  <2>1. g[0].mount = r /\ g[0].dentry = Root /\ IsPlace(X, g[0]) /\ g[0] = RootOf(ms, r)
    BY DEF Steps, RootOf, Place, IsPlace
  <2> QED
    BY <1>0, <2>1 DEF IsGood
<1>2. ASSUME NEW n \in Nat, n \in S
      PROVE  n + 1 \in S
  <2> SUFFICES ASSUME n + 1 \in 0 .. L
               PROVE  Fine(n + 1)
    OBVIOUS
  <2>1. n \in 0 .. L /\ n + 1 \in 1 .. L /\ (n + 1) - 1 = n
    OBVIOUS
  <2> DEFINE p == g[n]
             y == Place(p.mount, Append(p.dentry, path[n + 1]))
  <2>2. IsGood(ms, X, p) /\ (n = 0 => p = RootOf(ms, r)) /\ (n > 0 => Far(p))
        /\ g[n + 1] = Enter(ms, p, path[n + 1])
    BY <1>2, <2>1 DEF Steps
  <2>3. p.mount > r \/ (p.mount = r /\ Len(p.dentry) >= Len(Root))
    <3>1. CASE n = 0
      BY <1>0, <2>2, <3>1 DEF RootOf, Place
    <3> QED
      BY <1>0, <2>2, <3>1
  <2>4. /\ IsGood(ms, X, g[n + 1]) /\ Over(ms, g[n + 1]) = {}
        /\ g[n + 1].mount > p.mount \/ g[n + 1] = y
    BY <2>2, EnterGood
  <2>5. y.mount = p.mount /\ Len(y.dentry) = Len(p.dentry) + 1 /\ Len(p.dentry) \in Nat
    <3>1. IsSeq(p.dentry)
      BY <2>2 DEF IsGood
    <3> QED
      BY <3>1, AppendName, SeqFacts DEF Place
  <2>6. g[n + 1].mount \in Nat /\ p.mount \in Nat
    BY <1>0, <2>2, <2>4 DEF IsGood, IsPlace
  <2> HIDE DEF p, y, L, Root
  <2>7. Far(g[n + 1])
    BY <1>0, <2>3, <2>4, <2>5, <2>6
  <2> QED
    BY <2>4, <2>7
<1>3. \A p : Far(p) => p # RootOf(ms, r)
  BY <1>0 DEF RootOf, Place
<1> HIDE DEF S
<1>4. \A n \in 0 .. L : n \in S
  BY <1>1, <1>2, NatSet
<1> HIDE DEF Far
<1> QED
  BY <1>3, <1>4 DEF S

(* Walks that pass the same place came the same way.                       *)
LEMMA WalksMeet ==
    ASSUME NEW ms, NEW X, Rising(ms, X), NEW r \in X,
           NEW p, Len(p) \in Nat, NEW h, Steps(ms, r, p, h),
           NEW q, Len(q) \in Nat, NEW g, Steps(ms, r, q, g)
    PROVE  \A n \in 0 .. Len(q) : \A k \in 0 .. Len(p) :
              g[n] = h[k] <=> n = k /\ \A i \in 1 .. n : p[i] = q[i]
<1> DEFINE Meet(n) == \A k \in 0 .. Len(p) :
                        g[n] = h[k] <=> n = k /\ \A i \in 1 .. n : p[i] = q[i]
           S == {n \in Nat : n \in 0 .. Len(q) => Meet(n)}
<1>1. g[0] = RootOf(ms, r) /\ h[0] = RootOf(ms, r)
  BY DEF Steps
<1>2. \A n \in 0 .. Len(q) : IsGood(ms, X, g[n]) /\ (n > 0 => g[n] # RootOf(ms, r))
  BY WalkGood
<1>3. \A k \in 0 .. Len(p) : IsGood(ms, X, h[k]) /\ (k > 0 => h[k] # RootOf(ms, r))
  BY WalkGood
<1>4. 0 \in S
  <2>1. ASSUME NEW k \in 0 .. Len(p)
        PROVE  g[0] = h[k] <=> 0 = k /\ \A i \in 1 .. 0 : p[i] = q[i]
    BY <1>1, <1>3
  <2> QED
    BY <2>1
<1>5. ASSUME NEW n \in Nat, n \in S
      PROVE  n + 1 \in S
  <2> SUFFICES ASSUME n + 1 \in 0 .. Len(q), NEW k \in 0 .. Len(p)
               PROVE  g[n + 1] = h[k] <=> n + 1 = k /\ \A i \in 1 .. n + 1 : p[i] = q[i]
    OBVIOUS
  <2>1. /\ n \in 0 .. Len(q) /\ n + 1 \in 1 .. Len(q) /\ (n + 1) - 1 = n
        /\ g[n + 1] = Enter(ms, g[n], q[n + 1])
    BY DEF Steps
  <2>2. CASE k = 0
    BY <1>1, <1>2, <2>2
  <2>3. CASE k # 0
    <3>1. /\ k - 1 \in 0 .. Len(p) /\ k \in 1 .. Len(p) /\ (k - 1) + 1 = k
          /\ h[k] = Enter(ms, h[k - 1], p[k])
      BY <2>3 DEF Steps
    <3>2. g[n] = h[k - 1] <=> n = k - 1 /\ \A i \in 1 .. n : p[i] = q[i]
      BY <1>5, <2>1, <3>1
    <3>3. g[n + 1] = h[k] <=> g[n] = h[k - 1] /\ q[n + 1] = p[k]
      <4>1. IsGood(ms, X, g[n]) /\ IsGood(ms, X, h[k - 1])
        BY <1>2, <1>3, <2>1, <3>1
      <4> QED
        BY <2>1, <3>1, <4>1, EnterInjective
    <3> QED
      BY <3>1, <3>2, <3>3
  <2> QED
    BY <2>2, <2>3
<1> HIDE DEF S
<1>6. \A n \in 0 .. Len(q) : n \in S
  BY <1>4, <1>5, NatSet
<1> QED
  BY <1>6 DEF S

-----------------------------------------------------------------------------
(* Walks in a table to which a tree has been attached.                     *)

(* The mounts of a set, and those that are new.                            *)
Grown(ms, X, new) == X \cup (Len(ms) + 1 .. Len(new))

(* A tree has been attached at a place of X: its first mount is there, the *)
(* others are on mounts of the tree, and all else is as it was.            *)
Grows(ms, X, to, tree, new) ==
    /\ Rising(ms, X) /\ IsPlace(X, to)
    /\ IsSeq(tree) /\ Len(tree) >= 1
    /\ Len(new) = Len(ms) + Len(tree)
    /\ Rising(new, Grown(ms, X, new))
    /\ \A i \in 1 .. Len(ms) : new[i] = ms[i]
    /\ \A i \in 1 .. Len(tree) :
          LET m == new[Len(ms) + i]
          IN  /\ m.root = tree[i].root /\ m.fs = tree[i].fs /\ m.ro = tree[i].ro
              /\ m.ns = ms[to.mount].ns
              /\ i = 1 => m.parent = to.mount /\ m.at = to.dentry
              /\ i # 1 => /\ tree[i].parent \in 1 .. i - 1
                          /\ m.parent = Len(ms) + tree[i].parent /\ m.at = tree[i].at

(* Attach does so, to a mount that is not shared.                          *)
LEMMA AttachGrows ==
    ASSUME NEW ms, NEW X, Rising(ms, X), NEW to, IsPlace(X, to), ms[to.mount].group = 0,
           NEW tree, IsSeq(tree), Records(tree), Len(tree) >= 1,
           \A i \in 1 .. Len(tree) : IsSeq(tree[i].root),
           \A i \in 2 .. Len(tree) : tree[i].parent \in 1 .. i - 1
    PROVE  Grows(ms, X, to, tree, Attach(ms, to, tree))
<1> DEFINE new == Attach(ms, to, tree)
           B == Len(ms)
           L == Len(tree)
           Y == Grown(ms, X, new)
<1>1. /\ IsSeq(ms) /\ B \in Nat /\ X \in SUBSET (1 .. B) /\ to.mount \in X
      /\ L \in Nat /\ L >= 1 /\ DOMAIN ms = 1 .. B
  BY SeqFacts DEF Rising, Ordered, IsPlace
<1>2. /\ IsSeq(new) /\ Len(new) = B + L
      /\ \A i \in 1 .. B : new[i] = ms[i]
      /\ \A n \in 1 .. L : new[B + n] = Copy(ms, to, tree, to.mount, n, B)
  BY <1>1, AttachOne
<1> HIDE DEF new
<1>3. ASSUME NEW i \in 1 .. L
      PROVE  LET m == new[B + i]
             IN  /\ m.root = tree[i].root /\ m.fs = tree[i].fs /\ m.ro = tree[i].ro
                 /\ m.ns = ms[to.mount].ns
                 /\ i = 1 => m.parent = to.mount /\ m.at = to.dentry
                 /\ i # 1 => m.parent = B + tree[i].parent /\ m.at = tree[i].at
                 /\ i # 1 => tree[i].parent \in 1 .. i - 1
  <2>1. DOMAIN tree[i] = Fields /\ new[B + i] = Copy(ms, to, tree, to.mount, i, B)
    BY <1>2 DEF Records
  <2>2. i # 1 => i \in 2 .. L
    BY <1>1
  <2> QED
    BY <2>1, <2>2 DEF Copy, Fields
<1>4. /\ Y \in SUBSET (1 .. Len(new)) /\ DOMAIN new = 1 .. Len(new)
      /\ \A i \in Y : i \in X \/ \E n \in 1 .. L : i = B + n
  <2>1. ASSUME NEW i \in B + 1 .. B + L
        PROVE  i \in 1 .. B + L /\ i - B \in 1 .. L /\ i = B + (i - B)
    BY <1>1
  <2>2. ASSUME NEW i \in X
        PROVE  i \in 1 .. B + L
    BY <1>1
  <2>3. Y = X \cup (B + 1 .. B + L)
    BY <1>2 DEF Grown
  <2> HIDE DEF Y, B, L
  <2>4. \A i \in Y : i \in 1 .. Len(new)
    BY <1>2, <2>1, <2>2, <2>3
  <2>5. \A i \in Y : i \in X \/ \E n \in 1 .. L : i = B + n
    BY <2>1, <2>3
  <2>6. DOMAIN new = 1 .. Len(new)
    BY <1>2, SeqFacts
  <2> QED
    BY <2>4, <2>5, <2>6
<1>5. ASSUME NEW i \in Y
      PROVE  /\ new[i].parent \in 0 .. i - 1 /\ IsSeq(new[i].root)
             /\ new[i].ns # "none"
  <2>1. CASE i \in X
    <3>1. i \in 1 .. B /\ new[i] = ms[i]
      BY <1>1, <1>2, <2>1
    <3>2. ms[i].parent \in 0 .. i - 1 /\ IsSeq(ms[i].root) /\ ms[i].ns # "none"
      BY <2>1 DEF Rising, Ordered, Mounted
    <3> QED
      BY <3>1, <3>2
  <2>2. ASSUME NEW n \in 1 .. L, i = B + n
        PROVE  /\ new[i].parent \in 0 .. i - 1 /\ IsSeq(new[i].root)
               /\ new[i].ns # "none"
    <3>1. IsSeq(new[i].root)
      BY <1>3, <2>2
    <3>2. ms[to.mount].ns # "none"
      BY <1>1 DEF Rising, Mounted
    <3>3. new[i].ns # "none"
      BY <1>3, <2>2, <3>2
    <3>4. CASE n = 1
      <4>1. new[i].parent = to.mount /\ to.mount \in 1 .. B
        BY <1>1, <1>3, <2>2, <3>4
      <4> QED
        BY <1>1, <2>2, <3>1, <3>3, <3>4, <4>1
    <3>5. CASE n # 1
      <4>1. n \in 2 .. L
        BY <1>1, <3>5
      <4>2. new[i].parent = B + tree[n].parent /\ tree[n].parent \in 1 .. n - 1
        BY <1>3, <2>2, <3>5, <4>1
      <4> HIDE DEF B, L
      <4> QED
        BY <1>1, <2>2, <3>1, <3>3, <4>1, <4>2
    <3> QED
      BY <3>4, <3>5
  <2> QED
    BY <1>4, <2>1, <2>2
<1>6. ASSUME NEW i \in Mounted(new)
      PROVE  /\ new[i].parent \in 0 .. Len(new)
             /\ new[i].parent \in Y => i \in Y
  <2>1. i \in 1 .. B + L
    BY <1>2, <1>4 DEF Mounted
  <2>2. CASE i \in 1 .. B
    <3>1. new[i] = ms[i] /\ i \in Mounted(ms)
      BY <1>1, <1>2, <2>2 DEF Mounted
    <3>2. ms[i].parent \in 0 .. B
      BY <3>1 DEF Rising
    <3>3. ASSUME ms[i].parent \in Y
          PROVE  i \in Y
      <4>1. ms[i].parent \in X
        BY <1>1, <3>2, <3>3 DEF Grown
      <4>2. i \in X
        BY <3>1, <4>1 DEF Rising, Closed
      <4> QED
        BY <4>2 DEF Grown
    <3> QED
      BY <1>1, <1>2, <3>1, <3>2, <3>3
  <2>3. CASE i \notin 1 .. B
    <3>1. i \in B + 1 .. B + L
      BY <1>1, <2>1, <2>3
    <3>2. i \in Y
      BY <1>2, <3>1 DEF Grown
    <3>3. new[i].parent \in 0 .. i - 1
      BY <1>5, <3>2
    <3> QED
      BY <1>1, <1>2, <2>1, <3>2, <3>3
  <2> QED
    BY <2>2, <2>3
<1>7. Rising(new, Y)
  <2>1. Ordered(new, Y)
    BY <1>4, <1>5 DEF Ordered
  <2>2. Y \subseteq Mounted(new)
    BY <1>4, <1>5 DEF Mounted
  <2>3. Closed(new, Y)
    BY <1>6 DEF Closed
  <2> QED
    BY <1>2, <1>6, <2>1, <2>2, <2>3 DEF Rising
<1>8. Grows(ms, X, to, tree, new)
  BY <1>1, <1>2, <1>3, <1>7 DEF Grows
<1> QED
  BY <1>8 DEF new

(* What is over the places of such a table.                                *)
LEMMA GrownOver ==
    ASSUME NEW ms, NEW X, NEW to, NEW tree, NEW new, Grows(ms, X, to, tree, new)
    PROVE  /\ Len(ms) \in Nat /\ Len(tree) \in Nat /\ X \in SUBSET (1 .. Len(ms))
           /\ Len(new) = Len(ms) + Len(tree)
           /\ \A i \in 1 .. Len(tree) : Len(ms) + i \in Grown(ms, X, new)
           /\ \A i \in X : i \in Grown(ms, X, new) /\ new[i] = ms[i]
           /\ \A x : IsPlace(X, x) =>
                 /\ IsPlace(Grown(ms, X, new), x)
                 /\ Over(new, x) = Over(ms, x) \cup (IF x = to THEN {Len(ms) + 1} ELSE {})
           /\ \A i \in 1 .. Len(tree) : \A d, z :
                 z \in Over(new, Place(Len(ms) + i, d)) <=>
                    \E j \in 2 .. Len(tree) : z = Len(ms) + j /\ tree[j].parent = i /\ tree[j].at = d
<1> DEFINE B == Len(ms)
           L == Len(tree)
           Y == Grown(ms, X, new)
<1>1. /\ IsSeq(ms) /\ B \in Nat /\ X \in SUBSET (1 .. B) /\ to.mount \in X
      /\ L \in Nat /\ L >= 1 /\ DOMAIN ms = 1 .. B
  BY SeqFacts DEF Grows, Rising, Ordered, IsPlace
<1>2. /\ Len(new) = B + L /\ DOMAIN new = 1 .. B + L
      /\ Y = X \cup (B + 1 .. B + L) /\ Rising(new, Y)
      /\ \A i \in 1 .. B : new[i] = ms[i]
  <2>1. Len(new) = B + L /\ Rising(new, Y) /\ IsSeq(new) /\ \A i \in 1 .. B : new[i] = ms[i]
    BY DEF Grows, Rising
  <2> QED
    BY <2>1, SeqFacts DEF Grown
<1>3. \A i \in 1 .. L :
         LET m == new[B + i]
         IN  /\ m.ns = ms[to.mount].ns
             /\ i = 1 => m.parent = to.mount /\ m.at = to.dentry
             /\ i # 1 => m.parent = B + tree[i].parent /\ m.at = tree[i].at
  BY DEF Grows
<1>4. ms[to.mount].ns # "none"
  BY <1>1 DEF Grows, Rising, Mounted
<1>5. \A i \in 1 .. L : i # 1 => tree[i].parent \in 1 .. i - 1
  BY DEF Grows
<1>6. ASSUME NEW x, IsPlace(X, x)
      PROVE  /\ IsPlace(Y, x)
             /\ Over(new, x) = Over(ms, x) \cup (IF x = to THEN {B + 1} ELSE {})
  <2>1. x.mount \in X /\ x = Place(x.mount, x.dentry) /\ to = Place(to.mount, to.dentry)
    BY <1>6 DEF IsPlace, Grows
  <2>2. IsPlace(Y, x)
    BY <1>2, <2>1 DEF IsPlace
  <2>3. ASSUME NEW j \in Over(new, x)
        PROVE  j \in Over(ms, x) \/ (x = to /\ j = B + 1)
    <3>1. j \in 1 .. B + L /\ new[j].ns # "none" /\ new[j].parent = x.mount /\ new[j].at = x.dentry
      BY <1>2 DEF Over, Children, Mounted
    <3>2. CASE j \in 1 .. B
      BY <1>1, <1>2, <3>1, <3>2 DEF Over, Children, Mounted
    <3>3. CASE j \notin 1 .. B
      <4> DEFINE i == j - B
      <4>1. i \in 1 .. L /\ j = B + i
        BY <1>1, <3>1, <3>3
      <4> HIDE DEF i
      <4>2. CASE i = 1
        BY <1>3, <2>1, <3>1, <4>1, <4>2 DEF Place
      <4>3. CASE i # 1
        <5>1. new[j].parent = B + tree[i].parent
          BY <1>3, <4>1, <4>3
        <5>2. tree[i].parent \in 1 .. i - 1
          BY <1>5, <4>1, <4>3
        <5>3. x.mount \in 1 .. B
          BY <1>1, <2>1
        <5> HIDE DEF B, L
        <5> QED
          BY <1>1, <3>1, <4>1, <5>1, <5>2, <5>3
      <4> QED
        BY <4>2, <4>3
    <3> QED
      BY <3>2, <3>3
  <2>4. ASSUME NEW j \in Over(ms, x)
        PROVE  j \in Over(new, x)
    <3>1. j \in 1 .. B /\ new[j] = ms[j] /\ j \in 1 .. B + L
      BY <1>1, <1>2 DEF Over, Children, Mounted
    <3> QED
      BY <1>2, <3>1 DEF Over, Children, Mounted
  <2>5. ASSUME x = to
        PROVE  B + 1 \in Over(new, x)
    <3>1. 1 \in 1 .. L /\ B + 1 \in 1 .. B + L
      BY <1>1
    <3> QED
      BY <1>2, <1>3, <1>4, <2>5, <3>1 DEF Over, Children, Mounted
  <2> QED
    BY <2>2, <2>3, <2>4, <2>5
<1>7. ASSUME NEW i \in 1 .. L, NEW d, NEW z
      PROVE  z \in Over(new, Place(B + i, d)) <=>
                \E j \in 2 .. L : z = B + j /\ tree[j].parent = i /\ tree[j].at = d
  <2> DEFINE x == Place(B + i, d)
  <2>1. x.mount = B + i /\ x.dentry = d
    BY DEF Place
  <2> HIDE DEF x
  <2>2. ASSUME NEW j \in Over(new, x)
        PROVE  \E k \in 2 .. L : j = B + k /\ tree[k].parent = i /\ tree[k].at = d
    <3>1. j \in 1 .. B + L /\ j \in Mounted(new) /\ new[j].parent = B + i /\ new[j].at = d
      BY <1>2, <2>1 DEF Over, Children, Mounted
    <3>2. j \notin 1 .. B
      <4> SUFFICES ASSUME j \in 1 .. B
                   PROVE  FALSE
        OBVIOUS
      <4>1. ms[j].parent = B + i /\ j \in Mounted(ms)
        BY <1>1, <1>2, <3>1 DEF Mounted
      <4>2. ms[j].parent \in 0 .. B
        BY <4>1 DEF Grows, Rising
      <4> HIDE DEF B, L
      <4> QED
        BY <1>1, <4>1, <4>2
    <3> DEFINE k == j - B
    <3>3. k \in 1 .. L /\ j = B + k
      BY <1>1, <3>1, <3>2
    <3> HIDE DEF k, B, L
    <3>4. k # 1
      <4>1. to.mount # B + i
        BY <1>1
      <4> QED
        BY <1>3, <3>1, <3>3, <4>1
    <3>5. B + tree[k].parent = B + i /\ tree[k].at = d /\ tree[k].parent \in 1 .. k - 1
      BY <1>3, <1>5, <3>1, <3>3, <3>4
    <3>6. k \in 2 .. L /\ tree[k].parent = i
      BY <1>1, <3>3, <3>4, <3>5
    <3> QED
      BY <3>3, <3>5, <3>6
  <2>3. ASSUME NEW k \in 2 .. L, tree[k].parent = i, tree[k].at = d
        PROVE  B + k \in Over(new, x)
    <3>1. k \in 1 .. L /\ k # 1 /\ B + k \in 1 .. B + L
      BY <1>1
    <3> QED
      BY <1>2, <1>3, <1>4, <2>1, <2>3, <3>1 DEF Over, Children, Mounted
  <2> HIDE DEF B, L
  <2>4. z \in Over(new, x) <=>
           \E k \in 2 .. L : z = B + k /\ tree[k].parent = i /\ tree[k].at = d
    BY <2>2, <2>3
  <2> QED
    BY <2>4 DEF x
<1>8. \A i \in 1 .. L : B + i \in Y
  <2> HIDE DEF B, L, Y
  <2> QED
    BY <1>1, <1>2
<1>9. \A i \in X : i \in Y /\ new[i] = ms[i]
  BY <1>1, <1>2
<1> QED
  BY <1>1, <1>2, <1>6, <1>7, <1>8, <1>9

(* A place of a new mount.                                                 *)
LEMMA GrownPlace ==
    ASSUME NEW ms, NEW X, NEW to, NEW tree, NEW new, Grows(ms, X, to, tree, new),
           NEW i \in 1 .. Len(tree), NEW d
    PROVE  IsPlace(Grown(ms, X, new), Place(Len(ms) + i, d))
<1>1. Len(ms) + i \in Grown(ms, X, new)
  BY GrownOver
<1> QED
  BY <1>1 DEF IsPlace, Place

(* A lookup goes on where it did, but where it ended at the place: there   *)
(* it goes on over the tree.                                               *)
LEMMA GrownTop ==
    ASSUME NEW ms, NEW X, NEW to, NEW tree, NEW new, Grows(ms, X, to, tree, new),
           Over(ms, to) = {}, NEW p, IsPlace(X, p)
    PROVE  Top(new, p) = IF Top(ms, p) = to THEN Top(new, RootOf(new, Len(ms) + 1))
                                            ELSE Top(ms, p)
<1> DEFINE B == Len(ms)
           Y == Grown(ms, X, new)
           V == Ways(ms, X, p)
           Is(x) == Top(new, x) = IF Top(ms, x) = to THEN Top(new, RootOf(new, B + 1))
                                                     ELSE Top(ms, x)
           S == {x \in V : Is(x)}
<1>1. Rising(ms, X) /\ Rising(new, Y)
  BY DEF Grows
<1>2. \A x \in V : IsPlace(X, x) /\ Up(ms, x) \in V
  BY <1>1, WaysUp
<1>3. ASSUME NEW x \in V, Over(ms, x) = {} \/ Up(ms, x) \in S
      PROVE  x \in S
  <2>1. /\ IsPlace(X, x) /\ IsPlace(Y, x)
        /\ Over(new, x) = Over(ms, x) \cup (IF x = to THEN {B + 1} ELSE {})
    BY <1>2, GrownOver
  <2>2. CASE x = to
    <3>1. Top(ms, x) = to
      BY <2>2 DEF Top
    <3>2. Over(new, x) = {B + 1}
      BY <2>1, <2>2
    <3>3. /\ Max(Over(new, x)) \in Over(new, x) /\ Up(new, x) = RootOf(new, Max(Over(new, x)))
          /\ Top(new, x) = Top(new, Up(new, x))
      <4>1. Over(new, x) # {}
        BY <3>2
      <4> HIDE DEF Y
      <4>2. Max(Over(new, x)) \in Over(new, x) /\ Up(new, x) = RootOf(new, Max(Over(new, x)))
        BY <1>1, <2>1, <4>1, UpRises
      <4>3. Top(new, x) = Top(new, Up(new, x))
        BY <1>1, <2>1, <4>1, TopUnfold
      <4> QED
        BY <4>2, <4>3
    <3>4. Up(new, x) = RootOf(new, B + 1)
      BY <3>2, <3>3
    <3> QED
      BY <3>1, <3>3, <3>4
  <2>3. CASE x # to /\ Over(ms, x) = {}
    <3>1. Top(ms, x) = x /\ Top(new, x) = x
      BY <2>1, <2>3 DEF Top
    <3> QED
      BY <2>3, <3>1
  <2>4. CASE x # to /\ Over(ms, x) # {}
    <3>1. Over(new, x) = Over(ms, x)
      BY <2>1, <2>4
    <3>2. /\ Up(ms, x) = RootOf(ms, Max(Over(ms, x))) /\ Up(new, x) = RootOf(new, Max(Over(ms, x)))
          /\ Max(Over(ms, x)) \in Over(ms, x)
          /\ Top(ms, x) = Top(ms, Up(ms, x)) /\ Top(new, x) = Top(new, Up(new, x))
      <4>1. /\ Up(ms, x) = RootOf(ms, Max(Over(ms, x))) /\ Max(Over(ms, x)) \in Over(ms, x)
            /\ Top(ms, x) = Top(ms, Up(ms, x))
        BY <1>1, <2>1, <2>4, UpRises, TopUnfold
      <4>2. Up(new, x) = RootOf(new, Max(Over(new, x))) /\ Top(new, x) = Top(new, Up(new, x))
        BY <1>1, <2>1, <2>4, <3>1, UpRises, TopUnfold
      <4> QED
        BY <3>1, <4>1, <4>2
    <3>3. Max(Over(ms, x)) \in X
      <4>1. x.mount \in X
        BY <2>1 DEF IsPlace
      <4>2. Over(ms, x) \in SUBSET X
        BY <1>1, <4>1, OverRises
      <4> QED
        BY <3>2, <4>2
    <3>4. new[Max(Over(ms, x))] = ms[Max(Over(ms, x))]
      BY <3>3, GrownOver
    <3>5. Up(new, x) = Up(ms, x)
      BY <3>2, <3>4 DEF RootOf
    <3>6. Is(Up(ms, x))
      BY <1>3, <2>4
    <3> QED
      BY <3>2, <3>5, <3>6
  <2> QED
    BY <2>2, <2>3, <2>4
<1> HIDE DEF S
<1>4. V \subseteq S
  BY <1>1, <1>2, <1>3, UpInduction
<1>5. p \in V
  BY DEF Ways
<1> QED
  BY <1>4, <1>5 DEF S

(* A path that begins with another one.                                    *)
Leads(path, q) == Len(path) <= Len(q) /\ \A i \in 1 .. Len(path) : path[i] = q[i]

(* What is attached where a path leads is found by that path, and nothing  *)
(* else changes for paths that do not begin with it.  One mount alone      *)
(* hides all that was below.                                               *)
LEMMA GrownWalk ==
    ASSUME NEW ms, NEW X, NEW to, NEW tree, NEW new, Grows(ms, X, to, tree, new),
           NEW r \in X, NEW path, Len(path) \in Nat, Len(path) > 0, to = Walk(ms, r, path),
           NEW q, Len(q) \in Nat
    PROVE  /\ ~Leads(path, q) => Walk(new, r, q) = Walk(ms, r, q)
           /\ Len(q) = Len(path) /\ Leads(path, q) =>
                 Walk(new, r, q) = Top(new, RootOf(new, Len(ms) + 1))
           /\ Len(tree) = 1 /\ Leads(path, q) => Walk(new, r, q).mount = Len(ms) + 1
<1> DEFINE B == Len(ms)
           K == Len(path)
           Y == Grown(ms, X, new)
           over == Top(new, RootOf(new, B + 1))
           Past(n) == K <= n /\ \A i \in 1 .. K : path[i] = q[i]
<1>1. Rising(ms, X) /\ Rising(new, Y)
  BY DEF Grows
<1>2. PICK h : Steps(ms, r, path, h) /\ to = h[K]
  BY WalkSteps DEF Steps
<1>3. PICK g : Steps(ms, r, q, g) /\ Walk(ms, r, q) = g[Len(q)]
  BY WalkSteps DEF Steps
<1>4. PICK f : Steps(new, r, q, f) /\ Walk(new, r, q) = f[Len(q)]
  BY WalkSteps DEF Steps
<1>5. Over(ms, to) = {}
  <2>1. K \in 0 .. K
    OBVIOUS
  <2> QED
    BY <1>1, <1>2, <2>1, WalkGood
<1>6. \A n \in 0 .. Len(q) : IsGood(ms, X, g[n])
  BY <1>1, <1>3, WalkGood
<1>7. \A n \in 0 .. Len(q) : g[n] = to <=> n = K /\ \A i \in 1 .. n : path[i] = q[i]
  <2>1. K \in 0 .. K
    OBVIOUS
  <2> HIDE DEF K
  <2> QED
    BY <1>1, <1>2, <1>3, <2>1, WalksMeet DEF K
<1>8. Len(tree) = 1 => \A d : Over(new, Place(B + 1, d)) = {}
  <2> SUFFICES ASSUME Len(tree) = 1, NEW d
               PROVE  Over(new, Place(B + 1, d)) = {}
    OBVIOUS
  <2>1. 1 \in 1 .. Len(tree) /\ 2 .. Len(tree) = {}
    OBVIOUS
  <2>2. \A z : z \in Over(new, Place(Len(ms) + 1, d)) => \E j \in 2 .. Len(tree) : z = Len(ms) + j
    BY <2>1, GrownOver
  <2>3. ASSUME NEW z \in Over(new, Place(B + 1, d))
        PROVE  \E k : k \in 2 .. Len(tree)
    BY <2>1, <2>2, Zenon
  <2> QED
    BY <2>1, <2>3, Zenon
<1>9. Len(tree) = 1 => over.mount = B + 1
  <2> SUFFICES ASSUME Len(tree) = 1
               PROVE  over.mount = B + 1
    OBVIOUS
  <2>1. Over(new, RootOf(new, B + 1)) = {}
    BY <1>8 DEF RootOf
  <2>2. over = RootOf(new, B + 1)
    BY <2>1 DEF Top
  <2> QED
    BY <2>2 DEF RootOf, Place
<1> DEFINE Fine(n) == /\ ~Past(n) => f[n] = g[n]
                      /\ n = K /\ Past(n) => f[n] = over
                      /\ Len(tree) = 1 /\ Past(n) => f[n].mount = B + 1
           S == {n \in Nat : n \in 0 .. Len(q) => Fine(n)}
<1>10. 0 \in S
  <2>1. ~Past(0) /\ 0 # K
    OBVIOUS
  <2>2. f[0] = RootOf(new, r) /\ g[0] = RootOf(ms, r) /\ new[r] = ms[r]
    BY <1>3, <1>4, GrownOver DEF Steps
  <2>3. f[0] = g[0]
    BY <2>2 DEF RootOf
  <2> HIDE DEF Past
  <2> QED
    BY <2>1, <2>3
<1>11. ASSUME NEW n \in Nat, n \in S
       PROVE  n + 1 \in S
  <2> SUFFICES ASSUME n + 1 \in 0 .. Len(q)
               PROVE  Fine(n + 1)
    OBVIOUS
  <2>1. n \in 0 .. Len(q) /\ n + 1 \in 1 .. Len(q) /\ (n + 1) - 1 = n
    OBVIOUS
  <2>2. /\ f[n + 1] = Enter(new, f[n], q[n + 1]) /\ g[n + 1] = Enter(ms, g[n], q[n + 1])
        /\ Fine(n) /\ IsGood(ms, X, g[n])
    BY <1>3, <1>4, <1>6, <1>11, <2>1 DEF Steps
  <2>3. CASE Past(n)
    <3>1. Past(n + 1) /\ n + 1 # K
      BY <2>3
    <3>2. ASSUME Len(tree) = 1
          PROVE  f[n + 1].mount = B + 1
      <4> DEFINE y == Place(f[n].mount, Append(f[n].dentry, q[n + 1]))
      <4>1. Over(new, y) = {} /\ y.mount = B + 1
        BY <1>8, <2>2, <2>3, <3>2 DEF Place
      <4>2. Top(new, y) = y
        BY <4>1 DEF Top
      <4>3. f[n + 1] = Top(new, y)
        BY <2>2 DEF Enter
      <4> QED
        BY <4>1, <4>2, <4>3
    <3> HIDE DEF Past, over
    <3> QED
      BY <3>1, <3>2
  <2>4. CASE ~Past(n)
    <3> DEFINE y == Place(g[n].mount, Append(g[n].dentry, q[n + 1]))
    <3>1. f[n] = g[n]
      BY <2>2, <2>4
    <3>2. IsPlace(X, y) /\ g[n + 1] = Top(ms, y) /\ f[n + 1] = Top(new, y)
      BY <1>1, <2>2, <3>1, EnterGood DEF Enter
    <3>3. f[n + 1] = IF g[n + 1] = to THEN over ELSE g[n + 1]
      BY <1>5, <3>2, GrownTop
    <3>4. g[n + 1] = to <=> n + 1 = K /\ \A i \in 1 .. n + 1 : path[i] = q[i]
      BY <1>7
    <3>5. g[n + 1] = to <=> Past(n + 1)
      BY <2>4, <3>4
    <3> HIDE DEF Past, over
    <3> QED
      BY <1>9, <3>3, <3>5
  <2> QED
    BY <2>3, <2>4
<1> HIDE DEF S
<1>12. Len(q) \in S /\ Len(q) \in 0 .. Len(q)
  BY <1>10, <1>11, NatSet
<1>13. Past(Len(q)) <=> Leads(path, q)
  BY DEF Leads
<1> HIDE DEF Past, over
<1> QED
  BY <1>3, <1>4, <1>12, <1>13 DEF S, over

(* A walk ends at a good place, over which there is nothing.               *)
LEMMA WalkEnds ==
    ASSUME NEW ms, NEW X, Rising(ms, X), NEW r \in X, NEW path, Len(path) \in Nat
    PROVE  /\ IsGood(ms, X, Walk(ms, r, path))
           /\ Len(path) > 0 => Over(ms, Walk(ms, r, path)) = {}
<1>1. PICK g : Steps(ms, r, path, g) /\ Walk(ms, r, path) = g[Len(path)]
  BY WalkSteps DEF Steps
<1>2. Len(path) \in 0 .. Len(path)
  OBVIOUS
<1> QED
  BY <1>1, <1>2, WalkGood

-----------------------------------------------------------------------------
(* Walks in a table in which the mounts are where they were.               *)

SameWays(ms, new) ==
    /\ IsSeq(new) /\ Len(new) = Len(ms)
    /\ \A i \in 1 .. Len(ms) :
          /\ new[i].ns = ms[i].ns /\ new[i].parent = ms[i].parent
          /\ new[i].at = ms[i].at /\ new[i].root = ms[i].root

LEMMA SameRising ==
    ASSUME NEW ms, NEW X, Rising(ms, X), NEW new, SameWays(ms, new)
    PROVE  /\ Rising(new, X)
           /\ \A p : Over(new, p) = Over(ms, p)
           /\ \A i \in X : RootOf(new, i) = RootOf(ms, i)
<1>1. /\ IsSeq(ms) /\ Len(ms) \in Nat /\ DOMAIN ms = 1 .. Len(ms)
      /\ IsSeq(new) /\ Len(new) = Len(ms) /\ DOMAIN new = 1 .. Len(ms)
      /\ X \in SUBSET (1 .. Len(ms))
  BY SeqFacts DEF Rising, Ordered, SameWays
<1>2. Mounted(new) = Mounted(ms) /\ Mounted(ms) \subseteq 1 .. Len(ms)
  BY <1>1 DEF Mounted, SameWays
<1>3. ASSUME NEW p
      PROVE  Over(new, p) = Over(ms, p)
  BY <1>2 DEF Over, Children, SameWays
<1>4. \A i \in X : RootOf(new, i) = RootOf(ms, i)
  BY <1>1 DEF RootOf, SameWays
<1>5. \A i \in 1 .. Len(ms) : new[i].parent = ms[i].parent /\ new[i].root = ms[i].root
  BY DEF SameWays
<1>6. Rising(new, X)
  BY <1>1, <1>2, <1>5 DEF Rising, Ordered, Closed
<1> QED
  BY <1>3, <1>4, <1>6

LEMMA SameWalk ==
    ASSUME NEW ms, NEW X, Rising(ms, X), NEW new, SameWays(ms, new),
           NEW r \in X, NEW q, Len(q) \in Nat
    PROVE  Walk(new, r, q) = Walk(ms, r, q)
<1>1. /\ Rising(new, X) /\ (\A p : Over(new, p) = Over(ms, p))
      /\ \A i \in X : RootOf(new, i) = RootOf(ms, i)
  BY SameRising
<1>2. ASSUME NEW p, IsPlace(X, p)
      PROVE  Top(new, p) = Top(ms, p)
  <2> DEFINE V == Ways(ms, X, p)
             S == {x \in V : Top(new, x) = Top(ms, x)}
  <2>1. \A x \in V : IsPlace(X, x) /\ Up(ms, x) \in V
    BY <1>2, WaysUp
  <2>2. ASSUME NEW x \in V, Over(ms, x) = {} \/ Up(ms, x) \in S
        PROVE  x \in S
    <3>1. CASE Over(ms, x) = {}
      BY <1>1, <3>1 DEF Top
    <3>2. CASE Over(ms, x) # {}
      <4>1. /\ Top(ms, x) = Top(ms, Up(ms, x)) /\ Up(ms, x) = RootOf(ms, Max(Over(ms, x)))
            /\ Up(ms, x).mount = Max(Over(ms, x)) /\ IsPlace(X, Up(ms, x))
        BY <2>1, <3>2, UpRises, TopUnfold
      <4>2. Over(new, x) # {} /\ Over(new, x) = Over(ms, x)
        BY <1>1, <3>2
      <4>3. Top(new, x) = Top(new, Up(new, x))
        BY <1>1, <2>1, <4>2, TopUnfold
      <4>4. Up(new, x) = RootOf(new, Max(Over(ms, x)))
        BY <4>2 DEF Up
      <4>5. Up(new, x) = Up(ms, x)
        BY <1>1, <4>1, <4>4 DEF IsPlace
      <4> QED
        BY <2>2, <3>2, <4>1, <4>3, <4>5
    <3> QED
      BY <3>1, <3>2
  <2> HIDE DEF S
  <2>3. V \subseteq S
    BY <2>1, <2>2, UpInduction
  <2>4. p \in V
    BY DEF Ways
  <2> QED
    BY <2>3, <2>4 DEF S
<1>3. PICK g : Steps(ms, r, q, g) /\ Walk(ms, r, q) = g[Len(q)]
  BY WalkSteps DEF Steps
<1>4. PICK f : Steps(new, r, q, f) /\ Walk(new, r, q) = f[Len(q)]
  BY WalkSteps DEF Steps
<1>5. \A n \in 0 .. Len(q) : IsGood(ms, X, g[n])
  BY <1>3, WalkGood
<1> DEFINE S == {n \in Nat : n \in 0 .. Len(q) => f[n] = g[n]}
<1>6. 0 \in S
  BY <1>1, <1>3, <1>4 DEF Steps
<1>7. ASSUME NEW n \in Nat, n \in S
      PROVE  n + 1 \in S
  <2> SUFFICES ASSUME n + 1 \in 0 .. Len(q)
               PROVE  f[n + 1] = g[n + 1]
    OBVIOUS
  <2>1. n \in 0 .. Len(q) /\ n + 1 \in 1 .. Len(q) /\ (n + 1) - 1 = n
    OBVIOUS
  <2> DEFINE y == Place(g[n].mount, Append(g[n].dentry, q[n + 1]))
  <2>2. f[n] = g[n] /\ IsPlace(X, y)
    BY <1>5, <1>7, <2>1, EnterGood
  <2>3. f[n + 1] = Top(new, y) /\ g[n + 1] = Top(ms, y)
    BY <1>3, <1>4, <2>1, <2>2 DEF Steps, Enter
  <2> QED
    BY <1>2, <2>2, <2>3
<1> HIDE DEF S
<1>8. Len(q) \in S /\ Len(q) \in 0 .. Len(q)
  BY <1>6, <1>7, NatSet
<1> QED
  BY <1>3, <1>4, <1>8 DEF S

-----------------------------------------------------------------------------
(* Bind mounts of what is in order.                                        *)

(* The mounts below a place come after its mount.                          *)
LEMMA BindableRises ==
    ASSUME NEW ms, NEW X, Rising(ms, X), NEW p, p.mount \in X
    PROVE  \A j \in Bindable(ms, p) : j \in X /\ j > p.mount
<1>1. /\ Len(ms) \in Nat /\ X \in SUBSET (1 .. Len(ms)) /\ Closed(ms, X)
      /\ \A i \in X : ms[i].parent \in 0 .. i - 1
  BY SeqFacts DEF Rising, Ordered
<1>2. Bindable(ms, p) \subseteq X
  BY <1>1, BindableWithin
<1>3. \A j \in Bindable(ms, p) : ms[j].parent \in Bindable(ms, p) \cup {p.mount}
  BY <1>1, BindableParents
<1> DEFINE S == {k \in Nat : \A j \in Bindable(ms, p) : j <= k => j > p.mount}
<1>4. 0 \in S
  BY <1>1, <1>2
<1>5. ASSUME NEW k \in Nat, k \in S
      PROVE  k + 1 \in S
  <2> SUFFICES ASSUME NEW j \in Bindable(ms, p), j <= k + 1
               PROVE  j > p.mount
    OBVIOUS
  <2>1. j \in 1 .. Len(ms) /\ ms[j].parent \in 0 .. j - 1 /\ p.mount \in 1 .. Len(ms)
    BY <1>1, <1>2
  <2>2. CASE ms[j].parent = p.mount
    BY <2>1, <2>2
  <2>3. CASE ms[j].parent \in Bindable(ms, p)
    <3>1. ms[j].parent <= k
      BY <2>1
    <3>2. ms[j].parent > p.mount
      BY <1>5, <2>3, <3>1
    <3> QED
      BY <2>1, <3>2
  <2> QED
    BY <1>3, <2>2, <2>3
<1> HIDE DEF S
<1>6. Len(ms) \in S
  BY <1>1, <1>4, <1>5, NatSet
<1>7. \A j \in X : j \in 1 .. Len(ms)
  BY <1>1
<1>8. \A j \in Bindable(ms, p) : j \in X /\ j <= Len(ms)
  BY <1>1, <1>2, <1>7
<1> QED
  BY <1>6, <1>8 DEF S

(* A clone of mounts in order is in order.                                 *)
LEMMA CloneRises ==
    ASSUME NEW ms, NEW X, Rising(ms, X), Records(ms), NEW p, p.mount \in X, IsSeq(p.dentry),
           NEW rec
    PROVE  LET ids == Taken(ms, p, rec)
               tree == Clone(ms, p, rec)
           IN  /\ \A a, b \in 1 .. Len(tree) : a < b => ids[a] < ids[b]
               /\ \A i \in 1 .. Len(tree) : ids[i] \in X /\ IsSeq(tree[i].root)
               /\ \A i \in 2 .. Len(tree) : tree[i].parent \in 1 .. i - 1
<1> DEFINE U == IF rec THEN Bindable(ms, p) ELSE {}
           ids == Taken(ms, p, rec)
           tree == Clone(ms, p, rec)
<1>1. /\ IsSeq(ms) /\ X \in SUBSET (1 .. Len(ms)) /\ p.mount \in 1 .. Len(ms) /\ Len(ms) \in Nat
      /\ \A i \in X : ms[i].parent \in 0 .. i - 1 /\ IsSeq(ms[i].root)
  BY SeqFacts DEF Rising, Ordered
<1>2. /\ IsSeq(tree) /\ Len(tree) >= 1 /\ ids[1] = p.mount
      /\ \A i \in 2 .. Len(tree) : ids[i] \in U
      /\ \A a, b \in 2 .. Len(tree) : a < b => ids[a] < ids[b]
      /\ \A i \in 1 .. Len(tree) :
            /\ i = 1 => tree[i].root = p.dentry
            /\ i # 1 => /\ tree[i].root = ms[ids[i]].root
                        /\ tree[i].parent \in 1 .. Len(tree)
                        /\ ids[tree[i].parent] = ms[ids[i]].parent
  BY <1>1, CloneShape
<1>3. Len(tree) \in Nat
  BY <1>2, SeqFacts
<1>4. \A j \in U : j \in X /\ j > p.mount
  BY BindableRises
<1> HIDE DEF U, ids, tree
<1>5. ASSUME NEW i \in 1 .. Len(tree)
      PROVE  ids[i] \in X /\ ids[i] \in 1 .. Len(ms) /\ (i # 1 => i \in 2 .. Len(tree) /\ ids[i] > p.mount)
  <2>1. CASE i = 1
    BY <1>1, <1>2, <2>1
  <2>2. CASE i # 1
    <3>1. i \in 2 .. Len(tree)
      BY <1>3, <2>2
    <3> QED
      BY <1>1, <1>2, <1>4, <2>2, <3>1
  <2> QED
    BY <2>1, <2>2
<1>6. ASSUME NEW a \in 1 .. Len(tree), NEW b \in 1 .. Len(tree), a < b
      PROVE  ids[a] < ids[b]
  <2>1. b # 1
    BY <1>3, <1>6
  <2>2. CASE a = 1
    BY <1>1, <1>2, <1>5, <2>1, <2>2
  <2>3. CASE a # 1
    BY <1>2, <1>5, <1>6, <2>1, <2>3
  <2> QED
    BY <2>2, <2>3
<1>7. ASSUME NEW i \in 1 .. Len(tree)
      PROVE  IsSeq(tree[i].root)
  BY <1>1, <1>2, <1>5
<1>8. ASSUME NEW i \in 2 .. Len(tree)
      PROVE  tree[i].parent \in 1 .. i - 1
  <2> DEFINE j == tree[i].parent
  <2>1. i \in 1 .. Len(tree) /\ i # 1
    BY <1>3
  <2>2. j \in 1 .. Len(tree) /\ ids[j] = ms[ids[i]].parent
    BY <1>2, <2>1
  <2> HIDE DEF j
  <2>3. ids[i] \in 1 .. Len(ms) /\ ms[ids[i]].parent \in 0 .. ids[i] - 1
    BY <1>1, <1>5, <2>1
  <2>4. ids[j] < ids[i] /\ ids[j] \in Int /\ ids[i] \in Int
    BY <1>1, <2>2, <2>3
  <2>5. ~(i < j) /\ i # j
    BY <1>6, <2>1, <2>2, <2>4
  <2>6. j \in 1 .. i - 1
    BY <1>3, <2>1, <2>2, <2>5
  <2> QED
    BY <2>6 DEF j
<1> QED
  BY <1>5, <1>6, <1>7, <1>8 DEF ids, tree

(* A recursive bind mount of mounts that can be bound takes all below.     *)
LEMMA BindableClosed ==
    ASSUME NEW ms, NEW X, Rising(ms, X), \A i \in X : ~ms[i].unbindable,
           NEW p, p.mount \in X, NEW k \in Mounted(ms),
           \/ ms[k].parent = p.mount /\ IsPrefix(p.dentry, ms[k].at)
           \/ /\ ms[k].parent \in Bindable(ms, p)
              /\ IsPrefix(ms[ms[k].parent].root, ms[k].at)
    PROVE  k \in Bindable(ms, p)
<1> DEFINE N == Len(ms)
<1>1. /\ N \in Nat /\ X \in SUBSET (1 .. N) /\ Closed(ms, X)
      /\ \A i \in X : ms[i].parent \in 0 .. i - 1
  BY SeqFacts DEF Rising, Ordered
<1>2. PICK g : /\ g[0] = Below(ms, p.mount, p.dentry)
               /\ \A n \in 1 .. N : g[n] = More(ms, g[n - 1])
               /\ Bindable(ms, p) = g[N]
  BY <1>1, BindableLevels
<1> HIDE DEF N
<1>3. \A n \in 1 .. N : g[n - 1] \subseteq g[n]
  BY <1>2 DEF More
<1>4. \A a \in 0 .. N : \A b \in 0 .. N : a <= b => g[a] \subseteq g[b]
  <2> SUFFICES ASSUME NEW a \in 0 .. N
               PROVE  \A b \in 0 .. N : a <= b => g[a] \subseteq g[b]
    OBVIOUS
  <2> DEFINE S == {b \in Nat : b \in 0 .. N /\ a <= b => g[a] \subseteq g[b]}
  <2>1. 0 \in S
    OBVIOUS
  <2>2. ASSUME NEW b \in Nat, b \in S
        PROVE  b + 1 \in S
    <3> SUFFICES ASSUME b + 1 \in 0 .. N, a <= b + 1
                 PROVE  g[a] \subseteq g[b + 1]
      OBVIOUS
    <3>1. CASE a = b + 1
      BY <3>1
    <3>2. CASE a # b + 1
      <4>1. b \in 0 .. N /\ a <= b /\ b + 1 \in 1 .. N /\ (b + 1) - 1 = b
        BY <1>1, <3>2
      <4> QED
        BY <1>3, <2>2, <4>1
    <3> QED
      BY <3>1, <3>2
  <2> HIDE DEF S
  <2>3. \A b \in 0 .. N : b \in S
    BY <2>1, <2>2, NatSet
  <2> QED
    BY <2>3 DEF S
<1>5. Bindable(ms, p) \subseteq X
  BY <1>1, BindableWithin DEF N
<1>6. \A i \in g[N] : i \in g[0] \/ \E j \in g[N] : i \in Below(ms, j, ms[j].root)
  <2> DEFINE S == {n \in Nat : n \in 0 .. N =>
                      \A i \in g[n] : i \in g[0] \/ \E j \in g[N] : i \in Below(ms, j, ms[j].root)}
  <2>1. 0 \in S
    OBVIOUS
  <2>2. ASSUME NEW n \in Nat, n \in S
        PROVE  n + 1 \in S
    <3> SUFFICES ASSUME n + 1 \in 0 .. N, NEW i \in g[n + 1]
                 PROVE  i \in g[0] \/ \E j \in g[N] : i \in Below(ms, j, ms[j].root)
      OBVIOUS
    <3>1. n \in 0 .. N /\ n + 1 \in 1 .. N /\ (n + 1) - 1 = n /\ n <= N /\ N \in 0 .. N
      BY <1>1
    <3>2. g[n + 1] = More(ms, g[n]) /\ g[n] \subseteq g[N]
      BY <1>2, <1>4, <3>1
    <3>3. i \in g[n] \/ \E j \in g[n] : i \in Below(ms, j, ms[j].root)
      BY <3>2 DEF More
    <3> QED
      BY <2>2, <3>1, <3>2, <3>3
  <2> HIDE DEF S
  <2>3. N \in S /\ N \in 0 .. N
    BY <1>1, <2>1, <2>2, NatSet
  <2> QED
    BY <2>3 DEF S
<1>7. \A i \in g[N] : i \in g[i - 1]
  <2> DEFINE S == {m \in Nat : \A i \in g[N] : i <= m => i \in g[i - 1]}
  <2>1. 0 \in S
    <3>1. \A i \in g[N] : i \in 1 .. N
      BY <1>1, <1>2, <1>5
    <3> QED
      BY <3>1
  <2>2. ASSUME NEW m \in Nat, m \in S
        PROVE  m + 1 \in S
    <3> SUFFICES ASSUME NEW i \in g[N], i <= m + 1
                 PROVE  i \in g[i - 1]
      OBVIOUS
    <3>0. i \in X /\ \A j \in X : j \in 1 .. N
      BY <1>1, <1>2, <1>5
    <3>1. i \in 1 .. N /\ i - 1 \in 0 .. N /\ 0 \in 0 .. N /\ 0 <= i - 1
      BY <1>1, <3>0
    <3>2. CASE i \in g[0]
      <4>1. g[0] \subseteq g[i - 1]
        BY <1>4, <3>1
      <4> QED
        BY <3>2, <4>1
    <3>3. ASSUME NEW j \in g[N], i \in Below(ms, j, ms[j].root)
          PROVE  i \in g[i - 1]
      <4>1. j \in X /\ j \in 1 .. N
        BY <1>1, <1>2, <1>5
      <4>2. ms[i].parent = j
        BY <3>3 DEF Below, Children
      <4>3. j <= i - 1 /\ j <= m
        BY <1>1, <3>0, <3>1, <4>1, <4>2
      <4>4. j \in g[j - 1]
        BY <2>2, <4>3
      <4>5. i \in g[j]
        BY <1>2, <3>3, <4>1, <4>4 DEF More
      <4>6. j \in 0 .. N
        BY <4>1
      <4> QED
        BY <1>4, <3>1, <4>3, <4>5, <4>6
    <3> QED
      BY <1>6, <3>2, <3>3
  <2> HIDE DEF S
  <2>3. N \in S
    BY <1>1, <2>1, <2>2, NatSet
  <2> QED
    BY <1>1, <1>2, <1>5, <2>3 DEF S
<1>8. CASE ms[k].parent = p.mount /\ IsPrefix(p.dentry, ms[k].at)
  <2>1. k \in X
    BY <1>1, <1>8 DEF Closed
  <2>2. k \in g[0]
    BY <1>2, <1>8, <2>1 DEF Below, Children
  <2> QED
    BY <1>1, <1>2, <1>4, <2>2
<1>9. CASE ms[k].parent \in Bindable(ms, p) /\ IsPrefix(ms[ms[k].parent].root, ms[k].at)
  <2> DEFINE i == ms[k].parent
  <2>1. i \in X /\ i \in g[N]
    BY <1>2, <1>5, <1>9
  <2>2. k \in X
    BY <1>1, <2>1 DEF Closed
  <2>3. k \in Below(ms, i, ms[i].root)
    BY <1>9, <2>2 DEF Below, Children
  <2> HIDE DEF i
  <2>4. i \in 1 .. N /\ i \in 0 .. N /\ N \in 0 .. N /\ i <= N
    BY <1>1, <2>1
  <2>5. k \in g[i]
    BY <1>2, <1>7, <2>1, <2>3, <2>4 DEF More
  <2> QED
    BY <1>2, <1>4, <2>4, <2>5
<1> QED
  BY <1>8, <1>9

-----------------------------------------------------------------------------
(* Walks in a table in which a place has been bound to itself.             *)

(* The mounts ids, all those below the place p, have been copied over it.  *)
Mirrors(ms, X, p, ids, tree, new) ==
    /\ Grows(ms, X, p, tree, new)
    /\ ids[1] = p.mount /\ tree[1].root = p.dentry /\ IsSeq(p.dentry)
    /\ \A i \in 1 .. Len(tree) :
          ids[i] \in X /\ tree[i].fs = ms[ids[i]].fs /\ tree[i].ro = ms[ids[i]].ro
    /\ \A a, b \in 1 .. Len(tree) : a < b => ids[a] < ids[b]
    /\ \A i \in 2 .. Len(tree) :
          /\ tree[i].root = ms[ids[i]].root /\ tree[i].at = ms[ids[i]].at
          /\ tree[i].parent \in 1 .. i - 1 /\ ids[tree[i].parent] = ms[ids[i]].parent
    /\ \A i \in 1 .. Len(tree) : \A k \in Mounted(ms) :
          ms[k].parent = ids[i] /\ Leads(tree[i].root, ms[k].at) =>
              \E j \in 2 .. Len(tree) : ids[j] = k

(* The copy of a place in such a mount.                                    *)
IsCopy(ms, ids, tree, x, y) ==
    \E i \in 1 .. Len(tree) :
        /\ x.mount = ids[i] /\ IsSeq(x.dentry) /\ Leads(tree[i].root, x.dentry)
        /\ y = Place(Len(ms) + i, x.dentry)

(* What is over the copy are the copies of what is over the place.         *)
LEMMA CopyOver ==
    ASSUME NEW ms, NEW X, NEW p, NEW ids, NEW tree, NEW new, Mirrors(ms, X, p, ids, tree, new),
           NEW x, IsPlace(X, x), NEW i \in 1 .. Len(tree), x.mount = ids[i],
           Leads(tree[i].root, x.dentry), NEW y, y = Place(Len(ms) + i, x.dentry)
    PROVE  /\ \A j \in 2 .. Len(tree) :
                 Len(ms) + j \in Over(new, y) <=> ids[j] \in Over(ms, x)
           /\ \A z \in Over(new, y) : \E j \in 2 .. Len(tree) : z = Len(ms) + j
           /\ \A z \in Over(ms, x) : \E j \in 2 .. Len(tree) : z = ids[j]
<1> DEFINE B == Len(ms)
           L == Len(tree)
<1>1. Grows(ms, X, p, tree, new)
  BY DEF Mirrors
<1>2. /\ B \in Nat /\ L \in Nat /\ X \in SUBSET (1 .. B)
      /\ \A z : z \in Over(new, y) <=>
                   \E j \in 2 .. L : z = B + j /\ tree[j].parent = i /\ tree[j].at = x.dentry
  BY <1>1, GrownOver
<1>3. \A j \in 2 .. L :
         /\ j \in 1 .. L /\ ids[j] \in Mounted(ms) /\ ids[j] \in Int
         /\ tree[j].at = ms[ids[j]].at /\ tree[j].parent \in 1 .. L
         /\ ids[tree[j].parent] = ms[ids[j]].parent
  <2> SUFFICES ASSUME NEW j \in 2 .. L
               PROVE  /\ j \in 1 .. L /\ ids[j] \in Mounted(ms) /\ ids[j] \in Int
                      /\ tree[j].at = ms[ids[j]].at /\ tree[j].parent \in 1 .. L
                      /\ ids[tree[j].parent] = ms[ids[j]].parent
    OBVIOUS
  <2>1. j \in 1 .. L /\ \A k \in 1 .. j - 1 : k \in 1 .. L
    BY <1>2
  <2>2. X \subseteq Mounted(ms) /\ ids[j] \in X
    BY <1>1, <2>1 DEF Mirrors, Grows, Rising
  <2>3. /\ tree[j].at = ms[ids[j]].at /\ tree[j].parent \in 1 .. j - 1
        /\ ids[tree[j].parent] = ms[ids[j]].parent
    BY DEF Mirrors
  <2>4. \A k \in X : k \in Int
    BY <1>2
  <2> QED
    BY <2>1, <2>2, <2>3, <2>4
<1>4. \A a, b \in 1 .. L : ids[a] = ids[b] => a = b
  <2> SUFFICES ASSUME NEW a \in 1 .. L, NEW b \in 1 .. L, ids[a] = ids[b]
               PROVE  a = b
    OBVIOUS
  <2>1. /\ a < b => ids[a] < ids[b]
        /\ b < a => ids[b] < ids[a]
        /\ ids[a] \in X
    BY DEF Mirrors
  <2>2. ids[a] \in 1 .. B
    BY <1>2, <2>1
  <2> QED
    BY <2>1, <2>2
<1>5. \A z \in Over(ms, x) : \E j \in 2 .. L : z = ids[j]
  BY DEF Over, Children, Mirrors
<1> HIDE DEF B, L
<1>6. ASSUME NEW j \in 2 .. L
      PROVE  B + j \in Over(new, y) <=> ids[j] \in Over(ms, x)
  <2>1. B + j \in Over(new, y) <=> tree[j].parent = i /\ tree[j].at = x.dentry
    <3>1. \A k \in 2 .. L : B + j = B + k => j = k
      BY <1>2
    <3> QED
      BY <1>2, <3>1
  <2>2. tree[j].parent = i <=> ms[ids[j]].parent = ids[i]
    BY <1>3, <1>4 DEF L
  <2>3. ids[j] \in Over(ms, x) <=> ms[ids[j]].parent = ids[i] /\ ms[ids[j]].at = x.dentry
    BY <1>3 DEF Over, Children
  <2> QED
    BY <1>3, <2>1, <2>2, <2>3
<1>7. \A z \in Over(new, y) : \E j \in 2 .. L : z = B + j
  BY <1>2
<1> QED
  BY <1>5, <1>6, <1>7 DEF B, L

(* A lookup of the copy goes up as that of the place does, to a copy.      *)
LEMMA CopyUp ==
    ASSUME NEW ms, NEW X, NEW p, NEW ids, NEW tree, NEW new, Mirrors(ms, X, p, ids, tree, new),
           NEW x, IsPlace(X, x), NEW y, IsCopy(ms, ids, tree, x, y)
    PROVE  /\ IsPlace(Grown(ms, X, new), y) /\ Rising(new, Grown(ms, X, new))
           /\ Over(ms, x) = {} => Over(new, y) = {}
           /\ Over(ms, x) # {} =>
                 Over(new, y) # {} /\ IsCopy(ms, ids, tree, Up(ms, x), Up(new, y))
<1> DEFINE B == Len(ms)
           L == Len(tree)
           Y == Grown(ms, X, new)
<1>1. Grows(ms, X, p, tree, new) /\ Rising(ms, X) /\ Rising(new, Y)
  BY DEF Mirrors, Grows
<1>2. PICK i \in 1 .. L :
         /\ x.mount = ids[i] /\ IsSeq(x.dentry) /\ Leads(tree[i].root, x.dentry)
         /\ y = Place(B + i, x.dentry)
  BY DEF IsCopy
<1>3. IsPlace(Y, y)
  BY <1>1, <1>2, GrownPlace
<1>4. /\ \A j \in 2 .. L : B + j \in Over(new, y) <=> ids[j] \in Over(ms, x)
      /\ \A z \in Over(new, y) : \E j \in 2 .. L : z = B + j
      /\ \A z \in Over(ms, x) : \E j \in 2 .. L : z = ids[j]
  <2>1. /\ i \in 1 .. Len(tree) /\ x.mount = ids[i] /\ Leads(tree[i].root, x.dentry)
        /\ y = Place(Len(ms) + i, x.dentry)
    BY <1>2
  <2> HIDE DEF Y
  <2>2. \A z \in Over(ms, x) : \E j \in 2 .. Len(tree) : z = ids[j]
    BY <2>1, CopyOver
  <2>3. \A z \in Over(new, y) : \E j \in 2 .. Len(tree) : z = Len(ms) + j
    BY <2>1, CopyOver
  <2>4. \A j \in 2 .. Len(tree) : Len(ms) + j \in Over(new, y) <=> ids[j] \in Over(ms, x)
    BY <2>1, CopyOver
  <2> QED
    BY <2>2, <2>3, <2>4
<1>5. Over(ms, x) = {} => Over(new, y) = {}
  BY <1>4
<1>6. CASE Over(ms, x) # {}
  <2>1. /\ Up(ms, x) = RootOf(ms, Max(Over(ms, x))) /\ Max(Over(ms, x)) \in Over(ms, x)
        /\ \A z \in Over(ms, x) : Max(Over(ms, x)) >= z
    BY <1>1, <1>6, UpRises
  <2>2. PICK j \in 2 .. L : Max(Over(ms, x)) = ids[j]
    BY <1>4, <2>1
  <2>3. B + j \in Over(new, y) /\ Over(new, y) # {}
    BY <1>4, <2>1, <2>2
  <2>4. /\ Up(new, y) = RootOf(new, Max(Over(new, y))) /\ Max(Over(new, y)) \in Over(new, y)
        /\ \A z \in Over(new, y) : Max(Over(new, y)) >= z
    BY <1>1, <1>3, <2>3, UpRises
  <2>5. PICK k \in 2 .. L : Max(Over(new, y)) = B + k
    BY <1>4, <2>4
  <2>6. B \in Nat /\ L \in Nat /\ j \in 1 .. L /\ k \in 1 .. L /\ X \in SUBSET (1 .. B)
    <3>1. B \in Nat /\ L \in Nat /\ X \in SUBSET (1 .. B)
      BY <1>1, GrownOver
    <3> QED
      BY <3>1
  <2>7. k >= j
    <3>1. B + k >= B + j
      BY <2>3, <2>4, <2>5
    <3> QED
      BY <2>6, <3>1
  <2>8. ids[j] >= ids[k]
    BY <1>4, <2>1, <2>2, <2>4, <2>5
  <2>9. k = j
    <3>1. ids[j] \in X /\ ids[k] \in X /\ (j < k => ids[j] < ids[k])
      BY <2>6 DEF Mirrors
    <3>2. ids[j] \in 1 .. B /\ ids[k] \in 1 .. B
      BY <2>6, <3>1
    <3> QED
      BY <2>6, <2>7, <2>8, <3>1, <3>2
  <2>10. /\ ms[ids[j]].root = tree[j].root /\ new[B + j].root = tree[j].root
         /\ IsSeq(ms[ids[j]].root)
    <3>1. ids[j] \in X /\ ms[ids[j]].root = tree[j].root
      BY <2>6 DEF Mirrors
    <3>2. new[B + j].root = tree[j].root
      BY <1>1, <2>6 DEF Grows
    <3> QED
      BY <1>1, <3>1, <3>2 DEF Rising, Ordered
  <2> DEFINE d == tree[j].root
  <2>11. Up(ms, x) = Place(ids[j], d) /\ Up(new, y) = Place(B + j, d) /\ IsSeq(d)
    BY <2>1, <2>2, <2>4, <2>5, <2>9, <2>10 DEF RootOf
  <2>12. Leads(tree[j].root, d)
    BY <2>11, SeqFacts DEF Leads
  <2> HIDE DEF d
  <2>13. IsCopy(ms, ids, tree, Place(ids[j], d), Place(B + j, d))
    BY <2>6, <2>11, <2>12 DEF IsCopy, Place
  <2> QED
    BY <1>1, <1>3, <1>6, <2>3, <2>11, <2>13
<1> QED
  BY <1>1, <1>3, <1>5, <1>6

(* So a lookup ends where it did or at the copy of that place.             *)
LEMMA MirrorTop ==
    ASSUME NEW ms, NEW X, NEW p, NEW ids, NEW tree, NEW new, Mirrors(ms, X, p, ids, tree, new),
           NEW x0, IsPlace(X, x0), NEW y0, y0 = x0 \/ IsCopy(ms, ids, tree, x0, y0)
    PROVE  \/ Top(new, y0) = Top(ms, x0)
           \/ IsCopy(ms, ids, tree, Top(ms, x0), Top(new, y0))
<1> DEFINE B == Len(ms)
           Y == Grown(ms, X, new)
           Like(x, y) == y = x \/ IsCopy(ms, ids, tree, x, y)
           V == Ways(ms, X, x0)
           S == {x \in V : \A y : Like(x, y) => Like(Top(ms, x), Top(new, y))}
<1>1. Grows(ms, X, p, tree, new) /\ Rising(ms, X) /\ Rising(new, Y) /\ IsPlace(X, p)
  BY DEF Mirrors, Grows
<1>2. \A x \in V : IsPlace(X, x) /\ Up(ms, x) \in V
  BY <1>1, WaysUp
<1>3. ASSUME NEW x \in V, Over(ms, x) = {} \/ Up(ms, x) \in S,
             NEW y, IsCopy(ms, ids, tree, x, y)
      PROVE  Like(Top(ms, x), Top(new, y))
  <2>1. IsPlace(X, x)
    BY <1>2
  <2>2. /\ IsPlace(Y, y)
        /\ Over(ms, x) = {} => Over(new, y) = {}
        /\ Over(ms, x) # {} => Over(new, y) # {} /\ IsCopy(ms, ids, tree, Up(ms, x), Up(new, y))
    BY <1>3, <2>1, CopyUp
  <2>3. CASE Over(ms, x) = {}
    <3>1. Top(ms, x) = x /\ Top(new, y) = y
      BY <2>2, <2>3 DEF Top
    <3> QED
      BY <1>3, <3>1
  <2>4. CASE Over(ms, x) # {}
    <3>1. Top(ms, x) = Top(ms, Up(ms, x)) /\ Top(new, y) = Top(new, Up(new, y))
      BY <1>1, <2>1, <2>2, <2>4, TopUnfold
    <3>2. Like(Top(ms, Up(ms, x)), Top(new, Up(new, y)))
      BY <1>3, <2>2, <2>4
    <3> QED
      BY <3>1, <3>2, Zenon
  <2> QED
    BY <2>3, <2>4
<1>4. ASSUME NEW x \in V, Over(ms, x) = {} \/ Up(ms, x) \in S
      PROVE  Like(Top(ms, x), Top(new, x))
  <2>1. /\ IsPlace(X, x) /\ IsPlace(Y, x)
        /\ Over(new, x) = Over(ms, x) \cup (IF x = p THEN {B + 1} ELSE {})
        /\ \A i \in X : new[i] = ms[i]
    BY <1>1, <1>2, GrownOver
  <2>2. CASE x = p
    <3> DEFINE c == Place(B + 1, p.dentry)
    <3>1. /\ B \in Nat /\ 1 \in 1 .. Len(tree) /\ Over(ms, x) \in SUBSET (1 .. B)
          /\ B + 1 \in Over(new, x)
      <4>1. B \in Nat /\ Len(tree) \in Nat /\ Len(tree) >= 1
        BY <1>1, GrownOver DEF Grows
      <4>2. x.mount \in X
        BY <2>1 DEF IsPlace
      <4>3. Over(ms, x) \in SUBSET X /\ X \in SUBSET (1 .. B)
        BY <1>1, <4>2, OverRises
      <4>4. B + 1 \in Over(new, x)
        BY <2>1, <2>2
      <4>5. Over(ms, x) \in SUBSET (1 .. B)
        BY <4>3
      <4> QED
        BY <4>1, <4>4, <4>5
    <3>2. /\ Over(new, x) # {} /\ Max(Over(new, x)) \in Over(new, x)
          /\ Max(Over(new, x)) >= B + 1
          /\ Up(new, x) = RootOf(new, Max(Over(new, x)))
          /\ Top(new, x) = Top(new, Up(new, x))
      <4> HIDE DEF Y, B
      <4>1. Rising(new, Y) /\ IsPlace(Y, x) /\ Over(new, x) # {}
        BY <1>1, <2>1, <3>1
      <4>2. /\ Max(Over(new, x)) \in Over(new, x)
            /\ \A j \in Over(new, x) : Max(Over(new, x)) >= j
            /\ Up(new, x) = RootOf(new, Max(Over(new, x)))
        BY <4>1, UpRises
      <4>3. Top(new, x) = Top(new, Up(new, x))
        BY <4>1, TopUnfold
      <4> QED
        BY <3>1, <4>1, <4>2, <4>3
    <3>3. Max(Over(new, x)) = B + 1
      <4>1. Max(Over(new, x)) \in 1 .. B \/ Max(Over(new, x)) = B + 1
        BY <2>1, <2>2, <3>1, <3>2
      <4> QED
        BY <3>1, <3>2, <4>1
    <3>4. new[B + 1].root = p.dentry
      <4>1. new[B + 1].root = tree[1].root
        BY <1>1, <3>1 DEF Grows
      <4> QED
        BY <4>1 DEF Mirrors
    <3>5. Top(new, x) = Top(new, c)
      BY <3>2, <3>3, <3>4 DEF RootOf
    <3>6. IsCopy(ms, ids, tree, x, c)
      <4>1. p.mount = ids[1] /\ IsSeq(p.dentry) /\ tree[1].root = p.dentry
        BY DEF Mirrors
      <4>2. Leads(tree[1].root, p.dentry)
        BY <4>1, SeqFacts DEF Leads
      <4> QED
        BY <2>2, <3>1, <4>1, <4>2 DEF IsCopy
    <3>7. Like(Top(ms, x), Top(new, c))
      BY <1>3, <1>4, <3>6
    <3> QED
      BY <3>5, <3>7, Zenon
  <2>3. CASE x # p
    <3>1. Over(new, x) = Over(ms, x)
      BY <2>1, <2>3
    <3>2. CASE Over(ms, x) = {}
      BY <3>1, <3>2 DEF Top
    <3>3. CASE Over(ms, x) # {}
      <4>1. /\ Up(ms, x) = RootOf(ms, Max(Over(ms, x))) /\ IsPlace(X, Up(ms, x))
            /\ Up(ms, x).mount = Max(Over(ms, x))
            /\ Up(new, x) = RootOf(new, Max(Over(new, x)))
            /\ Top(ms, x) = Top(ms, Up(ms, x)) /\ Top(new, x) = Top(new, Up(new, x))
        <5> HIDE DEF Y
        <5>1. /\ Rising(ms, X) /\ IsPlace(X, x) /\ Over(ms, x) # {}
              /\ Rising(new, Y) /\ IsPlace(Y, x) /\ Over(new, x) # {}
          BY <1>1, <2>1, <3>1, <3>3
        <5>2. /\ Up(ms, x) = RootOf(ms, Max(Over(ms, x))) /\ IsPlace(X, Up(ms, x))
              /\ Up(ms, x).mount = Max(Over(ms, x))
          BY <5>1, UpRises
        <5>3. Up(new, x) = RootOf(new, Max(Over(new, x)))
          BY <5>1, UpRises
        <5>4. Top(ms, x) = Top(ms, Up(ms, x))
          BY <5>1, TopUnfold
        <5>5. Top(new, x) = Top(new, Up(new, x))
          BY <5>1, TopUnfold
        <5> QED
          BY <5>2, <5>3, <5>4, <5>5
      <4>2. Up(new, x) = Up(ms, x)
        BY <2>1, <3>1, <4>1 DEF RootOf, IsPlace
      <4>3. Like(Top(ms, Up(ms, x)), Top(new, Up(ms, x)))
        BY <1>4, <3>3
      <4> QED
        BY <4>1, <4>2, <4>3, Zenon
    <3> QED
      BY <3>2, <3>3
  <2> QED
    BY <2>2, <2>3
<1>5. \A x \in V : (Over(ms, x) = {} \/ Up(ms, x) \in S) => x \in S
  BY <1>3, <1>4
<1>6. x0 \in V
  BY DEF Ways
<1> HIDE DEF S, V
<1>7. V \subseteq S
  BY <1>1, <1>2, <1>5, UpInduction
<1> QED
  BY <1>6, <1>7 DEF S

(* The places of a walk.                                                   *)
LEMMA WalkTaken ==
    ASSUME NEW ms, NEW r, NEW path, Len(path) \in Nat
    PROVE  \E g : Steps(ms, r, path, g) /\ Walk(ms, r, path) = g[Len(path)]
BY WalkSteps DEF Steps

(* A walk ends where it did or at the copy of that place, so that it finds *)
(* what it found.                                                          *)
LEMMA MirrorWalk ==
    ASSUME NEW ms, NEW X, NEW p, NEW ids, NEW tree, NEW new, Mirrors(ms, X, p, ids, tree, new),
           NEW r \in X, NEW q, Len(q) \in Nat
    PROVE  LET x == Walk(ms, r, q)
               y == Walk(new, r, q)
           IN  /\ y.dentry = x.dentry
               /\ new[y.mount].fs = ms[x.mount].fs /\ new[y.mount].ro = ms[x.mount].ro
<1> DEFINE Like(x, y) == y = x \/ IsCopy(ms, ids, tree, x, y)
<1>1. Grows(ms, X, p, tree, new) /\ Rising(ms, X)
  BY DEF Mirrors, Grows
<1>2. PICK g : Steps(ms, r, q, g) /\ Walk(ms, r, q) = g[Len(q)]
  BY WalkTaken
<1>3. PICK f : Steps(new, r, q, f) /\ Walk(new, r, q) = f[Len(q)]
  BY WalkTaken
<1>4. \A n \in 0 .. Len(q) : IsGood(ms, X, g[n])
  BY <1>1, <1>2, WalkGood
<1>5. ASSUME NEW x, IsGood(ms, X, x), NEW y, Like(x, y), NEW a
      PROVE  Like(Enter(ms, x, a), Enter(new, y, a))
  <2> DEFINE d == Append(x.dentry, a)
             x1 == Place(x.mount, d)
             y1 == Place(y.mount, Append(y.dentry, a))
  <2>1. IsPlace(X, x1)
    BY <1>1, <1>5, EnterGood
  <2>2. y1 = x1 \/ IsCopy(ms, ids, tree, x1, y1)
    <3>1. CASE y = x
      BY <3>1
    <3>2. ASSUME NEW i \in 1 .. Len(tree), x.mount = ids[i], IsSeq(x.dentry),
                 Leads(tree[i].root, x.dentry), y = Place(Len(ms) + i, x.dentry)
          PROVE  IsCopy(ms, ids, tree, x1, y1)
      <4>1. /\ IsSeq(d) /\ Len(d) = Len(x.dentry) + 1 /\ Len(x.dentry) \in Nat
            /\ \A k \in 1 .. Len(x.dentry) : d[k] = x.dentry[k]
        BY <3>2, AppendName, SeqFacts
      <4> HIDE DEF d
      <4>2. Len(tree[i].root) \in Nat
        <5>1. /\ Rising(new, Grown(ms, X, new)) /\ Len(ms) + i \in Grown(ms, X, new)
              /\ new[Len(ms) + i].root = tree[i].root
          BY <1>1, GrownOver DEF Grows
        <5>2. IsSeq(tree[i].root)
          BY <5>1 DEF Rising, Ordered
        <5> QED
          BY <5>2, SeqFacts
      <4>3. Leads(tree[i].root, d)
        BY <3>2, <4>1, <4>2 DEF Leads
      <4>4. x1.mount = ids[i] /\ x1.dentry = d /\ y1 = Place(Len(ms) + i, d)
        BY <3>2 DEF Place, d
      <4> HIDE DEF x1, y1
      <4> QED
        BY <4>1, <4>3, <4>4 DEF IsCopy
    <3> HIDE DEF x1, y1
    <3> QED
      BY <1>5, <3>1, <3>2 DEF IsCopy
  <2>3. Enter(ms, x, a) = Top(ms, x1) /\ Enter(new, y, a) = Top(new, y1)
    BY DEF Enter
  <2> HIDE DEF x1, y1
  <2>4. Top(new, y1) = Top(ms, x1) \/ IsCopy(ms, ids, tree, Top(ms, x1), Top(new, y1))
    BY <2>1, <2>2, MirrorTop
  <2> QED
    BY <2>3, <2>4
<1> DEFINE S == {n \in Nat : n \in 0 .. Len(q) => Like(g[n], f[n])}
<1>6. 0 \in S
  <2>1. f[0] = RootOf(new, r) /\ g[0] = RootOf(ms, r) /\ new[r] = ms[r]
    BY <1>1, <1>2, <1>3, GrownOver DEF Steps
  <2> QED
    BY <2>1 DEF RootOf
<1>7. ASSUME NEW n \in Nat, n \in S
      PROVE  n + 1 \in S
  <2> SUFFICES ASSUME n + 1 \in 0 .. Len(q)
               PROVE  Like(g[n + 1], f[n + 1])
    OBVIOUS
  <2>1. n \in 0 .. Len(q) /\ n + 1 \in 1 .. Len(q) /\ (n + 1) - 1 = n
    OBVIOUS
  <2>2. /\ f[n + 1] = Enter(new, f[n], q[n + 1]) /\ g[n + 1] = Enter(ms, g[n], q[n + 1])
        /\ Like(g[n], f[n]) /\ IsGood(ms, X, g[n])
    BY <1>2, <1>3, <1>4, <1>7, <2>1 DEF Steps
  <2> HIDE DEF Like
  <2> QED
    BY <1>5, <2>2
<1> DEFINE x == Walk(ms, r, q)
           y == Walk(new, r, q)
<1>8. Like(x, y) /\ x.mount \in X
  <2> HIDE DEF S
  <2>1. Len(q) \in S /\ Len(q) \in 0 .. Len(q)
    BY <1>6, <1>7, NatSet
  <2>2. Like(g[Len(q)], f[Len(q)]) /\ IsGood(ms, X, g[Len(q)])
    BY <1>4, <2>1 DEF S
  <2> QED
    BY <1>2, <1>3, <2>2 DEF IsGood, IsPlace
<1> HIDE DEF x, y
<1>9. ASSUME y = x
      PROVE  /\ y.dentry = x.dentry
             /\ new[y.mount].fs = ms[x.mount].fs /\ new[y.mount].ro = ms[x.mount].ro
  <2>1. new[x.mount] = ms[x.mount]
    BY <1>1, <1>8, GrownOver
  <2> QED
    BY <1>9, <2>1
<1>10. ASSUME NEW i \in 1 .. Len(tree), x.mount = ids[i], y = Place(Len(ms) + i, x.dentry)
       PROVE  /\ y.dentry = x.dentry
              /\ new[y.mount].fs = ms[x.mount].fs /\ new[y.mount].ro = ms[x.mount].ro
  <2>1. tree[i].fs = ms[ids[i]].fs /\ tree[i].ro = ms[ids[i]].ro
    BY DEF Mirrors
  <2>2. new[Len(ms) + i].fs = tree[i].fs /\ new[Len(ms) + i].ro = tree[i].ro
    BY <1>1 DEF Grows
  <2> QED
    BY <1>10, <2>1, <2>2 DEF Place
<1> QED
  BY <1>8, <1>9, <1>10 DEF IsCopy, x, y

(* A sequence that is a prefix of another one.                             *)
LEMMA PrefixLeads ==
    ASSUME NEW s, IsSeq(s), NEW t, IsSeq(t)
    PROVE  IsPrefix(s, t) <=> Leads(s, t)
<1> DEFINE L == Len(s)
<1>1. L \in Nat /\ Len(t) \in Nat /\ 1 \in Nat /\ 1 + 0 = 1
  BY SeqFacts
<1>2. CASE ~(L <= Len(t))
  BY <1>1, <1>2 DEF IsPrefix, Leads
<1>3. CASE L <= Len(t)
  <2> DEFINE a == [i \in 1 .. L |-> s[i]]
             b == [i \in 1 .. L |-> t[i]]
  <2>1. SubSeq(s, 1, L) = [i \in 1 .. L |-> s[i]]
    BY <1>1 DEF IsSeq
  <2>2. SubSeq(t, 1, L) = [i \in 1 .. L |-> t[i]]
    BY <1>1, <1>3 DEF IsSeq
  <2>3. a = b <=> \A i \in 1 .. L : s[i] = t[i]
    <3>1. ASSUME a = b, NEW i \in 1 .. L
          PROVE  s[i] = t[i]
      <4>1. a[i] = s[i] /\ b[i] = t[i]
        OBVIOUS
      <4> QED
        BY <3>1, <4>1
    <3> QED
      BY <3>1
  <2> QED
    BY <1>3, <2>1, <2>2, <2>3 DEF IsPrefix, Leads
<1> QED
  BY <1>2, <1>3

(* What a clone is, of the mounts U below the place.                       *)
IsClone(ms, p, U, ids, tree) ==
    /\ IsSeq(tree) /\ Records(tree) /\ Len(tree) >= 1
    /\ ids[1] = p.mount
    /\ \A i \in 2 .. Len(tree) : ids[i] \in U
    /\ \A j \in U : \E i \in 2 .. Len(tree) : ids[i] = j
    /\ \A i \in 1 .. Len(tree) :
          /\ tree[i].fs = ms[ids[i]].fs /\ tree[i].ro = ms[ids[i]].ro
          /\ i = 1 => tree[i].root = p.dentry
          /\ i # 1 => /\ tree[i].root = ms[ids[i]].root /\ tree[i].at = ms[ids[i]].at
                      /\ ids[tree[i].parent] = ms[ids[i]].parent

LEMMA CloneIs ==
    ASSUME NEW ms, IsSeq(ms), Records(ms), NEW p, p.mount \in 1 .. Len(ms), NEW rec
    PROVE  IsClone(ms, p, IF rec THEN Bindable(ms, p) ELSE {}, Taken(ms, p, rec), Clone(ms, p, rec))
BY CloneShape DEF IsClone

(* A recursive bind mount of a place onto itself makes such a copy, of     *)
(* mounts that can be bound and are not shared.                            *)
LEMMA BindMirrors ==
    ASSUME NEW ms, NEW X, Rising(ms, X), Records(ms),
           \A i \in X : ~ms[i].unbindable,
           NEW p, IsPlace(X, p), IsSeq(p.dentry), ms[p.mount].group = 0,
           \A k \in X : IsSeq(ms[k].at)
    PROVE  Mirrors(ms, X, p, Taken(ms, p, TRUE), Clone(ms, p, TRUE), Bind(ms, p, p, TRUE))
<1> DEFINE ids == Taken(ms, p, TRUE)
           tree == Clone(ms, p, TRUE)
           new == Bind(ms, p, p, TRUE)
<1>1. /\ IsSeq(ms) /\ p.mount \in X /\ p.mount \in 1 .. Len(ms)
      /\ \A i \in X : IsSeq(ms[i].root)
  BY DEF Rising, Ordered, IsPlace
<1>2. /\ IsSeq(tree) /\ Records(tree) /\ Len(tree) >= 1
      /\ ids[1] = p.mount
      /\ \A i \in 2 .. Len(tree) : ids[i] \in Bindable(ms, p)
      /\ \A j \in Bindable(ms, p) : \E i \in 2 .. Len(tree) : ids[i] = j
      /\ \A i \in 1 .. Len(tree) :
            /\ tree[i].fs = ms[ids[i]].fs /\ tree[i].ro = ms[ids[i]].ro
            /\ i = 1 => tree[i].root = p.dentry
            /\ i # 1 => /\ tree[i].root = ms[ids[i]].root /\ tree[i].at = ms[ids[i]].at
                        /\ ids[tree[i].parent] = ms[ids[i]].parent
  <2>1. IsClone(ms, p, Bindable(ms, p), ids, tree)
    <3>1. IsClone(ms, p, IF TRUE THEN Bindable(ms, p) ELSE {}, ids, tree)
      BY <1>1, CloneIs, Zenon
    <3> QED
      BY <3>1, Zenon
  <2> HIDE DEF ids, tree
  <2> QED
    BY <2>1 DEF IsClone
<1>3. /\ \A a, b \in 1 .. Len(tree) : a < b => ids[a] < ids[b]
      /\ \A i \in 1 .. Len(tree) : ids[i] \in X /\ IsSeq(tree[i].root)
      /\ \A i \in 2 .. Len(tree) : tree[i].parent \in 1 .. i - 1
  BY <1>1, CloneRises
<1>4. new = Attach(ms, p, tree)
  BY DEF Bind
<1> HIDE DEF ids, tree, new
<1>5. Grows(ms, X, p, tree, new)
  BY <1>2, <1>3, <1>4, AttachGrows
<1>6. Len(tree) \in Nat /\ 1 \in 1 .. Len(tree) /\ \A i \in 2 .. Len(tree) : i \in 1 .. Len(tree) /\ i # 1
  BY <1>2, SeqFacts
<1>7. ASSUME NEW i \in 1 .. Len(tree), NEW k \in Mounted(ms),
             ms[k].parent = ids[i], Leads(tree[i].root, ms[k].at)
      PROVE  \E j \in 2 .. Len(tree) : ids[j] = k
  <2>1. IsPrefix(tree[i].root, ms[k].at)
    <3>1. k \in X
      BY <1>3, <1>7 DEF Rising, Closed
    <3> QED
      BY <1>3, <1>7, <3>1, PrefixLeads
  <2>2. CASE i = 1
    <3>1. ms[k].parent = p.mount /\ IsPrefix(p.dentry, ms[k].at)
      BY <1>2, <1>7, <2>1, <2>2
    <3>2. k \in Bindable(ms, p)
      BY <1>1, <3>1, BindableClosed
    <3> QED
      BY <1>2, <3>2
  <2>3. CASE i # 1
    <3>1. i \in 2 .. Len(tree)
      BY <1>6, <2>3
    <3>2. ms[k].parent \in Bindable(ms, p) /\ IsPrefix(ms[ms[k].parent].root, ms[k].at)
      BY <1>2, <1>7, <2>1, <2>3, <3>1
    <3>3. k \in Bindable(ms, p)
      BY <1>1, <3>2, BindableClosed
    <3> QED
      BY <1>2, <3>3
  <2> QED
    BY <2>2, <2>3
<1>8. Mirrors(ms, X, p, ids, tree, new)
  BY <1>2, <1>3, <1>5, <1>6, <1>7 DEF Mirrors
<1> QED
  BY <1>8 DEF ids, tree, new

-----------------------------------------------------------------------------
(* Paths that are covered.                                                 *)

(* What is over a place in a mount of the tree is of the tree.             *)
LEMMA GrownKids ==
    ASSUME NEW ms, NEW X, NEW to, NEW tree, NEW new, Grows(ms, X, to, tree, new),
           NEW i \in 1 .. Len(tree), NEW d, NEW z \in Over(new, Place(Len(ms) + i, d))
    PROVE  \E j \in 2 .. Len(tree) : z = Len(ms) + j /\ tree[j].parent = i /\ tree[j].at = d
BY GrownOver

(* A clone of the mounts below a place is attached, and its top has        *)
(* nothing over it if the place had nothing.                               *)
Binds(ms, X, from, to, tree, new) ==
    /\ Grows(ms, X, to, tree, new)
    /\ \A i \in 2 .. Len(tree) : \E k \in X : tree[i].at = ms[k].at
    /\ Over(ms, from) = {} =>
          Top(new, RootOf(new, Len(ms) + 1)) = Place(Len(ms) + 1, from.dentry)

(* A bind mount does so.                                                   *)
LEMMA BindGrows ==
    ASSUME NEW ms, NEW X, Rising(ms, X), Records(ms),
           NEW from, IsPlace(X, from), IsSeq(from.dentry),
           NEW to, IsPlace(X, to), ms[to.mount].group = 0, NEW rec
    PROVE  Binds(ms, X, from, to, Clone(ms, from, rec), Bind(ms, from, to, rec))
<1> DEFINE ids == Taken(ms, from, rec)
           U == IF rec THEN Bindable(ms, from) ELSE {}
           tree == Clone(ms, from, rec)
           new == Bind(ms, from, to, rec)
<1>1. /\ IsSeq(ms) /\ from.mount \in X /\ from.mount \in 1 .. Len(ms)
      /\ X \subseteq Mounted(ms)
  BY DEF Rising, Ordered, IsPlace
<1>2. IsClone(ms, from, U, ids, tree)
  BY <1>1, CloneIs
<1>3. /\ \A a, b \in 1 .. Len(tree) : a < b => ids[a] < ids[b]
      /\ \A i \in 1 .. Len(tree) : ids[i] \in X /\ IsSeq(tree[i].root)
      /\ \A i \in 2 .. Len(tree) : tree[i].parent \in 1 .. i - 1
  BY <1>1, CloneRises
<1>4. new = Attach(ms, to, tree)
  BY DEF Bind
<1> HIDE DEF ids, U, tree, new
<1>5. IsSeq(tree) /\ Records(tree) /\ Len(tree) >= 1
  BY <1>2 DEF IsClone
<1>6. Grows(ms, X, to, tree, new)
  BY <1>3, <1>4, <1>5, AttachGrows
<1>7. Len(tree) \in Nat /\ 1 \in 1 .. Len(tree) /\ \A i \in 2 .. Len(tree) : i \in 1 .. Len(tree) /\ i # 1
  BY <1>5, SeqFacts
<1>8. \A i \in 2 .. Len(tree) : tree[i].at = ms[ids[i]].at /\ ids[i] \in X
  BY <1>2, <1>3, <1>7 DEF IsClone
<1>9. ASSUME Over(ms, from) = {}
      PROVE  Top(new, RootOf(new, Len(ms) + 1)) = Place(Len(ms) + 1, from.dentry)
  <2> DEFINE y == Place(Len(ms) + 1, from.dentry)
  <2>1. new[Len(ms) + 1].root = from.dentry
    <3>1. new[Len(ms) + 1].root = tree[1].root
      BY <1>6, <1>7 DEF Grows
    <3> QED
      BY <1>2, <1>7, <3>1 DEF IsClone
  <2>2. RootOf(new, Len(ms) + 1) = y
    BY <2>1 DEF RootOf
  <2>3. \A z : z \in Over(new, Place(Len(ms) + 1, from.dentry)) =>
                 \E j \in 2 .. Len(tree) : tree[j].parent = 1 /\ tree[j].at = from.dentry
    <3> DEFINE d == from.dentry
    <3> HIDE DEF d
    <3> SUFFICES ASSUME NEW z \in Over(new, Place(Len(ms) + 1, d))
                 PROVE  \E j \in 2 .. Len(tree) : tree[j].parent = 1 /\ tree[j].at = d
      BY DEF d
    <3>1. 1 \in 1 .. Len(tree)
      BY <1>7
    <3>2. \E j \in 2 .. Len(tree) :
              z = Len(ms) + j /\ tree[j].parent = 1 /\ tree[j].at = d
      BY <1>6, <3>1, GrownKids, SMTT(60)
    <3> QED
      BY <3>2
  <2>4. ASSUME NEW j \in 2 .. Len(tree), tree[j].parent = 1, tree[j].at = from.dentry
        PROVE  FALSE
    <3>1. ids[j] \in Mounted(ms) /\ ms[ids[j]].at = from.dentry
      BY <1>1, <1>8, <2>4
    <3>2. ms[ids[j]].parent = from.mount
      BY <1>2, <1>7, <2>4 DEF IsClone
    <3>3. ids[j] \in Over(ms, from)
      BY <3>1, <3>2 DEF Over, Children
    <3> QED
      BY <1>9, <3>3
  <2>5. Over(new, y) = {}
    BY <2>3, <2>4
  <2> HIDE DEF y
  <2>6. Top(new, y) = y
    BY <2>5 DEF Top
  <2> QED
    BY <2>2, <2>6 DEF y
<1>10. \A i \in 2 .. Len(tree) : \E k \in X : tree[i].at = ms[k].at
  BY <1>8
<1> QED
  BY <1>5, <1>6, <1>9, <1>10 DEF Binds, tree, new

(* A path leads to a mount of the file system made for masks, or to the    *)
(* file that null leads to.                                                *)
Hidden(ms, r, null, path) ==
    \/ ms[Walk(ms, r, path).mount].fs = "mask"
    \/ Walk(ms, r, path).dentry = Walk(ms, r, null).dentry

(* A mount of that file system hides what a path leads to with all that is *)
(* below, and what was hidden still is.                                    *)
LEMMA CoverDirectory ==
    ASSUME NEW ms, NEW X, Rising(ms, X), NEW r \in X,
           NEW path, Len(path) \in Nat, Len(path) > 0, NEW null, Len(null) \in Nat, ~Leads(path, null),
           ms[Walk(ms, r, path).mount].group = 0, NEW ro, NEW q, Len(q) \in Nat
    PROVE  LET new == Attach(ms, Walk(ms, r, path), <<NewMount("mask", ro)>>)
           IN  /\ Leads(path, q) => Hidden(new, r, null, q)
               /\ Hidden(ms, r, null, q) => Hidden(new, r, null, q)
<1> DEFINE m == NewMount("mask", ro)
           tree == <<m>>
           to == Walk(ms, r, path)
           new == Attach(ms, to, tree)
<1>1. IsGood(ms, X, to) /\ IsGood(ms, X, Walk(ms, r, q))
  BY WalkEnds
<1>2. DOMAIN m = Fields /\ m.fs = "mask" /\ m.root = <<>>
  BY DEF NewMount, Fields
<1> HIDE DEF m
<1>3. tree \in Seq({m}) /\ Len(tree) = 1 /\ tree[1] = m /\ <<>> \in Seq({})
  OBVIOUS
<1>4. IsSeq(tree) /\ IsSeq(<<>>)
  BY <1>3, EverySeq
<1> HIDE DEF tree
<1>5. /\ \A i \in 1 .. Len(tree) : tree[i] = m
      /\ Len(tree) >= 1 /\ 2 .. Len(tree) = {} /\ 1 \in 1 .. Len(tree)
  BY <1>3
<1>6. Records(tree) /\ \A i \in 1 .. Len(tree) : IsSeq(tree[i].root)
  BY <1>2, <1>4, <1>5 DEF Records
<1>7. Grows(ms, X, to, tree, new)
  BY <1>1, <1>4, <1>5, <1>6, AttachGrows DEF IsGood
<1> HIDE DEF new
<1>8. /\ ~Leads(path, q) => Walk(new, r, q) = Walk(ms, r, q)
      /\ Leads(path, q) => Walk(new, r, q).mount = Len(ms) + 1
      /\ Walk(new, r, null) = Walk(ms, r, null)
  BY <1>3, <1>7, GrownWalk
<1>9. new[Len(ms) + 1].fs = "mask"
  BY <1>2, <1>5, <1>7 DEF Grows
<1>10. new[Walk(ms, r, q).mount] = ms[Walk(ms, r, q).mount]
  BY <1>1, <1>7, GrownOver DEF IsGood, IsPlace
<1>11. Leads(path, q) => Hidden(new, r, null, q)
  BY <1>8, <1>9 DEF Hidden
<1>12. Hidden(ms, r, null, q) => Hidden(new, r, null, q)
  BY <1>8, <1>10, <1>11 DEF Hidden
<1> QED
  BY <1>11, <1>12 DEF new, tree, m

(* A bind mount of the null file hides a file.                             *)
LEMMA CoverFile ==
    ASSUME NEW ms, NEW X, Rising(ms, X), Records(ms), NEW r \in X,
           NEW path, Len(path) \in Nat, Len(path) > 0,
           NEW null, Len(null) \in Nat, Len(null) > 0, ~Leads(path, null),
           ms[Walk(ms, r, path).mount].group = 0,
           NEW q, Len(q) \in Nat, Leads(path, q) => Len(q) = Len(path)
    PROVE  LET new == Bind(ms, Walk(ms, r, null), Walk(ms, r, path), TRUE)
           IN  /\ Leads(path, q) => Hidden(new, r, null, q)
               /\ Hidden(ms, r, null, q) => Hidden(new, r, null, q)
<1> DEFINE from == Walk(ms, r, null)
           to == Walk(ms, r, path)
           tree == Clone(ms, from, TRUE)
           new == Bind(ms, from, to, TRUE)
<1>1. IsGood(ms, X, to) /\ IsGood(ms, X, from) /\ Over(ms, from) = {} /\ IsGood(ms, X, Walk(ms, r, q))
  BY WalkEnds
<1>2. /\ Grows(ms, X, to, tree, new)
      /\ Top(new, RootOf(new, Len(ms) + 1)) = Place(Len(ms) + 1, from.dentry)
  <2>1. IsPlace(X, from) /\ IsSeq(from.dentry) /\ IsPlace(X, to)
    BY <1>1 DEF IsGood
  <2>2. Binds(ms, X, from, to, tree, new)
    BY <2>1, BindGrows, Zenon
  <2> HIDE DEF new, tree
  <2> QED
    BY <1>1, <2>2 DEF Binds
<1> HIDE DEF new, tree
<1>3. /\ ~Leads(path, q) => Walk(new, r, q) = Walk(ms, r, q)
      /\ Leads(path, q) => Walk(new, r, q) = Place(Len(ms) + 1, from.dentry)
      /\ Walk(new, r, null) = Walk(ms, r, null)
  BY <1>2, GrownWalk
<1>4. new[Walk(ms, r, q).mount] = ms[Walk(ms, r, q).mount]
  BY <1>1, <1>2, GrownOver DEF IsGood, IsPlace
<1>5. Leads(path, q) => Hidden(new, r, null, q)
  BY <1>3 DEF Hidden, Place
<1>6. Hidden(ms, r, null, q) => Hidden(new, r, null, q)
  BY <1>3, <1>4, <1>5 DEF Hidden
<1> QED
  BY <1>5, <1>6 DEF new

(* A place bound to itself hides what it hid, and is read-only where it    *)
(* was.                                                                    *)
LEMMA BoundHides ==
    ASSUME NEW ms, NEW X, Rising(ms, X), Records(ms), NEW r \in X,
           \A i \in X : ~ms[i].unbindable /\ IsSeq(ms[i].at),
           NEW path, Len(path) \in Nat, ms[Walk(ms, r, path).mount].group = 0,
           NEW null, Len(null) \in Nat, NEW q, Len(q) \in Nat
    PROVE  LET new == Bind(ms, Walk(ms, r, path), Walk(ms, r, path), TRUE)
           IN  /\ Hidden(ms, r, null, q) => Hidden(new, r, null, q)
               /\ ms[Walk(ms, r, q).mount].ro => new[Walk(new, r, q).mount].ro
<1> DEFINE p == Walk(ms, r, path)
           ids == Taken(ms, p, TRUE)
           tree == Clone(ms, p, TRUE)
           new == Bind(ms, p, p, TRUE)
<1>1. IsGood(ms, X, p)
  BY WalkEnds
<1>2. Mirrors(ms, X, p, ids, tree, new)
  BY <1>1, BindMirrors DEF IsGood
<1> HIDE DEF p, ids, tree, new
<1>3. \A s : Len(s) \in Nat =>
         /\ Walk(new, r, s).dentry = Walk(ms, r, s).dentry
         /\ new[Walk(new, r, s).mount].fs = ms[Walk(ms, r, s).mount].fs
         /\ new[Walk(new, r, s).mount].ro = ms[Walk(ms, r, s).mount].ro
  BY <1>2, MirrorWalk
<1> QED
  BY <1>3 DEF Hidden, new, p

(* So it is in a table in which the mounts are where they were.            *)
LEMMA SameHides ==
    ASSUME NEW ms, NEW X, Rising(ms, X), NEW new, SameWays(ms, new), NEW r \in X,
           \A i \in 1 .. Len(ms) : new[i].fs = ms[i].fs /\ (ms[i].ro => new[i].ro),
           NEW null, Len(null) \in Nat, NEW q, Len(q) \in Nat
    PROVE  /\ Walk(new, r, q) = Walk(ms, r, q) /\ Walk(ms, r, q).mount \in 1 .. Len(ms)
           /\ Hidden(ms, r, null, q) => Hidden(new, r, null, q)
           /\ ms[Walk(ms, r, q).mount].ro => new[Walk(new, r, q).mount].ro
<1>1. Walk(new, r, q) = Walk(ms, r, q) /\ Walk(new, r, null) = Walk(ms, r, null)
  BY SameWalk
<1>2. Walk(ms, r, q).mount \in 1 .. Len(ms)
  BY WalkEnds DEF IsGood, IsPlace, Rising, Ordered
<1> QED
  BY <1>1, <1>2 DEF Hidden

-----------------------------------------------------------------------------
(***************************************************************************)
(* Lookups that stay the same, and the names places end in.                *)
(***************************************************************************)

(* Two tables that show the same from mount r on, apart from what is over  *)
(* its root.                                                               *)
SameFrom(ms, X, r, new) ==
    /\ IsSeq(new)
    /\ new[r].root = ms[r].root
    /\ \A i \in X : new[i].root = ms[i].root
    /\ \A x : IsPlace(X, x) /\ x.mount >= r /\ x # RootOf(ms, r) => Over(new, x) = Over(ms, x)

LEMMA SameTop ==
    ASSUME NEW ms, NEW X, Rising(ms, X), NEW r \in X, NEW new, SameFrom(ms, X, r, new),
           Len(new) = Len(ms),
           NEW y, IsPlace(X, y), y.mount >= r, y # RootOf(ms, r)
    PROVE  Top(new, y) = Top(ms, y)
<1>1. IsSeq(ms) /\ Len(ms) \in Nat /\ r \in Nat /\ Over(new, y) = Over(ms, y) /\ \A i \in X : i \in Nat
  BY SeqFacts DEF Rising, Ordered, SameFrom
<1>2. CASE Over(ms, y) = {}
  BY <1>1, <1>2 DEF Top
<1>3. CASE Over(ms, y) # {}
  <2>1. PICK g : /\ g[0] = y
                 /\ \A n \in 1 .. Len(ms) : g[n] = Up(ms, g[n - 1])
                 /\ Top(ms, y) = g[Len(ms)]
    BY <1>1, <1>3, TopSteps
  <2>2. PICK h : /\ h[0] = y
                 /\ \A n \in 1 .. Len(new) : h[n] = Up(new, h[n - 1])
                 /\ Top(new, y) = h[Len(new)]
    BY <1>1, <1>3, TopSteps DEF SameFrom
  <2> DEFINE Fine(x) == IsPlace(X, x) /\ x.mount >= r /\ x # RootOf(ms, r)
             S == {n \in Nat : n \in 0 .. Len(ms) => h[n] = g[n] /\ Fine(g[n])}
  <2>3. 0 \in S
    BY <2>1, <2>2
  <2>4. ASSUME NEW x, Fine(x)
        PROVE  Up(new, x) = Up(ms, x) /\ Fine(Up(ms, x))
    <3>1. Over(new, x) = Over(ms, x) /\ IsPlace(X, Up(ms, x))
      BY <2>4, UpRises DEF SameFrom
    <3>2. CASE Over(ms, x) = {}
      BY <2>4, <3>1, <3>2 DEF Up
    <3>3. CASE Over(ms, x) # {}
      <4>1. /\ Up(ms, x) = RootOf(ms, Max(Over(ms, x))) /\ Up(ms, x).mount = Max(Over(ms, x))
            /\ Up(ms, x).mount > x.mount
        BY <2>4, <3>3, UpRises
      <4>2. Up(new, x) = RootOf(new, Max(Over(ms, x)))
        BY <3>1, <3>3 DEF Up
      <4>3. Max(Over(ms, x)) \in X /\ x.mount \in X
        BY <2>4, <3>1, <4>1 DEF IsPlace
      <4>4. RootOf(new, Max(Over(ms, x))) = RootOf(ms, Max(Over(ms, x)))
        BY <4>3 DEF RootOf, SameFrom
      <4> DEFINE a == x.mount
                 b == Up(ms, x).mount
      <4>5. a \in Nat /\ b \in Nat /\ r \in Nat /\ a >= r /\ b > a
        BY <1>1, <2>4, <4>1, <4>3
      <4>6. RootOf(ms, r).mount = r
        BY DEF RootOf, Place
      <4> HIDE DEF a
      <4>7. b > r /\ b >= r /\ b # r
        BY <4>5
      <4>8. Up(ms, x) # RootOf(ms, r) /\ Up(ms, x).mount >= r
        BY <4>6, <4>7
      <4> QED
        BY <3>1, <4>1, <4>2, <4>4, <4>8
    <3> QED
      BY <3>2, <3>3
  <2> HIDE DEF Fine
  <2>5. ASSUME NEW n \in Nat, n \in S
        PROVE  n + 1 \in S
    <3> SUFFICES ASSUME n + 1 \in 0 .. Len(ms)
                 PROVE  h[n + 1] = g[n + 1] /\ Fine(g[n + 1])
      OBVIOUS
    <3>1. n \in 0 .. Len(ms) /\ n + 1 \in 1 .. Len(ms) /\ (n + 1) - 1 = n
      BY <1>1
    <3>2. h[n] = g[n] /\ Fine(g[n])
      BY <2>5, <3>1
    <3>3. h[n + 1] = Up(new, h[n]) /\ g[n + 1] = Up(ms, g[n])
      BY <2>1, <2>2, <3>1
    <3> QED
      BY <2>4, <3>2, <3>3
  <2> HIDE DEF S
  <2>6. Len(ms) \in S
    BY <1>1, <2>3, <2>5, NatSet
  <2>7. h[Len(ms)] = g[Len(ms)]
    BY <1>1, <2>6 DEF S
  <2> QED
    BY <2>1, <2>2, <2>7
<1> QED
  BY <1>2, <1>3

LEMMA SameViews ==
    ASSUME NEW ms, NEW X, Rising(ms, X), NEW r \in X, NEW new, SameFrom(ms, X, r, new),
           Len(new) = Len(ms), NEW q, Len(q) \in Nat
    PROVE  Walk(new, r, q) = Walk(ms, r, q)
<1>1. r \in Nat /\ \A i \in X : i \in Nat
  BY SeqFacts DEF Rising, Ordered
<1>2. PICK g : Steps(ms, r, q, g) /\ Walk(ms, r, q) = g[Len(q)]
  BY WalkTaken
<1>3. PICK f : Steps(new, r, q, f) /\ Walk(new, r, q) = f[Len(q)]
  BY WalkTaken
<1>4. \A n \in 0 .. Len(q) : IsGood(ms, X, g[n])
  BY <1>2, WalkGood
<1> DEFINE S == {n \in Nat : n \in 0 .. Len(q) => f[n] = g[n] /\ g[n].mount >= r}
<1>5. 0 \in S
  BY <1>1, <1>2, <1>3 DEF Steps, RootOf, Place, SameFrom
<1>6. ASSUME NEW n \in Nat, n \in S
      PROVE  n + 1 \in S
  <2> SUFFICES ASSUME n + 1 \in 0 .. Len(q)
               PROVE  f[n + 1] = g[n + 1] /\ g[n + 1].mount >= r
    OBVIOUS
  <2>1. n \in 0 .. Len(q) /\ n + 1 \in 1 .. Len(q) /\ (n + 1) - 1 = n
    OBVIOUS
  <2> DEFINE y == Place(g[n].mount, Append(g[n].dentry, q[n + 1]))
  <2>2. f[n] = g[n] /\ g[n].mount >= r /\ g[n].mount \in X /\ g[n + 1].mount \in X
    BY <1>4, <1>6, <2>1 DEF IsGood, IsPlace
  <2>3. f[n + 1] = Top(new, y) /\ g[n + 1] = Top(ms, y) /\ g[n + 1] = Enter(ms, g[n], q[n + 1])
    BY <1>2, <1>3, <2>1, <2>2 DEF Steps, Enter
  <2>4. /\ IsPlace(X, y) /\ ~IsRoot(ms, y)
        /\ g[n + 1].mount > g[n].mount \/ g[n + 1] = y
    BY <1>4, <2>1, <2>3, EnterGood
  <2>5. y.mount = g[n].mount
    BY DEF Place
  <2>6. y # RootOf(ms, r)
    BY <2>4 DEF IsRoot, RootOf, Place
  <2> HIDE DEF y
  <2>7. Top(new, y) = Top(ms, y)
    <3>1. y.mount >= r /\ IsPlace(X, y)
      BY <2>2, <2>4, <2>5
    <3> QED
      BY <2>6, <3>1, SameTop
  <2> DEFINE a == g[n].mount
             b == g[n + 1].mount
  <2>8. a \in Nat /\ b \in Nat /\ r \in Nat /\ a >= r /\ (b > a \/ b = a)
    BY <1>1, <2>2, <2>4, <2>5
  <2> HIDE DEF a
  <2>9. b >= r
    BY <2>8
  <2> QED
    BY <2>3, <2>7, <2>9
<1> HIDE DEF S
<1>7. Len(q) \in S
  BY <1>5, <1>6, NatSet
<1>8. f[Len(q)] = g[Len(q)]
  BY <1>7 DEF S
<1> QED
  BY <1>2, <1>3, <1>8

(* Paths that end in one of a set of names, or are empty.                  *)
Ends(d, N) == Len(d) > 0 => d[Len(d)] \in N

(* Every place a mount is at, and every root, has a last name in N.        *)
Signed(ms, N) == \A i \in 1 .. Len(ms) : Ends(ms[i].at, N) /\ Ends(ms[i].root, N)

(* The last name of a place.                                               *)
LEMMA AppendEnds ==
    ASSUME NEW d, IsSeq(d), NEW a, NEW N
    PROVE  Ends(Append(d, a), N) <=> a \in N
<1>1. Len(Append(d, a)) = Len(d) + 1 /\ Append(d, a)[Len(d) + 1] = a /\ Len(d) \in Nat
  BY AppendName, SeqFacts
<1>2. Append(d, a)[Len(Append(d, a))] = a /\ Len(Append(d, a)) > 0
  BY <1>1
<1> QED
  BY <1>2 DEF Ends

(* The last step of a lookup.                                              *)
LEMMA WalkLast ==
    ASSUME NEW ms, NEW X, Rising(ms, X), NEW r \in X, NEW path, Len(path) \in Nat, Len(path) > 0
    PROVE  \E p : IsGood(ms, X, p) /\ Walk(ms, r, path) = Enter(ms, p, path[Len(path)])
<1>1. PICK g : Steps(ms, r, path, g) /\ Walk(ms, r, path) = g[Len(path)]
  BY WalkTaken
<1>2. Len(path) \in 1 .. Len(path) /\ Len(path) - 1 \in 0 .. Len(path)
  OBVIOUS
<1>3. IsGood(ms, X, g[Len(path) - 1])
  BY <1>1, <1>2, WalkGood
<1>4. g[Len(path)] = Enter(ms, g[Len(path) - 1], path[Len(path)])
  BY <1>1, <1>2 DEF Steps
<1> QED
  BY <1>1, <1>3, <1>4

(* A lookup ends at a place whose name is its own or that of a root.       *)
LEMMA WalkEndsIn ==
    ASSUME NEW ms, NEW X, Rising(ms, X), NEW N, Signed(ms, N), NEW r \in X,
           NEW path, Len(path) \in Nat, Ends(path, N)
    PROVE  Ends(Walk(ms, r, path).dentry, N)
<1>1. /\ IsSeq(ms) /\ X \in SUBSET (1 .. Len(ms))
      /\ \A i \in X : Ends(ms[i].root, N)
  BY DEF Rising, Ordered, Signed
<1>2. CASE Len(path) = 0
  <2>1. PICK g : Steps(ms, r, path, g) /\ Walk(ms, r, path) = g[Len(path)]
    BY WalkTaken
  <2>2. Walk(ms, r, path) = RootOf(ms, r)
    BY <1>2, <2>1 DEF Steps
  <2> QED
    BY <1>1, <2>2 DEF RootOf, Place
<1>3. CASE Len(path) > 0
  <2>1. PICK p : IsGood(ms, X, p) /\ Walk(ms, r, path) = Enter(ms, p, path[Len(path)])
    BY <1>3, WalkLast
  <2> DEFINE y == Place(p.mount, Append(p.dentry, path[Len(path)]))
             z == Walk(ms, r, path)
  <2>2. z = Top(ms, y) /\ IsGood(ms, X, z)
    BY <2>1, EnterGood DEF Enter
  <2>3. z = y \/ IsRoot(ms, z)
    BY <1>1, <2>2, TopIsRoot
  <2>4. IsSeq(p.dentry) /\ y.dentry = Append(p.dentry, path[Len(path)])
    BY <2>1 DEF IsGood, Place
  <2>5. path[Len(path)] \in N
    BY <1>3 DEF Ends
  <2>6. Ends(y.dentry, N)
    BY <2>4, <2>5, AppendEnds
  <2>7. z.mount \in X
    BY <2>2 DEF IsGood, IsPlace
  <2> HIDE DEF y, z
  <2>8. Ends(z.dentry, N)
    BY <1>1, <2>3, <2>6, <2>7 DEF IsRoot
  <2> QED
    BY <2>8 DEF z
<1> QED
  BY <1>2, <1>3

(* Nothing is mounted at a name no mount has.                              *)
LEMMA FreeName ==
    ASSUME NEW ms, NEW X, Rising(ms, X), NEW N, Signed(ms, N), NEW r \in X,
           NEW path, Len(path) \in Nat, Len(path) > 0, path[Len(path)] \notin N
    PROVE  ~IsRoot(ms, Walk(ms, r, path))
<1>1. IsSeq(ms) /\ \A i \in 1 .. Len(ms) : Ends(ms[i].at, N)
  BY DEF Rising, Signed
<1>2. PICK p : IsGood(ms, X, p) /\ Walk(ms, r, path) = Enter(ms, p, path[Len(path)])
  BY WalkLast
<1> DEFINE y == Place(p.mount, Append(p.dentry, path[Len(path)]))
<1>3. IsPlace(X, y) /\ ~IsRoot(ms, y) /\ Walk(ms, r, path) = Top(ms, y)
  BY <1>2, EnterGood DEF Enter
<1>4. IsSeq(p.dentry) /\ y.dentry = Append(p.dentry, path[Len(path)])
  BY <1>2 DEF IsGood, Place
<1>5. ~Ends(y.dentry, N)
  BY <1>4, AppendEnds
<1> HIDE DEF y
<1>6. Over(ms, y) = {}
  <2>1. DOMAIN ms = 1 .. Len(ms)
    BY <1>1, SeqFacts
  <2> QED
    BY <1>1, <1>5, <2>1 DEF Over, Children, Mounted
<1>7. Top(ms, y) = y
  BY <1>6 DEF Top
<1> QED
  BY <1>3, <1>7

(* What is mounted at such places keeps the names.                         *)
LEMMA SignedGrows ==
    ASSUME NEW ms, NEW X, NEW to, NEW tree, NEW new, Grows(ms, X, to, tree, new),
           NEW N, Signed(ms, N), Ends(to.dentry, N),
           \A i \in 1 .. Len(tree) : Ends(tree[i].root, N),
           \A i \in 2 .. Len(tree) : Ends(tree[i].at, N)
    PROVE  Signed(new, N)
<1>1. /\ Len(ms) \in Nat /\ Len(tree) \in Nat /\ Len(new) = Len(ms) + Len(tree)
      /\ \A i \in 1 .. Len(ms) : new[i] = ms[i]
  BY GrownOver DEF Grows
<1>2. ASSUME NEW i \in 1 .. Len(tree)
      PROVE  Ends(new[Len(ms) + i].at, N) /\ Ends(new[Len(ms) + i].root, N)
  <2>1. /\ new[Len(ms) + i].root = tree[i].root
        /\ i = 1 => new[Len(ms) + i].at = to.dentry
        /\ i # 1 => new[Len(ms) + i].at = tree[i].at
    BY DEF Grows
  <2>2. i = 1 \/ i \in 2 .. Len(tree)
    BY <1>1
  <2> QED
    BY <2>1, <2>2
<1>3. ASSUME NEW i \in 1 .. Len(new)
      PROVE  Ends(new[i].at, N) /\ Ends(new[i].root, N)
  <2>1. i \in 1 .. Len(ms) \/ \E j \in 1 .. Len(tree) : i = Len(ms) + j
    <3>1. CASE i > Len(ms)
      <4>1. i - Len(ms) \in 1 .. Len(tree) /\ i = Len(ms) + (i - Len(ms))
        BY <1>1, <3>1
      <4> QED
        BY <4>1
    <3> QED
      BY <1>1, <3>1
  <2> QED
    BY <1>1, <1>2, <2>1 DEF Signed
<1> QED
  BY <1>3 DEF Signed

LEMMA SignedBind ==
    ASSUME NEW ms, NEW X, Rising(ms, X), Records(ms), NEW N, Signed(ms, N),
           NEW from, IsPlace(X, from), IsSeq(from.dentry), Ends(from.dentry, N),
           NEW to, IsPlace(X, to), ms[to.mount].group = 0, Ends(to.dentry, N), NEW rec
    PROVE  Signed(Bind(ms, from, to, rec), N)
<1> DEFINE tree == Clone(ms, from, rec)
           new == Bind(ms, from, to, rec)
           ids == Taken(ms, from, rec)
<1>1. X \in SUBSET (1 .. Len(ms)) /\ from.mount \in X /\ IsSeq(ms)
  BY DEF Rising, Ordered, IsPlace
<1>2. Binds(ms, X, from, to, tree, new)
  BY BindGrows
<1>3. \A i \in 1 .. Len(tree) : ids[i] \in X
  BY <1>1, CloneRises
<1>4. \A i \in 1 .. Len(tree) : /\ i = 1 => tree[i].root = from.dentry
                                /\ i # 1 => tree[i].root = ms[ids[i]].root
  <2>1. from.mount \in 1 .. Len(ms)
    BY <1>1
  <2> QED
    BY <1>1, <2>1, CloneShape
<1> HIDE DEF tree, new, ids
<1>5. \A i \in 1 .. Len(tree) : Ends(tree[i].root, N)
  BY <1>1, <1>3, <1>4 DEF Signed
<1>6. \A i \in 2 .. Len(tree) : Ends(tree[i].at, N)
  BY <1>1, <1>2 DEF Signed, Binds
<1>7. Grows(ms, X, to, tree, new)
  BY <1>2 DEF Binds
<1>8. Signed(new, N)
  BY <1>5, <1>6, <1>7, SignedGrows
<1> QED
  BY <1>8 DEF new

(* Path q leads from s where p led from r before, to the same file; and it *)
(* can be written if it could.                                             *)
Sight(ms, r, p, new, s, q) ==
    /\ Walk(new, s, q) = Walk(ms, r, p)
    /\ new[Walk(ms, r, p).mount].fs = ms[Walk(ms, r, p).mount].fs

Still(ms, r, p, new, s, q) ==
    /\ Sight(ms, r, p, new, s, q)
    /\ new[Walk(ms, r, p).mount].ro = ms[Walk(ms, r, p).mount].ro

LEMMA GrownStill ==
    ASSUME NEW ms, NEW X, NEW to, NEW tree, NEW new, Grows(ms, X, to, tree, new),
           NEW r \in X, NEW path, Len(path) \in Nat, Len(path) > 0, to = Walk(ms, r, path),
           NEW q, Len(q) \in Nat, ~Leads(path, q)
    PROVE  /\ Still(ms, r, q, new, r, q) /\ Walk(ms, r, q).mount \in 1 .. Len(ms)
           /\ new[Walk(ms, r, q).mount] = ms[Walk(ms, r, q).mount]
<1>1. Walk(new, r, q) = Walk(ms, r, q)
  BY GrownWalk
<1>2. Rising(ms, X) /\ \A i \in 1 .. Len(ms) : new[i] = ms[i]
  BY DEF Grows
<1>3. X \in SUBSET (1 .. Len(ms)) /\ IsGood(ms, X, Walk(ms, r, q))
  BY <1>2, WalkEnds DEF Rising, Ordered
<1>4. Walk(ms, r, q).mount \in 1 .. Len(ms)
  BY <1>3 DEF IsGood, IsPlace
<1> QED
  BY <1>1, <1>2, <1>4 DEF Still, Sight

-----------------------------------------------------------------------------
(* What the operations make of a table of mounts is one again.             *)

(* The places of a table.                                                  *)
Spot(ms) == [mount : DOMAIN ms, dentry : Seq(STRING)]

(* The fields of a mount.                                                  *)
LEMMA MountFields ==
    ASSUME NEW m \in Mount
    PROVE  /\ m.ns \in {"host", "container", "none"} /\ m.fs \in STRING
           /\ m.at \in Seq(STRING) /\ m.root \in Seq(STRING)
           /\ m.parent \in Nat /\ m.group \in Nat /\ m.master \in Nat
           /\ DOMAIN m = Fields
BY DEF Mount, Fields

(* A mount with other fields, as the operations change them.               *)
LEMMA MountUpdates ==
    ASSUME NEW m \in Mount
    PROVE  /\ [m EXCEPT !.ro = TRUE] \in Mount
           /\ [m EXCEPT !.ns = "none"] \in Mount
           /\ [m EXCEPT !.parent = 0] \in Mount
           /\ \A parent \in Nat, at \in Seq(STRING) :
                 /\ [m EXCEPT !.parent = parent, !.at = at] \in Mount
                 /\ [m EXCEPT !.root = at, !.parent = parent] \in Mount
           /\ \A parent \in Nat : [m EXCEPT !.ns = "container", !.parent = parent] \in Mount
           /\ \A group \in Nat : [m EXCEPT !.group = group, !.unbindable = FALSE] \in Mount
           /\ \A master \in Nat :
                 [m EXCEPT !.group = 0, !.unbindable = FALSE, !.master = master] \in Mount
           /\ [m EXCEPT !.group = 0, !.master = 0, !.unbindable = TRUE] \in Mount
           /\ [m EXCEPT !.group = 0, !.master = 0, !.unbindable = FALSE] \in Mount
           /\ \A ns \in {"host", "container", "none"}, at \in Seq(STRING),
                 parent, group, master \in Nat :
                 [m EXCEPT !.ns = ns, !.at = at, !.parent = parent, !.group = group,
                           !.master = master] \in Mount
           /\ \A parent, group \in Nat, at \in Seq(STRING) :
                 [m EXCEPT !.ns = "host", !.parent = parent, !.at = at, !.group = group] \in Mount
BY DEF Mount

(* A function on an initial segment of the numbers, with its values.       *)
LEMMA SegmentSeq ==
    ASSUME NEW n \in Nat, NEW S, NEW f, DOMAIN f = 1 .. n, f = [i \in DOMAIN f |-> f[i]],
           \A i \in 1 .. n : f[i] \in S
    PROVE  f \in Seq(S) /\ Len(f) = n
<1>1. f \in [1 .. n -> S]
  OBVIOUS
<1>2. f \in Seq(S)
  BY <1>1, SeqDef
<1>3. Len(f) \in Nat /\ DOMAIN f = 1 .. Len(f)
  BY <1>2, LenProperties
<1> QED
  BY <1>2, <1>3

(* Short sequences.                                                        *)
LEMMA Tuples ==
    ASSUME NEW S, NEW a \in S, NEW b \in S, NEW c \in S
    PROVE  <<>> \in Seq(S) /\ <<a>> \in Seq(S) /\ <<a, b>> \in Seq(S) /\ <<a, b, c>> \in Seq(S)
OBVIOUS

(* What a table of mounts is.                                              *)
LEMMA TableFacts ==
    ASSUME NEW ms \in Seq(Mount)
    PROVE  /\ IsSeq(ms) /\ Records(ms) /\ Len(ms) \in Nat /\ DOMAIN ms = 1 .. Len(ms)
           /\ \A i \in 1 .. Len(ms) : ms[i] \in Mount
<1>1. Len(ms) \in Nat /\ DOMAIN ms = 1 .. Len(ms) /\ \A i \in 1 .. Len(ms) : ms[i] \in Mount
  BY LenProperties, ElementOfSeq
<1> QED
  BY <1>1, MountFields, EverySeq DEF Records

(* A lookup ends at a place of the table.                                  *)
LEMMA TopSpot ==
    ASSUME NEW ms \in Seq(Mount), NEW p \in Spot(ms)
    PROVE  Top(ms, p) \in Spot(ms)
<1>0. /\ IsSeq(ms) /\ Len(ms) \in Nat /\ DOMAIN ms = 1 .. Len(ms)
      /\ \A i \in 1 .. Len(ms) : ms[i] \in Mount
  BY TableFacts
<1> SUFFICES ASSUME Over(ms, p) # {}
             PROVE  Top(ms, p) \in Spot(ms)
  BY DEF Top
<1>1. PICK g : /\ g[0] = p
               /\ \A n \in 1 .. Len(ms) : g[n] = Up(ms, g[n - 1])
               /\ Top(ms, p) = g[Len(ms)]
  BY <1>0, TopSteps
<1>2. ASSUME NEW q \in Spot(ms)
      PROVE  Up(ms, q) \in Spot(ms)
  <2>1. CASE Over(ms, q) = {}
    BY <2>1 DEF Up
  <2>2. CASE Over(ms, q) # {}
    <3>1. Over(ms, q) \in SUBSET (1 .. Len(ms))
      BY <1>0 DEF Over, Children, Mounted
    <3>2. Max(Over(ms, q)) \in 1 .. Len(ms)
      BY <1>0, <2>2, <3>1, MaxIn
    <3>3. \A i \in 1 .. Len(ms) : RootOf(ms, i) \in Spot(ms)
      BY <1>0, MountFields DEF RootOf, Place, Spot
    <3> QED
      BY <2>2, <3>2, <3>3 DEF Up
  <2> QED
    BY <2>1, <2>2
<1> DEFINE S == {n \in Nat : n \in 0 .. Len(ms) => g[n] \in Spot(ms)}
<1>3. 0 \in S
  BY <1>1
<1>4. ASSUME NEW n \in Nat, n \in S
      PROVE  n + 1 \in S
  <2>1. CASE n + 1 \in 0 .. Len(ms)
    <3>1. n + 1 \in 1 .. Len(ms) /\ (n + 1) - 1 = n /\ n \in 0 .. Len(ms)
      BY <1>0, <2>1
    <3>2. g[n + 1] = Up(ms, g[n]) /\ g[n] \in Spot(ms)
      BY <1>1, <1>4, <3>1
    <3> QED
      BY <1>2, <3>2
  <2> QED
    BY <2>1
<1> HIDE DEF S
<1>5. Len(ms) \in S /\ Len(ms) \in 0 .. Len(ms)
  BY <1>0, <1>3, <1>4, NatSet
<1> QED
  BY <1>1, <1>5 DEF S

(* So does the lookup of a path.                                           *)
LEMMA WalkSpot ==
    ASSUME NEW ms \in Seq(Mount), NEW r \in DOMAIN ms, NEW path \in Seq(STRING)
    PROVE  Walk(ms, r, path) \in Spot(ms)
<1>0. /\ DOMAIN ms = 1 .. Len(ms) /\ ms[r] \in Mount
      /\ Len(path) \in Nat /\ \A n \in 1 .. Len(path) : path[n] \in STRING
  BY TableFacts, LenProperties, ElementOfSeq
<1>1. PICK g : /\ g[0] = RootOf(ms, r)
               /\ \A n \in 1 .. Len(path) : g[n] = Enter(ms, g[n - 1], path[n])
               /\ Walk(ms, r, path) = g[Len(path)]
  BY <1>0, WalkSteps
<1>2. ASSUME NEW q \in Spot(ms), NEW name \in STRING
      PROVE  Enter(ms, q, name) \in Spot(ms)
  <2>1. q.mount \in DOMAIN ms /\ q.dentry \in Seq(STRING)
    BY DEF Spot
  <2>2. Append(q.dentry, name) \in Seq(STRING)
    BY <2>1, AppendProperties
  <2>3. Place(q.mount, Append(q.dentry, name)) \in Spot(ms)
    BY <2>1, <2>2 DEF Place, Spot
  <2> QED
    BY <2>3, TopSpot DEF Enter
<1> DEFINE S == {n \in Nat : n \in 0 .. Len(path) => g[n] \in Spot(ms)}
<1>3. 0 \in S
  BY <1>0, <1>1, MountFields DEF RootOf, Place, Spot
<1>4. ASSUME NEW n \in Nat, n \in S
      PROVE  n + 1 \in S
  <2>1. CASE n + 1 \in 0 .. Len(path)
    <3>1. n + 1 \in 1 .. Len(path) /\ (n + 1) - 1 = n /\ n \in 0 .. Len(path)
      BY <1>0, <2>1
    <3>2. g[n + 1] = Enter(ms, g[n], path[n + 1]) /\ g[n] \in Spot(ms)
      BY <1>1, <1>4, <3>1
    <3>3. path[n + 1] \in STRING
      BY <1>0, <3>1
    <3>4. g[n + 1] \in Spot(ms)
      BY <1>2, <3>2, <3>3
    <3> QED
      BY <3>4
  <2> QED
    BY <2>1
<1> HIDE DEF S
<1>5. Len(path) \in S /\ Len(path) \in 0 .. Len(path)
  BY <1>0, <1>3, <1>4, NatSet
<1> QED
  BY <1>1, <1>5 DEF S

(* A change of every mount of a table.                                     *)
LEMMA MapTable ==
    ASSUME NEW ms \in Seq(Mount), NEW new, DOMAIN new = DOMAIN ms,
           new = [i \in DOMAIN new |-> new[i]],
           \A i \in 1 .. Len(ms) : new[i] \in Mount
    PROVE  new \in Seq(Mount) /\ Len(new) = Len(ms)
BY TableFacts, SegmentSeq

(* A change of kind, of flags or of namespace, and the pivot.              *)
LEMMA SetKindTable ==
    ASSUME NEW ms \in Seq(Mount), NEW U, NEW kind
    PROVE  SetKind(ms, U, kind) \in Seq(Mount) /\ Len(SetKind(ms, U, kind)) = Len(ms)
<1> DEFINE new == SetKind(ms, U, kind)
<1>1. DOMAIN ms = 1 .. Len(ms) /\ \A i \in 1 .. Len(ms) : ms[i] \in Mount
  BY TableFacts
<1>2. DOMAIN new = DOMAIN ms /\ new = [i \in DOMAIN new |-> new[i]]
  BY DEF SetKind
<1>3. ASSUME NEW i \in 1 .. Len(ms)
      PROVE  new[i] \in Mount
  <2> DEFINE m == ms[i]
             peers == {j \in Mounted(ms) \ U : ms[j].group = m.group}
  <2>1. m \in Mount /\ i \in Nat
    BY <1>1
  <2>2. CASE i \notin U
    BY <1>1, <2>2 DEF SetKind
  <2>3. CASE i \in U /\ kind = "shared"
    <3> DEFINE group == IF m.group = 0 THEN i ELSE m.group
    <3>1. new[i] = [m EXCEPT !.group = group, !.unbindable = FALSE]
      BY <1>1, <2>3 DEF SetKind
    <3>2. group \in Nat
      BY <2>1, MountFields
    <3> HIDE DEF new, m, group
    <3>3. [m EXCEPT !.group = group, !.unbindable = FALSE] \in Mount
      BY <2>1, <3>2, MountUpdates, Zenon
    <3> QED
      BY <3>1, <3>3
  <2>4. CASE i \in U /\ kind = "slave"
    <3> DEFINE master == IF m.group # 0 /\ peers # {} THEN m.group ELSE m.master
    <3>1. new[i] = [m EXCEPT !.group = 0, !.unbindable = FALSE, !.master = master]
      BY <1>1, <2>4 DEF SetKind
    <3>2. master \in Nat
      BY <2>1, MountFields
    <3> HIDE DEF new, m, peers, master
    <3>3. [m EXCEPT !.group = 0, !.unbindable = FALSE, !.master = master] \in Mount
      BY <2>1, <3>2, MountUpdates, Zenon
    <3> QED
      BY <3>1, <3>3
  <2>5. CASE i \in U /\ kind \notin {"shared", "slave"}
    <3>1. new[i] = [m EXCEPT !.group = 0, !.master = 0, !.unbindable = (kind = "unbindable")]
      BY <1>1, <2>5 DEF SetKind
    <3> HIDE DEF new, m
    <3>2. CASE kind = "unbindable"
      <4>1. (kind = "unbindable") = TRUE
        BY <3>2
      <4> QED
        BY <2>1, <3>1, <4>1, MountUpdates
    <3>3. CASE kind # "unbindable"
      <4>1. (kind = "unbindable") = FALSE
        BY <3>3
      <4> QED
        BY <2>1, <3>1, <4>1, MountUpdates
    <3> QED
      BY <3>2, <3>3
  <2> QED
    BY <2>2, <2>3, <2>4, <2>5
<1> HIDE DEF new
<1> QED
  BY <1>2, <1>3, MapTable DEF new

LEMMA SetReadonlyTable ==
    ASSUME NEW ms \in Seq(Mount), NEW U
    PROVE  SetReadonly(ms, U) \in Seq(Mount) /\ Len(SetReadonly(ms, U)) = Len(ms)
<1> DEFINE new == SetReadonly(ms, U)
<1>1. DOMAIN ms = 1 .. Len(ms) /\ \A i \in 1 .. Len(ms) : ms[i] \in Mount
  BY TableFacts
<1>2. DOMAIN new = DOMAIN ms /\ new = [i \in DOMAIN new |-> new[i]]
  BY DEF SetReadonly
<1>3. \A i \in 1 .. Len(ms) : new[i] \in Mount
  BY <1>1, MountUpdates DEF SetReadonly
<1> HIDE DEF new
<1> QED
  BY <1>2, <1>3, MapTable DEF new

LEMMA ForgetTable ==
    ASSUME NEW ms \in Seq(Mount), NEW U
    PROVE  Forget(ms, U) \in Seq(Mount) /\ Len(Forget(ms, U)) = Len(ms)
<1> DEFINE new == Forget(ms, U)
<1>1. DOMAIN ms = 1 .. Len(ms) /\ \A i \in 1 .. Len(ms) : ms[i] \in Mount
  BY TableFacts
<1>2. DOMAIN new = DOMAIN ms /\ new = [i \in DOMAIN new |-> new[i]]
  BY DEF Forget
<1>3. \A i \in 1 .. Len(ms) : new[i] \in Mount
  BY <1>1, MountUpdates DEF Forget
<1> HIDE DEF new
<1> QED
  BY <1>2, <1>3, MapTable DEF new

LEMMA PivotTable ==
    ASSUME NEW ms \in Seq(Mount), NEW old \in DOMAIN ms, NEW new \in DOMAIN ms
    PROVE  Pivot(ms, old, new) \in Seq(Mount) /\ Len(Pivot(ms, old, new)) = Len(ms)
<1> DEFINE after == Pivot(ms, old, new)
<1>1. DOMAIN ms = 1 .. Len(ms) /\ \A i \in 1 .. Len(ms) : ms[i] \in Mount
  BY TableFacts
<1>2. DOMAIN after = DOMAIN ms /\ after = [i \in DOMAIN after |-> after[i]]
  BY DEF Pivot
<1> DEFINE top == [ms EXCEPT ![new] = [ms[new] EXCEPT !.parent = 0]]
<1>3. ms[new].root \in Seq(STRING) /\ new \in Nat
  BY <1>1, MountFields
<1>4. DOMAIN top = 1 .. Len(ms) /\ \A i \in 1 .. Len(ms) : top[i] \in Mount
  BY <1>1, MountUpdates
<1>5. after = [top EXCEPT ![old] = [top[old] EXCEPT !.parent = new, !.at = ms[new].root]]
  BY <1>1 DEF Pivot
<1> HIDE DEF top
<1>6. [top[old] EXCEPT !.parent = new, !.at = ms[new].root] \in Mount
  BY <1>1, <1>3, <1>4, MountUpdates
<1>7. \A i \in 1 .. Len(ms) : after[i] \in Mount
  BY <1>1, <1>4, <1>5, <1>6
<1> HIDE DEF after
<1> QED
  BY <1>2, <1>7, MapTable DEF after

(* What is attached is a table of mounts, with those there were before it. *)
LEMMA AttachTable ==
    ASSUME NEW ms \in Seq(Mount), NEW p \in Spot(ms), NEW tree \in Seq(Mount)
    PROVE  Attach(ms, p, tree) \in Seq(Mount) /\ Len(Attach(ms, p, tree)) >= Len(ms)
<1> DEFINE M == Len(Targets(ms, p))
           L == Len(tree)
           new == Copies(ms, p, tree)
<1>0. /\ DOMAIN ms = 1 .. Len(ms) /\ Len(ms) \in Nat /\ IsSeq(ms)
      /\ \A i \in 1 .. Len(ms) : ms[i] \in Mount
      /\ \A i \in 1 .. L : tree[i] \in Mount
      /\ L \in Nat /\ IsSeq(tree)
      /\ p.mount \in 1 .. Len(ms) /\ p.dentry \in Seq(STRING)
  BY TableFacts DEF Spot
<1>1. Targets(ms, p) \in Seq(1 .. Len(ms))
  <2>1. Listed(ms, Receivers(ms, p.mount, p.dentry)) \in Seq(1 .. Len(ms))
    <3>1. Receivers(ms, p.mount, p.dentry) \cap (1 .. Len(ms)) \subseteq 1 .. Len(ms)
      OBVIOUS
    <3> QED
      BY <1>0, <3>1, ListedFacts, SeqMonotonic
  <2>2. <<p.mount>> \in Seq(1 .. Len(ms))
    BY <1>0
  <2> QED
    BY <2>1, <2>2, ConcatProperties DEF Targets
<1>2. M \in Nat /\ \A k \in 1 .. M : Targets(ms, p)[k] \in 1 .. Len(ms)
  BY <1>1, LenProperties, ElementOfSeq
<1>3. DOMAIN new = 1 .. M * L /\ new = [n \in DOMAIN new |-> new[n]] /\ M * L \in Nat
  <2>1. M * L \in Nat
    BY <1>0, <1>2
  <2> QED
    BY <2>1 DEF Copies
<1>4. ASSUME NEW n \in 1 .. M * L
      PROVE  new[n] \in Mount
  <2> DEFINE c == (n - 1) \div L
             k == ((n - 1) % L) + 1
             t == Targets(ms, p)[c + 1]
             base == Len(ms) + c * L
  <2>1. k \in 1 .. L /\ c + 1 \in 1 .. M /\ c * L \in Nat
    <3>1. n - 1 \in Nat /\ n - 1 < M * L
      BY <1>3
    <3> HIDE DEF M, L
    <3>2. L > 0
      BY <1>0, <1>2, <3>1
    <3>3. k \in 1 .. L
      BY <1>0, <3>1, <3>2
    <3>4. c \in Nat /\ L * c <= n - 1
      BY <1>0, <3>1, <3>2
    <3> HIDE DEF c
    <3>5. L * c < M * L
      BY <1>0, <1>2, <3>1, <3>4
    <3>6. c < M
      BY <1>0, <1>2, <3>2, <3>4, <3>5
    <3>7. c * L \in Nat
      BY <1>0, <3>4
    <3> QED
      BY <1>0, <1>2, <3>3, <3>4, <3>6, <3>7
  <2>2. new[n] = Copy(ms, p, tree, t, k, base)
    BY DEF Copies
  <2>3. tree[k] \in Mount /\ t \in 1 .. Len(ms) /\ base \in Nat /\ k \in Nat
    <3> HIDE DEF M, L, c, k
    <3>1. base \in Nat
      BY <1>0, <2>1
    <3>2. t \in 1 .. Len(ms)
      BY <1>2, <2>1
    <3>3. k \in Nat /\ tree[k] \in Mount
      BY <1>0, <2>1
    <3> QED
      BY <3>1, <3>2, <3>3
  <2> HIDE DEF new, k, t, base, c, M, L
  <2>4. ms[t] \in Mount /\ ms[p.mount] \in Mount /\ Len(ms) + k \in Nat /\ t \in Nat
    BY <1>0, <2>3
  <2>5. /\ tree[k].group \in Nat /\ tree[k].parent \in Nat /\ tree[k].master \in Nat
        /\ base + tree[k].parent \in Nat
        /\ ms[t].ns \in {"host", "container", "none"}
        /\ tree[k].at \in Seq(STRING)
    <3>1. /\ tree[k].group \in Nat /\ tree[k].parent \in Nat /\ tree[k].master \in Nat
          /\ tree[k].at \in Seq(STRING)
      BY <2>3, MountFields
    <3>2. ms[t].ns \in {"host", "container", "none"}
      BY <2>4, MountFields
    <3> QED
      BY <2>3, <3>1, <3>2
  <2> DEFINE group == IF ms[p.mount].group # 0 /\ tree[k].group = 0 THEN Len(ms) + k
                      ELSE tree[k].group
             slave == ms[t].group # ms[p.mount].group
             at == IF k = 1 THEN p.dentry ELSE tree[k].at
             parent == IF k = 1 THEN t ELSE base + tree[k].parent
             own == IF slave THEN 0 ELSE group
             master == IF slave THEN group ELSE tree[k].master
  <2>6. new[n] = [tree[k] EXCEPT !.ns = ms[t].ns, !.at = at, !.parent = parent,
                                 !.group = own, !.master = master]
    BY <2>2 DEF Copy
  <2>7. at \in Seq(STRING) /\ parent \in Nat /\ own \in Nat /\ master \in Nat
    BY <1>0, <2>4, <2>5
  <2> HIDE DEF at, parent, own, master
  <2>8. [tree[k] EXCEPT !.ns = ms[t].ns, !.at = at, !.parent = parent, !.group = own,
                        !.master = master] \in Mount
    BY <2>3, <2>5, <2>7, MountUpdates, Zenon
  <2> QED
    BY <2>6, <2>8
<1>5. new \in Seq(Mount) /\ Len(new) = M * L
  <2> HIDE DEF new, M, L
  <2> QED
    BY <1>3, <1>4, SegmentSeq
<1> HIDE DEF new, M, L
<1>6. ms \o new \in Seq(Mount) /\ Len(ms \o new) = Len(ms) + Len(new)
  BY <1>5, ConcatProperties
<1>7. Attach(ms, p, tree) = ms \o new
  BY DEF Attach, new
<1> QED
  BY <1>0, <1>3, <1>5, <1>6, <1>7

(* So is what a bind mount takes: every mount of it but the first is on    *)
(* another that is taken.                                                  *)
LEMMA CloneTable ==
    ASSUME NEW ms \in Seq(Mount), NEW p \in Spot(ms), NEW rec
    PROVE  Clone(ms, p, rec) \in Seq(Mount)
<1> DEFINE ids == Taken(ms, p, rec)
           tree == Clone(ms, p, rec)
<1>0. /\ IsSeq(ms) /\ Records(ms) /\ p.mount \in 1 .. Len(ms) /\ p.dentry \in Seq(STRING)
      /\ \A i \in 1 .. Len(ms) : ms[i] \in Mount
  BY TableFacts DEF Spot
<1>1. /\ IsSeq(tree)
      /\ \A i \in 1 .. Len(tree) :
            /\ ids[i] \in 1 .. Len(ms)
            /\ i # 1 => tree[i].parent \in 1 .. Len(tree)
  BY <1>0, CloneShape
<1>2. Len(tree) \in Nat /\ DOMAIN tree = 1 .. Len(tree) /\ tree = [i \in DOMAIN tree |-> tree[i]]
  <2>1. tree = [i \in DOMAIN tree |-> tree[i]]
    BY DEF Clone
  <2> QED
    BY <1>1, <2>1, SeqFacts
<1>3. ASSUME NEW i \in 1 .. Len(tree)
      PROVE  tree[i] \in Mount
  <2> DEFINE m == ms[ids[i]]
             up == IF i = 1 THEN 0 ELSE CHOOSE j \in DOMAIN ids : ids[j] = m.parent
             at == IF i = 1 THEN p.dentry ELSE m.root
  <2>1. DOMAIN tree = DOMAIN ids
    BY DEF Clone
  <2>2. tree[i] = [m EXCEPT !.root = at, !.parent = up]
    <3>1. i \in DOMAIN ids
      BY <1>2, <2>1
    <3> QED
      BY <3>1 DEF Clone
  <2>3. m \in Mount
    BY <1>0, <1>1
  <2>4. at \in Seq(STRING)
    BY <1>0, <2>3, MountFields
  <2>5. up \in Nat
    <3>1. CASE i = 1
      BY <3>1
    <3>2. CASE i # 1
      <4>1. tree[i].parent \in Nat
        BY <1>1, <3>2
      <4> HIDE DEF up, at, m, tree, ids
      <4>2. tree[i].parent = up
        BY <2>2, <2>3, MountFields DEF Fields
      <4> QED
        BY <4>1, <4>2
    <3> QED
      BY <3>1, <3>2
  <2> HIDE DEF up, at, m, tree, ids
  <2>6. [m EXCEPT !.root = at, !.parent = up] \in Mount
    BY <2>3, <2>4, <2>5, MountUpdates, Zenon
  <2> QED
    BY <2>2, <2>6
<1> HIDE DEF tree, ids
<1>4. tree \in Seq(Mount)
  BY <1>2, <1>3, SegmentSeq
<1> QED
  BY <1>4 DEF tree

(* A bind mount attaches what it takes.                                    *)
LEMMA BindTable ==
    ASSUME NEW ms \in Seq(Mount), NEW from \in Spot(ms), NEW to \in Spot(ms), NEW rec
    PROVE  Bind(ms, from, to, rec) \in Seq(Mount) /\ Len(Bind(ms, from, to, rec)) >= Len(ms)
BY CloneTable, AttachTable DEF Bind

=============================================================================
