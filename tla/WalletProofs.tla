---------------------------- MODULE WalletProofs ----------------------------
(***************************************************************************)
(* Theorems about Wallet: the blocks a wallet has processed are one chain  *)
(* and the ids it keeps are theirs; its records are what a scan of that    *)
(* chain finds; marks are explained and selections stay valid.             *)
(***************************************************************************)
EXTENDS Wallet, FiniteSetTheorems, SequenceTheorems, WellFoundedInduction, TLAPS

-----------------------------------------------------------------------------
(* Numbers. *)

\* A set of natural numbers has a smallest element: the intervals 1..m are well
\* founded under strict inclusion.
LEMMA LeastElement ==
  ASSUME NEW T \in SUBSET Nat, T # {}
  PROVE  \E m \in T : \A k \in T : ~(k < m)
<1> DEFINE F == { 1..m : m \in T }
<1>1. \A m \in T : 1..m \in FiniteSubsetsOf(Nat)
  <2> TAKE m \in T
  <2>1. IsFiniteSet(1..m) /\ 1..m \subseteq Nat
    BY FS_Interval
  <2> QED BY <2>1 DEF FiniteSubsetsOf
<1>2. F \subseteq FiniteSubsetsOf(Nat) /\ F # {}
  BY <1>1
<1> DEFINE R == StrictSubsetOrdering(Nat)
<1>3. IsWellFoundedOn(R, FiniteSubsetsOf(Nat))
  BY FS_StrictSubsetOrderingWellFounded
<1>4. PICK X \in F : \A Y \in F : ~(<< Y, X >> \in R)
  <2> HIDE DEF F, R
  <2> QED BY <1>2, <1>3, WFMin
<1>5. PICK m \in T : X = 1..m
  OBVIOUS
<1>6. ASSUME NEW k \in T, k < m PROVE FALSE
  <2>1. 1..k \in F /\ 1..k \subseteq Nat /\ 1..m \subseteq Nat
    OBVIOUS
  <2>2. \A i \in 1..k : i \in 1..m
    BY <1>6
  <2>3. m \in 1..m /\ m \notin 1..k
    BY <1>6
  <2>4. 1..k \subseteq 1..m /\ 1..k # 1..m
    BY <2>2, <2>3
  <2> DEFINE x == 1..k
  <2> DEFINE y == 1..m
  <2>5. << x, y >> \in R
    <3>1. x \subseteq Nat /\ y \subseteq Nat /\ x \subseteq y /\ x # y
      BY <2>1, <2>4
    <3> HIDE DEF x, y
    <3> QED BY <3>1 DEF StrictSubsetOrdering
  <2> QED BY <1>4, <1>5, <2>1, <2>5
<1> QED BY <1>6

\* Induction, for a set of natural numbers.
LEMMA NatSetInduction ==
  ASSUME NEW S, 0 \in S, \A n \in Nat : n \in S => n + 1 \in S
  PROVE  Nat \subseteq S
<1> SUFFICES ASSUME NEW x \in Nat, x \notin S PROVE FALSE
  OBVIOUS
<1> DEFINE T == Nat \ S
<1>1. T \in SUBSET Nat /\ T # {}
  OBVIOUS
<1>2. PICK m \in T : \A k \in T : ~(k < m)
  <2> HIDE DEF T
  <2> QED BY <1>1, LeastElement
<1>3. m \in Nat /\ m # 0 /\ m \notin S
  OBVIOUS
<1>4. m - 1 \in Nat /\ m - 1 < m /\ (m - 1) + 1 = m
  BY <1>3
<1>5. m - 1 \in S
  BY <1>2, <1>4
<1> QED BY <1>3, <1>4, <1>5

\* A finite set of natural numbers has a greatest element.
LEMMA GreatestElement ==
  ASSUME NEW T \in SUBSET Nat, T # {}, NEW n \in Nat, \A k \in T : k <= n
  PROVE  Max(T) \in T /\ \A k \in T : k <= Max(T)
<1> DEFINE U == { n - k : k \in T }
<1>1. U \in SUBSET Nat /\ U # {}
  <2>1. \A k \in T : n - k \in Nat
    OBVIOUS
  <2> QED BY <2>1
<1>2. PICK m \in U : \A k \in U : ~(k < m)
  <2> HIDE DEF U
  <2> QED BY <1>1, LeastElement
<1>3. PICK x \in T : m = n - x
  OBVIOUS
<1>4. \A k \in T : x >= k
  <2> TAKE k \in T
  <2>1. ~(n - k < n - x)
    BY <1>2, <1>3
  <2>2. k \in Nat /\ x \in Nat
    OBVIOUS
  <2> QED BY <2>1, <2>2
<1>5. \E y \in T : \A k \in T : y >= k
  BY <1>4
<1>6. Max(T) \in T /\ \A k \in T : Max(T) >= k
  <2> HIDE DEF U
  <2> QED BY <1>5 DEF Max
<1>7. Max(T) \in Nat
  BY <1>6
<1> QED BY <1>6, <1>7

LEMMA SmallestElement ==
  ASSUME NEW T \in SUBSET Nat, T # {}
  PROVE  Min(T) \in T /\ \A k \in T : Min(T) <= k
<1>1. PICK m \in T : \A k \in T : ~(k < m)
  BY LeastElement
<1>2. \A k \in T : m <= k
  BY <1>1
<1> QED BY <1>2 DEF Min

LEMMA SmallMultiple ==
  ASSUME NEW n \in Nat \ {0}, NEW d \in Int, NEW r \in Nat, r < n, n * d = r
  PROVE  r = 0
<1>1. ASSUME d >= 1 PROVE FALSE
  <2>1. n * d >= n
    BY <1>1
  <2> QED BY <2>1
<1>2. ASSUME d <= -1 PROVE FALSE
  <2>1. n * d < 0
    BY <1>2
  <2> QED BY <2>1
<1> QED BY <1>1, <1>2

LEMMA MultipleRemainder ==
  ASSUME NEW n \in Nat \ {0}, NEW q \in Nat
  PROVE  (n * q) % n = 0
<1> DEFINE y == n * q
<1>1. y \in Nat
  OBVIOUS
<1>2. y = n * (y \div n) + (y % n) /\ y \div n \in Nat /\ y % n \in Nat /\ y % n < n
  <2> HIDE DEF y
  <2> QED BY <1>1
<1> DEFINE e == y \div n
<1> DEFINE r == y % n
<1>3. e \in Nat /\ r \in Nat /\ r < n /\ n * q = n * e + r
  BY <1>2
<1> HIDE DEF e, r
<1>4. n * (q - e) = r
  BY <1>3
<1>5. r = 0
  BY <1>3, <1>4, SmallMultiple
<1> QED BY <1>5 DEF r

\* What lies at or below i on the grid of every Step-th height.
LEMMA RemainderFacts ==
  ASSUME NEW i \in Nat
  PROVE  /\ i % Step \in Nat /\ i % Step <= i
         /\ i < Step => i % Step = i
         /\ i >= Step => i - (i % Step) >= Step
         /\ (i - (i % Step)) % Step = 0
<1>1. Step \in Nat \ {0}
  BY SizesAssumption
<1> DEFINE q == i \div Step
<1> DEFINE r == i % Step
<1>2. q \in Nat /\ i = Step * q + r /\ r \in Nat
  BY <1>1
<1> HIDE DEF q, r
<1>3. i - r = Step * q
  BY <1>1, <1>2
<1>4. (Step * q) % Step = 0
  BY <1>1, <1>2, MultipleRemainder
<1>5. (i - (i % Step)) % Step = 0
  BY <1>3, <1>4 DEF r
<1>6. i % Step \in Nat /\ i % Step <= i /\ (i < Step => i % Step = i) /\ (i >= Step => i - (i % Step) >= Step)
  BY <1>1
<1> QED BY <1>5, <1>6

-----------------------------------------------------------------------------
(* Path: the recursive definition has a solution, since weights decrease.  *)

PathEquation(f, b) == f[b] = IF b = Genesis THEN << >> ELSE Append(f[Parent[b]], b)
Lighter(n) == { b \in Blocks : Weight[b] < n }

LEMMA ParentFacts ==
  ASSUME NEW b \in Blocks \ {Genesis}
  PROVE  Parent[b] \in Blocks /\ Weight[b] \in Nat /\ Weight[Parent[b]] \in Nat /\ Weight[Parent[b]] < Weight[b]
<1>1. Parent[b] \in Blocks
  BY TreeAssumption
<1> QED BY <1>1, TreeAssumption

LEMMA PathUpTo ==
  ASSUME NEW n \in Nat
  PROVE  \E f \in [Lighter(n) -> Seq(Blocks)] : \A b \in Lighter(n) : PathEquation(f, b)
<1> DEFINE S == { m \in Nat : \E f \in [Lighter(m) -> Seq(Blocks)] : \A b \in Lighter(m) : PathEquation(f, b) }
<1>1. 0 \in S
  <2>1. Lighter(0) = {}
    BY TreeAssumption DEF Lighter
  <2>2. [b \in Lighter(0) |-> << >>] \in [Lighter(0) -> Seq(Blocks)]
    BY <2>1
  <2> QED BY <2>1, <2>2
<1>2. ASSUME NEW m \in Nat, m \in S PROVE m + 1 \in S
  <2>1. PICK f \in [Lighter(m) -> Seq(Blocks)] : \A b \in Lighter(m) : PathEquation(f, b)
    BY <1>2
  <2> DEFINE g == [b \in Lighter(m + 1) |-> IF b = Genesis THEN << >> ELSE Append(f[Parent[b]], b)]
  <2>2. ASSUME NEW b \in Lighter(m + 1), b # Genesis
        PROVE  Parent[b] \in Lighter(m) /\ Parent[b] \in Lighter(m + 1) /\ b \in Blocks /\ f[Parent[b]] \in Seq(Blocks)
    <3>1. b \in Blocks \ {Genesis} /\ Weight[b] < m + 1
      BY <2>2 DEF Lighter
    <3>2. Parent[b] \in Blocks /\ Weight[Parent[b]] < m /\ Weight[Parent[b]] < m + 1
      BY <3>1, ParentFacts
    <3> QED BY <3>1, <3>2 DEF Lighter
  <2>3. g \in [Lighter(m + 1) -> Seq(Blocks)]
    BY <2>2
  <2>4. \A b \in Lighter(m) : g[b] = f[b] /\ b \in Lighter(m + 1)
    <3> TAKE b \in Lighter(m)
    <3>1. b \in Lighter(m + 1)
      BY TreeAssumption DEF Lighter
    <3> QED BY <2>1, <3>1 DEF PathEquation
  <2>5. ASSUME NEW b \in Lighter(m + 1) PROVE PathEquation(g, b)
    <3>1. CASE b = Genesis
      BY <3>1 DEF PathEquation
    <3>2. CASE b # Genesis
      <4>1. g[Parent[b]] = f[Parent[b]]
        BY <2>2, <2>4, <3>2
      <4> QED BY <3>2, <4>1 DEF PathEquation
    <3> QED BY <3>1, <3>2
  <2> HIDE DEF g
  <2> QED BY <2>3, <2>5
<1> HIDE DEF S
<1>3. Nat \subseteq S
  BY <1>1, <1>2, NatSetInduction
<1>4. n \in S
  BY <1>3
<1> QED BY <1>4 DEF S

PathOver(f, n) == \A b \in Lighter(n) : PathEquation(f, b)

LEMMA PathUnique ==
  ASSUME NEW n \in Nat, NEW m \in Nat, NEW f, PathOver(f, n), NEW g, PathOver(g, m),
         NEW b \in Blocks, Weight[b] < n, Weight[b] < m
  PROVE  f[b] = g[b]
<1> DEFINE T == { k \in Nat : \E c \in Blocks : Weight[c] = k /\ k < n /\ k < m /\ f[c] # g[c] }
<1> SUFFICES ASSUME f[b] # g[b] PROVE FALSE
  OBVIOUS
<1>1. T \in SUBSET Nat /\ Weight[b] \in T
  BY TreeAssumption
<1>2. PICK k \in T : \A j \in T : ~(j < k)
  <2> HIDE DEF T
  <2> QED BY <1>1, LeastElement
<1>3. PICK c \in Blocks : Weight[c] = k /\ k < n /\ k < m /\ f[c] # g[c]
  OBVIOUS
<1>4. c \in Lighter(n) /\ c \in Lighter(m)
  BY <1>3 DEF Lighter
<1>5. PathEquation(f, c) /\ PathEquation(g, c)
  BY <1>4 DEF PathOver
<1>6. CASE c = Genesis
  BY <1>3, <1>6, <1>5 DEF PathEquation
<1>7. CASE c # Genesis
  <2>1. /\ Parent[c] \in Blocks /\ Weight[Parent[c]] \in Nat /\ Weight[Parent[c]] < k
    BY <1>3, <1>7, ParentFacts
  <2>2. Weight[Parent[c]] < n /\ Weight[Parent[c]] < m
    BY <1>3, <2>1
  <2>3. f[Parent[c]] = g[Parent[c]]
    BY <1>2, <2>1, <2>2
  <2> QED BY <1>3, <1>7, <1>5, <2>3 DEF PathEquation
<1> QED BY <1>6, <1>7

LEMMA PathDef ==
  /\ Path \in [Blocks -> Seq(Blocks)]
  /\ \A b \in Blocks : PathEquation(Path, b)
<1> DEFINE F(n) == CHOOSE f \in [Lighter(n) -> Seq(Blocks)] : \A b \in Lighter(n) : PathEquation(f, b)
<1>1. \A n \in Nat : F(n) \in [Lighter(n) -> Seq(Blocks)] /\ PathOver(F(n), n)
  BY PathUpTo DEF PathOver
<1> HIDE DEF F
<1> DEFINE h == [b \in Blocks |-> F(Weight[b] + 1)[b]]
<1>2. \A b \in Blocks : Weight[b] \in Nat /\ Weight[b] + 1 \in Nat /\ b \in Lighter(Weight[b] + 1)
  BY TreeAssumption DEF Lighter
<1>3. h \in [Blocks -> Seq(Blocks)]
  BY <1>1, <1>2
<1>4. ASSUME NEW b \in Blocks PROVE PathEquation(h, b)
  <2> DEFINE n == Weight[b] + 1
  <2>1. n \in Nat /\ h[b] = F(n)[b] /\ PathEquation(F(n), b)
    BY <1>1, <1>2 DEF PathOver
  <2>2. CASE b = Genesis
    BY <2>1, <2>2 DEF PathEquation
  <2>3. CASE b # Genesis
    <3> DEFINE p == Parent[b]
    <3> DEFINE m == Weight[p] + 1
    <3>1. p \in Blocks /\ Weight[p] \in Nat /\ Weight[p] < n /\ Weight[p] < m /\ m \in Nat /\ n \in Nat
      BY <2>1, <2>3, ParentFacts
    <3>2. h[p] = F(m)[p]
      BY <3>1
    <3>3. F(m)[p] = F(n)[p]
      <4>1. PathOver(F(m), m) /\ PathOver(F(n), n)
        BY <1>1, <3>1
      <4> DEFINE f == F(m)
                 g == F(n)
      <4>2. p \in Blocks /\ Weight[p] < n /\ Weight[p] < m /\ n \in Nat /\ m \in Nat
        BY <3>1
      <4> HIDE DEF h, p, m, n, f, g
      <4>3. PathOver(f, m) /\ PathOver(g, n)
        BY <4>1 DEF f, g
      <4>4. f[p] = g[p]
        BY <4>2, <4>3, PathUnique
      <4> QED BY <4>4 DEF f, g
    <3> QED BY <2>1, <2>3, <3>2, <3>3 DEF PathEquation
  <2> QED BY <2>2, <2>3
<1>5. h = [b \in Blocks |-> IF b = Genesis THEN << >> ELSE Append(h[Parent[b]], b)]
  <2>1. \A b \in Blocks : h[b] = IF b = Genesis THEN << >> ELSE Append(h[Parent[b]], b)
    BY <1>4 DEF PathEquation
  <2>2. h = [b \in Blocks |-> h[b]]
    OBVIOUS
  <2> HIDE DEF h
  <2> QED BY <2>1, <2>2
<1> HIDE DEF h
<1>6. Path = [b \in Blocks |-> IF b = Genesis THEN << >> ELSE Append(Path[Parent[b]], b)]
  BY <1>5 DEF Path
<1>7. \A b \in Blocks : PathEquation(Path, b)
  <2> DEFINE g == Path
  <2>1. g = [b \in Blocks |-> IF b = Genesis THEN << >> ELSE Append(g[Parent[b]], b)]
    BY <1>6
  <2> HIDE DEF g
  <2>2. \A b \in Blocks : g[b] = IF b = Genesis THEN << >> ELSE Append(g[Parent[b]], b)
    BY <2>1
  <2> QED BY <2>2 DEF g, PathEquation
<1>8. ASSUME NEW b \in Blocks PROVE Path[b] = h[b]
  <2> DEFINE n == Weight[b] + 1
  <2>1. n \in Nat /\ Weight[b] < n
    BY <1>2
  <2>2. PathOver(Path, n) /\ PathOver(h, n)
    BY <1>4, <1>7 DEF Lighter, PathOver
  <2> HIDE DEF n
  <2> DEFINE g == Path
  <2>3. PathOver(g, n)
    BY <2>2
  <2> HIDE DEF g
  <2>4. g[b] = h[b]
    BY <2>1, <2>2, <2>3, PathUnique
  <2> QED BY <2>4 DEF g
<1>9. Path = [b \in Blocks |-> h[b]]
  <2> DEFINE g == Path
  <2>1. g = [b \in Blocks |-> IF b = Genesis THEN << >> ELSE Append(g[Parent[b]], b)]
    BY <1>6
  <2>2. \A b \in Blocks : g[b] = h[b]
    BY <1>8
  <2> HIDE DEF g
  <2> QED BY <2>1, <2>2 DEF g
<1>10. Path \in [Blocks -> Seq(Blocks)]
  BY <1>3, <1>9
<1> QED BY <1>7, <1>10

-----------------------------------------------------------------------------
(* Chains. *)

Chain(p) == p \in Seq(Blocks) /\ p = Path[TopOf(p)] /\ TopOf(p) \in Blocks
Prefix(p, n) == SubSeq(p, 1, n)

LEMMA PathOfGenesis == Path[Genesis] = << >>
BY PathDef, TreeAssumption DEF PathEquation

LEMMA PathOfChild ==
  ASSUME NEW b \in Blocks \ {Genesis}
  PROVE  /\ Path[b] = Append(Path[Parent[b]], b) /\ Path[b] \in Seq(Blocks)
         /\ Parent[b] \in Blocks /\ Path[Parent[b]] \in Seq(Blocks)
         /\ Len(Path[b]) = Len(Path[Parent[b]]) + 1 /\ Path[b][Len(Path[b])] = b
<1>1. Parent[b] \in Blocks /\ Path[Parent[b]] \in Seq(Blocks) /\ Path[b] \in Seq(Blocks)
  BY PathDef, ParentFacts
<1>2. Path[b] = Append(Path[Parent[b]], b)
  BY PathDef DEF PathEquation
<1> DEFINE q == Path[Parent[b]]
<1>3. q \in Seq(Blocks) /\ Path[b] = Append(q, b)
  BY <1>1, <1>2
<1> HIDE DEF q
<1>4. Len(Path[b]) = Len(q) + 1 /\ Path[b][Len(q) + 1] = b
  BY <1>3
<1> QED BY <1>1, <1>2, <1>4 DEF q

LEMMA PathIsChain ==
  ASSUME NEW b \in Blocks
  PROVE  Chain(Path[b]) /\ TopOf(Path[b]) = b
<1>1. CASE b = Genesis
  BY <1>1, PathOfGenesis, TreeAssumption DEF Chain, TopOf
<1>2. CASE b # Genesis
  <2>1. /\ Path[b] \in Seq(Blocks) /\ Path[b][Len(Path[b])] = b /\ Len(Path[b]) = Len(Path[Parent[b]]) + 1
        /\ Path[Parent[b]] \in Seq(Blocks)
    BY <1>2, PathOfChild
  <2>2. Path[b] # << >>
    BY <2>1
  <2> QED BY <2>1, <2>2 DEF Chain, TopOf
<1> QED BY <1>1, <1>2

LEMMA PrefixFacts ==
  ASSUME NEW p \in Seq(Blocks), NEW n \in 0 .. Len(p)
  PROVE  /\ Prefix(p, n) \in Seq(Blocks) /\ Len(Prefix(p, n)) = n
         /\ \A i \in 1 .. n : Prefix(p, n)[i] = p[i]
         /\ n = 0 => Prefix(p, n) = << >>
         /\ n = Len(p) => Prefix(p, n) = p
<1>1. n \in Nat /\ Len(p) \in Nat /\ \A i \in 1 .. n : p[i] \in Blocks
  OBVIOUS
<1>2. /\ SubSeq(p, 1, n) \in Seq(Blocks)
      /\ Len(SubSeq(p, 1, n)) = IF 1 <= n THEN n - 1 + 1 ELSE 0
      /\ \A i \in 1 .. n - 1 + 1 : SubSeq(p, 1, n)[i] = p[1 + i - 1]
  BY <1>1, SubSeqProperties
<1> DEFINE q == SubSeq(p, 1, n)
<1>3. q \in Seq(Blocks) /\ Len(q) = n /\ \A i \in 1 .. n : q[i] = p[i]
  <2>1. n - 1 + 1 = n /\ \A i \in 1 .. n : 1 + i - 1 = i
    BY <1>1
  <2> HIDE DEF q
  <2>2. q \in Seq(Blocks) /\ Len(q) = n
    BY <1>1, <1>2 DEF q
  <2> QED BY <1>2, <2>1, <2>2 DEF q
<1> HIDE DEF q
<1>4. n = 0 => q = << >>
  BY <1>3
<1>5. n = Len(p) => q = p
  BY <1>3
<1> QED BY <1>3, <1>4, <1>5 DEF q, Prefix

LEMMA PrefixOfPrefix ==
  ASSUME NEW p \in Seq(Blocks), NEW n \in 0 .. Len(p), NEW m \in 0 .. n
  PROVE  Prefix(Prefix(p, n), m) = Prefix(p, m)
<1> DEFINE q == Prefix(p, n)
<1>1. q \in Seq(Blocks) /\ Len(q) = n /\ \A i \in 1 .. n : q[i] = p[i]
  BY PrefixFacts
<1> HIDE DEF q
<1>2. m \in 0 .. Len(p) /\ m \in 0 .. Len(q)
  BY <1>1
<1>3. Prefix(p, m) \in Seq(Blocks) /\ Len(Prefix(p, m)) = m /\ \A i \in 1 .. m : Prefix(p, m)[i] = p[i]
  BY <1>2, PrefixFacts
<1>4. Prefix(q, m) \in Seq(Blocks) /\ Len(Prefix(q, m)) = m /\ \A i \in 1 .. m : Prefix(q, m)[i] = q[i]
  BY <1>1, <1>2, PrefixFacts
<1> DEFINE x == Prefix(q, m)
           y == Prefix(p, m)
<1>5. x \in Seq(Blocks) /\ y \in Seq(Blocks) /\ Len(x) = Len(y) /\ \A i \in 1 .. Len(x) : x[i] = y[i]
  BY <1>1, <1>3, <1>4
<1>6. x = y
  <2> HIDE DEF x, y
  <2> QED BY <1>5
<1> QED BY <1>6 DEF q

\* The chain that ends in the block at height h of a chain is that chain up to h.
LEMMA PathPrefix ==
  ASSUME NEW b \in Blocks
  PROVE  \A h \in 1 .. Len(Path[b]) :
           Path[b][h] \in Blocks \ {Genesis} /\ Path[Path[b][h]] = Prefix(Path[b], h)
<1> DEFINE P(c) == \A h \in 1 .. Len(Path[c]) :
                     Path[c][h] \in Blocks \ {Genesis} /\ Path[Path[c][h]] = Prefix(Path[c], h)
<1> DEFINE T == { n \in Nat : \E c \in Blocks : Weight[c] = n /\ ~P(c) }
<1> SUFFICES ASSUME ~P(b) PROVE FALSE
  OBVIOUS
<1> HIDE DEF P
<1>1. T \in SUBSET Nat /\ T # {}
  <2>1. Weight[b] \in Nat
    BY TreeAssumption
  <2> QED BY <2>1
<1>2. PICK n \in T : \A m \in T : ~(m < n)
  <2> HIDE DEF T
  <2> QED BY <1>1, LeastElement
<1>3. PICK c \in Blocks : Weight[c] = n /\ ~P(c)
  OBVIOUS
<1>4. CASE c = Genesis
  <2>1. Len(Path[c]) = 0
    BY <1>4, PathOfGenesis
  <2> QED BY <1>3, <2>1 DEF P
<1>5. CASE c # Genesis
  <2> DEFINE q == Path[Parent[c]]
  <2>1. /\ Path[c] = Append(q, c) /\ q \in Seq(Blocks) /\ Parent[c] \in Blocks /\ Path[c] \in Seq(Blocks)
        /\ Len(Path[c]) = Len(q) + 1 /\ Path[c][Len(Path[c])] = c
    BY <1>5, PathOfChild
  <2>2. Weight[Parent[c]] \in Nat /\ Weight[Parent[c]] < n
    BY <1>3, <1>5, ParentFacts
  <2>3. P(Parent[c])
    BY <1>2, <2>1, <2>2
  <2>4. \A h \in 1 .. Len(q) : q[h] \in Blocks \ {Genesis} /\ Path[q[h]] = Prefix(q, h)
    BY <2>3 DEF P
  <2> HIDE DEF q
  <2> DEFINE r == Path[c]
  <2>5. r \in Seq(Blocks) /\ Len(q) \in 0 .. Len(r) /\ r = Append(q, c) /\ Len(r) = Len(q) + 1 /\ r[Len(r)] = c
    BY <2>1
  <2> HIDE DEF r
  <2>6. q = Prefix(r, Len(q))
    <3>1. /\ Prefix(r, Len(q)) \in Seq(Blocks) /\ Len(Prefix(r, Len(q))) = Len(q)
          /\ \A i \in 1 .. Len(q) : Prefix(r, Len(q))[i] = r[i]
      BY <2>5, PrefixFacts
    <3>2. \A i \in 1 .. Len(q) : q[i] = r[i]
      BY <2>1, <2>5
    <3> DEFINE x == Prefix(r, Len(q))
    <3>3. x \in Seq(Blocks) /\ Len(x) = Len(q) /\ \A i \in 1 .. Len(q) : x[i] = q[i]
      BY <3>1, <3>2
    <3> HIDE DEF x
    <3>4. x = q
      BY <3>3, <2>1
    <3> QED BY <3>4 DEF x
  <2>7. ASSUME NEW h \in 1 .. Len(r)
        PROVE  r[h] \in Blocks \ {Genesis} /\ Path[r[h]] = Prefix(r, h)
    <3>1. CASE h = Len(r)
      <4>0. h \in 0 .. Len(r) /\ r \in Seq(Blocks)
        BY <2>5
      <4>1. Prefix(r, h) = r
        BY <4>0, <3>1, PrefixFacts
      <4>2. r[h] = c
        BY <2>5, <3>1
      <4> QED BY <4>1, <4>2, <1>5 DEF r
    <3>2. CASE h # Len(r)
      <4>1. h \in 1 .. Len(q) /\ h \in 0 .. Len(q)
        BY <2>1, <2>5, <3>2
      <4>2. r[h] = q[h]
        BY <2>1, <2>5, <4>1
      <4>3. Prefix(q, h) = Prefix(r, h)
        BY <2>5, <2>6, <4>1, PrefixOfPrefix
      <4> QED BY <2>4, <4>1, <4>2, <4>3
    <3> QED BY <3>1, <3>2
  <2> QED BY <1>3, <2>7 DEF P, r
<1> QED BY <1>4, <1>5

\* What a chain holds at height h.
LEMMA ChainEntry ==
  ASSUME NEW p, Chain(p), NEW h \in 1 .. Len(p)
  PROVE  /\ p[h] \in Blocks \ {Genesis} /\ Path[p[h]] = Prefix(p, h) /\ Height(p[h]) = h
         /\ Path[Parent[p[h]]] = Prefix(p, h - 1) /\ Parent[p[h]] \in Blocks
<1>1. p \in Seq(Blocks) /\ TopOf(p) \in Blocks /\ p = Path[TopOf(p)] /\ h \in 0 .. Len(p) /\ h - 1 \in 0 .. Len(p)
  BY DEF Chain
<1>2. p[h] \in Blocks \ {Genesis} /\ Path[p[h]] = Prefix(p, h)
  BY <1>1, PathPrefix
<1>3. Len(Prefix(p, h)) = h /\ Prefix(p, h) \in Seq(Blocks) /\ \A i \in 1 .. h : Prefix(p, h)[i] = p[i]
  BY <1>1, PrefixFacts
<1> DEFINE q == Path[Parent[p[h]]]
<1>4. Prefix(p, h) = Append(q, p[h]) /\ q \in Seq(Blocks) /\ Parent[p[h]] \in Blocks
  BY <1>2, PathOfChild
<1>5. Len(Prefix(p, h - 1)) = h - 1 /\ Prefix(p, h - 1) \in Seq(Blocks) /\ \A i \in 1 .. h - 1 : Prefix(p, h - 1)[i] = p[i]
  BY <1>1, PrefixFacts
<1>6. q = Prefix(p, h - 1)
  <2> HIDE DEF q
  <2> DEFINE x == Prefix(p, h)
  <2> DEFINE y == Prefix(p, h - 1)
  <2>1. /\ x = Append(q, p[h]) /\ Len(x) = h /\ y \in Seq(Blocks) /\ Len(y) = h - 1
        /\ \A i \in 1 .. h - 1 : y[i] = x[i]
    BY <1>3, <1>4, <1>5
  <2> HIDE DEF x, y
  <2>2. Len(q) = h - 1 /\ \A i \in 1 .. h - 1 : q[i] = x[i]
    BY <1>4, <2>1
  <2>3. q = y
    BY <1>4, <2>1, <2>2
  <2> QED BY <2>3 DEF y
<1> QED BY <1>2, <1>3, <1>4, <1>6 DEF Height

LEMMA ChainPrefix ==
  ASSUME NEW p, Chain(p), NEW n \in 0 .. Len(p)
  PROVE  Chain(Prefix(p, n)) /\ Len(Prefix(p, n)) = n
<1>0. p \in Seq(Blocks)
  BY DEF Chain
<1>1. Len(Prefix(p, n)) = n
  BY <1>0, PrefixFacts
<1>2. CASE n = 0
  <2>1. Prefix(p, n) = Path[Genesis] /\ Genesis \in Blocks
    BY <1>0, <1>2, PrefixFacts, PathOfGenesis, TreeAssumption
  <2> QED BY <1>1, <2>1, PathIsChain
<1>3. CASE n # 0
  <2>1. n \in 1 .. Len(p)
    BY <1>0, <1>3
  <2>2. p[n] \in Blocks /\ Path[p[n]] = Prefix(p, n)
    BY <2>1, ChainEntry
  <2>3. Chain(Path[p[n]])
    BY <2>2, PathIsChain
  <2> QED BY <1>1, <2>2, <2>3
<1> QED BY <1>2, <1>3

LEMMA ChainAppend ==
  ASSUME NEW b \in Blocks \ {Genesis}, NEW p, p = Path[Parent[b]]
  PROVE  Chain(Append(p, b)) /\ Append(p, b) = Path[b] /\ Height(b) = Len(p) + 1
<1>1. Path[b] = Append(p, b) /\ Len(Path[b]) = Len(p) + 1
  BY PathOfChild
<1> QED BY <1>1, PathIsChain DEF Height

-----------------------------------------------------------------------------
(* The kept ids.  Those of the newest blocks are contiguous, and every Step-th *)
(* id is kept.                                                                 *)

Grid(n) == { h \in 1 .. n : h % Step = 0 }
IdsOK(c, p) ==
  /\ c.size = Len(p) + 1
  /\ DOMAIN c.recent \subseteq 1 .. Len(p)
  /\ \A h \in DOMAIN c.recent : c.recent[h] = p[h] /\ \A k \in h .. Len(p) : k \in DOMAIN c.recent
  /\ DOMAIN c.tens = Grid(Len(p)) /\ \A h \in Grid(Len(p)) : c.tens[h] = p[h]
Kept(c) == DOMAIN c.recent \cup DOMAIN c.tens

LEMMA NoIdsOK == IdsOK(NoIds, << >>)
<1>1. Grid(0) = {} /\ DOMAIN << >> = {}
  BY DEF Grid
<1> QED BY <1>1 DEF IdsOK, NoIds

LEMMA KeepFacts ==
  ASSUME NEW n \in Nat, NEW f, DOMAIN f \subseteq 1 .. n, NEW m \in Nat
  PROVE  /\ DOMAIN Keep(f, m) \subseteq DOMAIN f
         /\ \A h \in DOMAIN Keep(f, m) : Keep(f, m)[h] = f[h] /\ \A k \in DOMAIN f : k > h => k \in DOMAIN Keep(f, m)
<1> DEFINE U(j) == { i \in DOMAIN f : i > j }
<1>1. DOMAIN Keep(f, m) = { j \in DOMAIN f : Cardinality(U(j)) < m }
  BY DEF Keep
<1>2. \A h \in DOMAIN Keep(f, m) : Keep(f, m)[h] = f[h]
  BY DEF Keep
<1>3. ASSUME NEW h \in DOMAIN Keep(f, m), NEW k \in DOMAIN f, k > h
      PROVE  k \in DOMAIN Keep(f, m)
  <2>1. h \in DOMAIN f /\ Cardinality(U(h)) < m
    BY <1>1
  <2>2. IsFiniteSet(1 .. n)
    BY FS_Interval
  <2>3. IsFiniteSet(U(h))
    <3>1. U(h) \subseteq 1 .. n
      OBVIOUS
    <3> HIDE DEF U
    <3> QED BY <2>2, <3>1, FS_Subset
  <2>4. U(k) \subseteq U(h)
    BY <1>3, <2>1
  <2>5. Cardinality(U(k)) <= Cardinality(U(h)) /\ IsFiniteSet(U(k))
    <3> HIDE DEF U
    <3> QED BY <2>3, <2>4, FS_Subset
  <2>6. Cardinality(U(k)) \in Nat /\ Cardinality(U(h)) \in Nat
    <3> HIDE DEF U
    <3> QED BY <2>3, <2>5, FS_CardinalityType
  <2>7. Cardinality(U(k)) < m
    <3> DEFINE x == Cardinality(U(k))
               y == Cardinality(U(h))
    <3>1. x \in Nat /\ y \in Nat /\ x <= y /\ y < m
      BY <2>1, <2>5, <2>6
    <3> HIDE DEF x, y
    <3>2. x < m
      BY <3>1
    <3> QED BY <3>2 DEF x
  <2> HIDE DEF U
  <2> QED BY <1>1, <2>7
<1> QED BY <1>1, <1>2, <1>3

LEMMA PushIdOK ==
  ASSUME NEW c, NEW p \in Seq(Blocks), NEW b \in Blocks, IdsOK(c, p)
  PROVE  IdsOK(PushId(c, b, Len(p) + 1), Append(p, b))
<1> DEFINE h == Len(p) + 1
           q == Append(p, b)
           d == PushId(c, b, h)
           f == With(c.recent, h, b)
<1>1. /\ Len(p) \in Nat /\ h \in Nat /\ h = Len(p) + 1 /\ Len(q) = h /\ q[h] = b
      /\ \A i \in 1 .. Len(p) : q[i] = p[i]
  OBVIOUS
<1> HIDE DEF h, q
<1>2. d.size = Len(q) + 1 /\ d.recent = Keep(f, RecentIds) /\ d.tens = IF h % Step = 0 THEN With(c.tens, h, b) ELSE c.tens
  BY <1>1 DEF PushId
<1> HIDE DEF d
<1>3. DOMAIN f = DOMAIN c.recent \cup {h} /\ \A k \in DOMAIN f : f[k] = IF k = h THEN b ELSE c.recent[k]
  BY DEF With
<1>4. DOMAIN f \subseteq 1 .. h
  BY <1>1, <1>3 DEF IdsOK
<1> HIDE DEF f
<1>5. RecentIds \in Nat
  BY SizesAssumption
<1>6. /\ DOMAIN d.recent \subseteq DOMAIN f
      /\ \A k \in DOMAIN d.recent : d.recent[k] = f[k] /\ \A j \in DOMAIN f : j > k => j \in DOMAIN d.recent
  BY <1>1, <1>2, <1>4, <1>5, KeepFacts
<1>7. \A k \in DOMAIN f : f[k] = q[k] /\ \A j \in k .. h : j \in DOMAIN f
  BY <1>1, <1>3 DEF IdsOK
<1>8. \A k \in DOMAIN d.recent : d.recent[k] = q[k] /\ \A j \in k .. h : j \in DOMAIN d.recent
  <2> TAKE k \in DOMAIN d.recent
  <2>1. k \in DOMAIN f /\ d.recent[k] = q[k] /\ k \in Nat
    BY <1>4, <1>6, <1>7
  <2>2. ASSUME NEW j \in k .. h PROVE j \in DOMAIN d.recent
    <3>1. j \in DOMAIN f /\ (j = k \/ j > k)
      BY <1>7, <2>1
    <3> QED BY <1>6, <3>1
  <2> QED BY <2>1, <2>2
<1>9. DOMAIN d.tens = Grid(h)
  <2>1. Grid(h) = IF h % Step = 0 THEN Grid(Len(p)) \cup {h} ELSE Grid(Len(p))
    <3>1. 1 .. h = (1 .. Len(p)) \cup {h}
      BY <1>1
    <3> QED BY <3>1 DEF Grid
  <2>2. DOMAIN With(c.tens, h, b) = DOMAIN c.tens \cup {h}
    BY DEF With
  <2> QED BY <1>2, <2>1, <2>2 DEF IdsOK
<1>10. \A k \in Grid(h) : d.tens[k] = q[k]
  <2> TAKE k \in Grid(h)
  <2>1. k \in 1 .. h /\ k % Step = 0
    BY DEF Grid
  <2>2. CASE k = h
    <3>1. With(c.tens, h, b)[h] = b
      BY DEF With
    <3> QED BY <1>1, <1>2, <2>1, <2>2, <3>1
  <2>3. CASE k # h
    <3>1. k \in 1 .. Len(p) /\ k \in Grid(Len(p))
      BY <1>1, <2>1, <2>3 DEF Grid
    <3>2. c.tens[k] = p[k] /\ k \in DOMAIN c.tens
      BY <3>1 DEF IdsOK
    <3>3. With(c.tens, h, b)[k] = c.tens[k]
      BY <2>3, <3>2 DEF With
    <3> QED BY <1>1, <1>2, <3>1, <3>2, <3>3
  <2> QED BY <2>2, <2>3
<1>11. IdsOK(d, q)
  BY <1>1, <1>2, <1>4, <1>6, <1>8, <1>9, <1>10 DEF IdsOK
<1> QED BY <1>11 DEF d, q, h

LEMMA DetachIdsOK ==
  ASSUME NEW c, NEW p \in Seq(Blocks), IdsOK(c, p), NEW h \in 1 .. Len(p) + 1
  PROVE  IdsOK(DetachIds(c, h), Prefix(p, h - 1))
<1> DEFINE d == DetachIds(c, h)
           q == Prefix(p, h - 1)
<1>0. h - 1 \in 0 .. Len(p) /\ Len(p) \in Nat /\ h \in Nat
  OBVIOUS
<1>1. Len(q) = h - 1 /\ \A i \in 1 .. h - 1 : q[i] = p[i]
  BY <1>0, PrefixFacts
<1>2. /\ d.size = h /\ DOMAIN d.recent = { k \in DOMAIN c.recent : k < h } /\ \A k \in DOMAIN d.recent : d.recent[k] = c.recent[k]
      /\ DOMAIN d.tens = { k \in DOMAIN c.tens : k < h } /\ \A k \in DOMAIN d.tens : d.tens[k] = c.tens[k]
  BY DEF DetachIds, Below
<1> HIDE DEF d, q
<1>3. d.size = Len(q) + 1
  BY <1>0, <1>1, <1>2
<1>4. DOMAIN d.recent \subseteq 1 .. Len(q)
  BY <1>0, <1>1, <1>2 DEF IdsOK
<1>5. \A k \in DOMAIN d.recent : d.recent[k] = q[k] /\ \A j \in k .. Len(q) : j \in DOMAIN d.recent
  BY <1>0, <1>1, <1>2, <1>4 DEF IdsOK
<1>6. DOMAIN d.tens = Grid(Len(q))
  BY <1>0, <1>1, <1>2 DEF IdsOK, Grid
<1>7. \A k \in Grid(Len(q)) : d.tens[k] = q[k]
  <2> TAKE k \in Grid(Len(q))
  <2>1. k \in 1 .. h - 1 /\ k \in Grid(Len(p))
    BY <1>0, <1>1 DEF Grid
  <2>2. c.tens[k] = p[k]
    BY <2>1 DEF IdsOK
  <2> QED BY <1>1, <1>2, <1>6, <2>1, <2>2
<1>8. IdsOK(d, q)
  BY <1>3, <1>4, <1>5, <1>6, <1>7 DEF IdsOK
<1> QED BY <1>8 DEF d, q

\* lookup_item_around finds ids that are kept, and one as soon as any at or below is.
LEMMA LookupFacts ==
  ASSUME NEW c, NEW p \in Seq(Blocks), IdsOK(c, p), NEW i \in 0 .. Len(p)
  PROVE  /\ LookupAround(c, i) \in 0 .. i
         /\ LookupAround(c, i) # 0 => LookupAround(c, i) \in Kept(c)
         /\ i \in Kept(c) => LookupAround(c, i) # 0
         /\ \A j \in 0 .. i : LookupAround(c, j) # 0 => LookupAround(c, i) # 0
<1> DEFINE R == DOMAIN c.recent
           T == DOMAIN c.tens
<1>1. /\ Len(p) \in Nat /\ R \subseteq 1 .. Len(p) /\ \A h \in R : \A k \in h .. Len(p) : k \in R
      /\ T = { h \in 1 .. Len(p) : h % Step = 0 }
  BY DEF IdsOK, Grid
<1>2. R # {} => Min(R) \in R /\ \A k \in R : Min(R) <= k
  <2>1. R \in SUBSET Nat
    BY <1>1
  <2> HIDE DEF R
  <2> QED BY <2>1, SmallestElement
<1>3. T # {} => Min(T) \in T /\ \A k \in T : Min(T) <= k
  <2>1. T \in SUBSET Nat
    BY <1>1
  <2> HIDE DEF T
  <2> QED BY <2>1, SmallestElement
<1>4. \A k \in T : k \in Nat /\ k >= Step
  <2> TAKE k \in T
  <2>1. k \in Nat /\ k # 0 /\ k % Step = 0
    BY <1>1
  <2> QED BY <2>1, RemainderFacts, SizesAssumption
<1>5. /\ \A j : LookupAround(c, j) = IF R # {} /\ j >= Min(R) THEN j
                                ELSE IF T # {} /\ j >= Min(T) THEN j - (j % Step) ELSE 0
  BY DEF LookupAround
<1>6. /\ i \in Nat /\ i % Step \in Nat /\ i % Step <= i /\ (i >= Step => i - (i % Step) >= Step)
      /\ (i - (i % Step)) % Step = 0 /\ Step \in Nat \ {0}
  <2>1. i \in Nat
    OBVIOUS
  <2> QED BY <2>1, RemainderFacts, SizesAssumption
<1> HIDE DEF R, T
<1>7. R # {} => Min(R) \in 1 .. Len(p)
  BY <1>1, <1>2
<1>8. T # {} => Min(T) \in 1 .. Len(p) /\ Min(T) >= Step
  BY <1>1, <1>3, <1>4
<1>9. LookupAround(c, i) \in 0 .. i
  BY <1>5, <1>6
<1>10. ASSUME LookupAround(c, i) # 0 PROVE LookupAround(c, i) \in R \cup T
  <2>1. CASE R # {} /\ i >= Min(R)
    <3>1. i \in Min(R) .. Len(p)
      BY <1>7, <2>1
    <3> QED BY <1>1, <1>2, <1>5, <2>1, <3>1
  <2>2. CASE ~(R # {} /\ i >= Min(R)) /\ T # {} /\ i >= Min(T)
    <3> DEFINE k == i - (i % Step)
    <3>1. LookupAround(c, i) = k
      BY <1>5, <2>2
    <3>2. k \in 1 .. Len(p) /\ k % Step = 0
      <4>1. i >= Step
        BY <1>6, <1>8, <2>2
      <4>2. k % Step = 0 /\ k >= Step
        BY <1>6, <4>1
      <4> QED BY <1>6, <4>2
    <3> HIDE DEF k
    <3> QED BY <1>1, <3>1, <3>2
  <2> QED BY <1>5, <1>10, <2>1, <2>2
<1>11. ASSUME i \in R \cup T PROVE LookupAround(c, i) # 0
  <2>1. CASE i \in R
    <3>1. R # {} /\ i >= Min(R)
      BY <1>2, <1>6, <1>7, <2>1
    <3>2. i # 0
      BY <1>1, <2>1
    <3> QED BY <1>5, <3>1, <3>2
  <2>2. CASE i \in T
    <3>1. T # {} /\ i >= Min(T) /\ i # 0 /\ i % Step = 0
      BY <1>1, <1>3, <1>6, <1>8, <2>2
    <3> QED BY <1>5, <1>6, <3>1
  <2> QED BY <1>11, <2>1, <2>2
<1>12. ASSUME NEW j \in 0 .. i, LookupAround(c, j) # 0 PROVE LookupAround(c, i) # 0
  <2>1. CASE R # {} /\ j >= Min(R)
    <3>1. i >= Min(R) /\ i # 0
      BY <1>6, <1>7, <2>1
    <3> QED BY <1>5, <2>1, <3>1
  <2>2. CASE ~(R # {} /\ j >= Min(R)) /\ T # {} /\ j >= Min(T)
    <3>1. i >= Min(T) /\ i >= Step /\ i # 0 /\ i - (i % Step) # 0
      <4>1. i >= Min(T) /\ i >= Step /\ i # 0
        BY <1>6, <1>8, <2>2
      <4> QED BY <1>6, <4>1
    <3> QED BY <1>5, <2>2, <3>1
  <2> QED BY <1>5, <1>12, <2>1, <2>2
<1> QED BY <1>9, <1>10, <1>11, <1>12 DEF Kept, R, T

LEMMA IdAtFacts ==
  ASSUME NEW c, NEW p, IdsOK(c, p), NEW h \in Kept(c)
  PROVE  h \in 1 .. Len(p) /\ IdAt(c, h) = p[h]
<1>1. h \in 1 .. Len(p)
  BY DEF Kept, IdsOK, Grid
<1>2. h # 0
  BY <1>1
<1> QED BY <1>1, <1>2 DEF IdAt, Kept, IdsOK

\* The ids of a short history, from an offset on: the recursive definition has a
\* solution because offsets grow up to the size of the chain.
Offsets == Nat \X (Nat \ {0})
OlderIs(c, f, at) ==
  f[at] = LET item == LookupAround(c, c.size - at[1])
          IN  IF at[1] >= c.size \/ item = 0 THEN {}
              ELSE {item} \cup f[<< c.size - item + 2 * at[2], 2 * at[2] >>]
From(n) == { at \in Offsets : at[1] >= n }

LEMMA OffsetFacts ==
  ASSUME NEW c, NEW p \in Seq(Blocks), IdsOK(c, p), NEW at \in Offsets, at[1] < c.size, at[1] # 0
  PROVE  LET item == LookupAround(c, c.size - at[1])
             nx   == << c.size - item + 2 * at[2], 2 * at[2] >>
         IN  /\ item \in Nat /\ (item # 0 => item \in Kept(c)) /\ nx \in Offsets /\ nx[1] >= at[1] + 1
<1> DEFINE x == at[1]
           y == at[2]
           i == c.size - x
           item == LookupAround(c, i)
           u == c.size - item + 2 * y
           v == 2 * y
<1>1. x \in Nat /\ y \in Nat \ {0} /\ c.size = Len(p) + 1 /\ Len(p) \in Nat /\ x < c.size /\ x # 0
  BY DEF Offsets, IdsOK
<1> HIDE DEF x, y
<1>2. i \in 0 .. Len(p)
  BY <1>1
<1>3. item \in 0 .. i /\ (item # 0 => item \in Kept(c))
  <2> HIDE DEF i
  <2> QED BY <1>2, LookupFacts
<1> HIDE DEF item
<1>4. u \in Nat /\ v \in Nat \ {0} /\ u >= x + 1 /\ item \in Nat
  BY <1>1, <1>2, <1>3
<1> DEFINE nx == << u, v >>
<1>5. nx \in Offsets /\ nx[1] = u
  <2> HIDE DEF u, v
  <2> QED BY <1>4 DEF Offsets
<1> QED BY <1>3, <1>4, <1>5 DEF item, x, y

LEMMA OlderUpTo ==
  ASSUME NEW c, NEW p \in Seq(Blocks), IdsOK(c, p), NEW n \in Nat, n <= Len(p)
  PROVE  \E f : DOMAIN f = Offsets /\ \A at \in From(c.size - n) : OlderIs(c, f, at)
<1> DEFINE Good(f, m) == DOMAIN f = Offsets /\ \A at \in From(c.size - m) : OlderIs(c, f, at)
<1> DEFINE S == { m \in Nat : m <= Len(p) => \E f : Good(f, m) }
<1>0. c.size = Len(p) + 1 /\ Len(p) \in Nat /\ c.size \in Nat
  BY DEF IdsOK
<1>1. 0 \in S
  <2> DEFINE f == [at \in Offsets |-> {}]
  <2>1. ASSUME NEW at \in From(c.size - 0) PROVE OlderIs(c, f, at)
    <3>1. at \in Offsets /\ at[1] >= c.size
      BY <1>0 DEF From
    <3>2. f[at] = {}
      BY <3>1
    <3> HIDE DEF f
    <3> QED BY <3>1, <3>2 DEF OlderIs
  <2>2. DOMAIN f = Offsets
    OBVIOUS
  <2> HIDE DEF f
  <2>3. Good(f, 0)
    BY <2>1, <2>2
  <2> HIDE DEF Good
  <2> QED BY <2>3
<1>2. ASSUME NEW m \in Nat, m \in S PROVE m + 1 \in S
  <2> SUFFICES ASSUME m + 1 <= Len(p) PROVE \E f : Good(f, m + 1)
    OBVIOUS
  <2>1. PICK f : Good(f, m)
    BY <1>0, <1>2
  <2> DEFINE g == [at \in Offsets |-> IF at[1] < c.size /\ LookupAround(c, c.size - at[1]) # 0
                 THEN {LookupAround(c, c.size - at[1])} \cup f[<< c.size - LookupAround(c, c.size - at[1]) + 2 * at[2], 2 * at[2] >>]
                 ELSE {}]
  <2>2. DOMAIN g = Offsets
    OBVIOUS
  <2>3. \A at \in Offsets : at[1] \in Nat
    BY DEF Offsets
  <2>4. \A at \in From(c.size - m) : g[at] = f[at]
    <3> TAKE at \in From(c.size - m)
    <3>1. at \in Offsets /\ OlderIs(c, f, at) /\ at[1] \in Nat
      BY <2>1, <2>3 DEF From
    <3>2. CASE at[1] >= c.size
      BY <1>0, <3>1, <3>2 DEF OlderIs
    <3>3. CASE ~(at[1] >= c.size)
      <4>1. at[1] < c.size
        BY <1>0, <3>1, <3>3
      <4> QED BY <3>1, <3>3, <4>1 DEF OlderIs
    <3> QED BY <3>2, <3>3
  <2>5. ASSUME NEW at \in From(c.size - (m + 1)) PROVE OlderIs(c, g, at)
    <3> DEFINE item == LookupAround(c, c.size - at[1])
               nx == << c.size - item + 2 * at[2], 2 * at[2] >>
    <3>1. at \in Offsets /\ at[1] \in Nat /\ at[1] >= c.size - (m + 1) /\ at[1] # 0
      BY <1>0, <2>3 DEF From
    <3>2. CASE ~(at[1] < c.size /\ item # 0)
      <4>1. g[at] = {}
        BY <3>1, <3>2
      <4> HIDE DEF g
      <4>2. at[1] >= c.size \/ item = 0
        BY <1>0, <3>1, <3>2
      <4> QED BY <4>1, <4>2 DEF OlderIs
    <3>3. CASE at[1] < c.size /\ item # 0
      <4>1. g[at] = {item} \cup f[nx]
        BY <3>1, <3>3
      <4>2. item \in Kept(c) /\ nx \in Offsets /\ nx[1] >= at[1] + 1
        BY <3>1, <3>3, OffsetFacts
      <4> HIDE DEF nx
      <4>3. nx \in From(c.size - m)
        <5>1. nx[1] \in Nat
          BY <2>3, <4>2
        <5> QED BY <1>0, <3>1, <4>2, <5>1 DEF From
      <4>4. g[nx] = f[nx]
        BY <2>1, <2>4, <4>3
      <4> HIDE DEF g
      <4>5. ~(at[1] >= c.size)
        BY <1>0, <3>1, <3>3
      <4> QED BY <3>3, <4>1, <4>4, <4>5 DEF OlderIs, nx
    <3> QED BY <3>2, <3>3
  <2> HIDE DEF g
  <2>6. Good(g, m + 1)
    BY <2>2, <2>5
  <2> HIDE DEF Good
  <2> QED BY <2>6
<1> HIDE DEF S, Good
<1>3. Nat \subseteq S
  BY <1>1, <1>2, NatSetInduction
<1>4. \E f : Good(f, n)
  BY <1>3 DEF S
<1> QED BY <1>4 DEF Good

LEMMA OlderKept ==
  ASSUME NEW c, NEW p \in Seq(Blocks), IdsOK(c, p), NEW f, \A at \in From(1) : OlderIs(c, f, at), NEW at \in From(1)
  PROVE  f[at] \subseteq Kept(c)
<1> DEFINE T == { n \in Nat : \E x \in From(1) : n = c.size - x[1] /\ ~(f[x] \subseteq Kept(c)) }
<1> SUFFICES ASSUME ~(f[at] \subseteq Kept(c)) PROVE FALSE
  OBVIOUS
<1>0. c.size \in Nat /\ \A x \in From(1) : x \in Offsets /\ x[1] \in Nat /\ x[1] # 0
  BY DEF IdsOK, From, Offsets
<1>1. ASSUME NEW x \in From(1), ~(f[x] \subseteq Kept(c))
      PROVE  LET item == LookupAround(c, c.size - x[1])
             IN  /\ x[1] < c.size /\ item # 0
                 /\ f[x] = {item} \cup f[<< c.size - item + 2 * x[2], 2 * x[2] >>]
  <2>1. ~(x[1] >= c.size)
    BY <1>1 DEF OlderIs
  <2>2. x[1] < c.size
    BY <1>0, <2>1
  <2> QED BY <1>1, <2>1, <2>2 DEF OlderIs
<1>2. T \in SUBSET Nat /\ T # {}
  <2>1. at[1] < c.size
    BY <1>1
  <2>2. c.size - at[1] \in Nat
    BY <1>0, <2>1
  <2> QED BY <2>2
<1>3. PICK n \in T : \A m \in T : ~(m < n)
  <2> HIDE DEF T
  <2> QED BY <1>2, LeastElement
<1>4. PICK x \in From(1) : n = c.size - x[1] /\ ~(f[x] \subseteq Kept(c))
  OBVIOUS
<1> DEFINE item == LookupAround(c, c.size - x[1])
           nx == << c.size - item + 2 * x[2], 2 * x[2] >>
<1>5. x[1] < c.size /\ item # 0 /\ f[x] = {item} \cup f[nx]
  BY <1>1, <1>4
<1>6. item \in Kept(c) /\ nx \in Offsets /\ nx[1] >= x[1] + 1
  BY <1>0, <1>5, OffsetFacts
<1> HIDE DEF item, nx
<1>7. nx \in From(1) /\ nx[1] \in Nat
  <2>1. nx[1] \in Nat
    BY <1>6 DEF Offsets
  <2> QED BY <1>0, <1>6, <2>1 DEF From
<1>8. ~(f[nx] \subseteq Kept(c))
  BY <1>4, <1>5, <1>6
<1>9. nx[1] < c.size
  BY <1>1, <1>7, <1>8
<1>10. c.size - nx[1] \in Nat /\ c.size - nx[1] < n
  BY <1>0, <1>4, <1>6, <1>7, <1>9
<1> QED BY <1>3, <1>7, <1>8, <1>10

\* A short history holds ids that are kept.
LEMMA HistoryKept ==
  ASSUME NEW c, NEW p \in Seq(Blocks), IdsOK(c, p)
  PROVE  History(c) \subseteq Kept(c)
<1> DEFINE Rhs(f, at) == LET item == LookupAround(c, c.size - at[1])
                         IN  IF at[1] >= c.size \/ item = 0 THEN {}
                             ELSE {item} \cup f[<< c.size - item + 2 * at[2], 2 * at[2] >>]
<1>0. c.size = Len(p) + 1 /\ Len(p) \in Nat
  BY DEF IdsOK
<1>1. PICK f : DOMAIN f = Offsets /\ \A at \in From(1) : OlderIs(c, f, at)
  <2>1. Len(p) <= Len(p) /\ c.size - Len(p) = 1
    BY <1>0
  <2> QED BY <1>0, <2>1, OlderUpTo
<1>2. \E g : g = [at \in Offsets |-> Rhs(g, at)]
  <2> DEFINE g == [at \in Offsets |-> IF at[1] = 0 THEN Rhs(f, at) ELSE f[at]]
  <2>1. ASSUME NEW at \in Offsets PROVE g[at] = Rhs(g, at)
    <3> DEFINE item == LookupAround(c, c.size - at[1])
               nx == << c.size - item + 2 * at[2], 2 * at[2] >>
    <3>0. at[1] \in Nat /\ at[2] \in Nat \ {0}
      BY DEF Offsets
    <3>1. g[at] = Rhs(f, at)
      <4>1. CASE at[1] = 0
        BY <4>1
      <4>2. CASE at[1] # 0
        <5>1. at \in From(1)
          BY <3>0, <4>2 DEF From
        <5> QED BY <1>1, <4>2, <5>1 DEF OlderIs
      <4> QED BY <4>1, <4>2
    <3>2. CASE at[1] >= c.size \/ item = 0
      <4> HIDE DEF g
      <4> QED BY <3>1, <3>2
    <3>3. CASE ~(at[1] >= c.size \/ item = 0)
      <4>1. nx \in Offsets /\ nx[1] \in Nat /\ nx[1] # 0
        <5>1. CASE at[1] = 0
          <6> DEFINE s == c.size
          <6>1. item = LookupAround(c, s)
            BY <1>0, <5>1
          <6>2. s \in Nat /\ s % Step \in Nat /\ s % Step <= s
            BY <1>0, RemainderFacts
          <6> HIDE DEF s
          <6>3. item \in 0 .. s
            BY <6>1, <6>2 DEF LookupAround
          <6> HIDE DEF item
          <6> DEFINE v == 2 * at[2]
                     u == c.size - item + v
          <6>a. v \in Nat \ {0}
            BY <3>0
          <6>b. c.size \in Nat /\ item \in Nat /\ item <= c.size
            BY <6>2, <6>3 DEF s
          <6> HIDE DEF v
          <6>4. u \in Nat /\ u # 0 /\ v \in Nat \ {0}
            BY <6>a, <6>b
          <6> USE DEF v
          <6> HIDE DEF u, v
          <6>5. << u, v >> \in Offsets /\ << u, v >>[1] = u
            BY <6>4 DEF Offsets
          <6> QED BY <6>4, <6>5 DEF u, v
        <5>2. CASE at[1] # 0
          <6>1. at[1] < c.size
            BY <1>0, <3>0, <3>3
          <6>2. nx \in Offsets /\ nx[1] >= at[1] + 1
            BY <5>2, <6>1, OffsetFacts
          <6> HIDE DEF nx
          <6>3. nx[1] \in Nat
            BY <6>2 DEF Offsets
          <6> QED BY <3>0, <6>2, <6>3
        <5> QED BY <5>1, <5>2
      <4> HIDE DEF nx
      <4>2. g[nx] = f[nx]
        BY <4>1
      <4>3. Rhs(f, at) = {item} \cup f[nx] /\ Rhs(g, at) = {item} \cup g[nx]
        <5> HIDE DEF g
        <5> QED BY <3>3 DEF nx
      <4> HIDE DEF g
      <4> QED BY <3>1, <4>2, <4>3
    <3> QED BY <3>2, <3>3
  <2>2. g = [at \in Offsets |-> g[at]]
    OBVIOUS
  <2> HIDE DEF g, Rhs
  <2>3. g = [at \in Offsets |-> Rhs(g, at)]
    BY <2>1, <2>2
  <2> QED BY <2>3
<1> DEFINE older == CHOOSE g : g = [at \in Offsets |-> Rhs(g, at)]
<1>3. older = [at \in Offsets |-> Rhs(older, at)]
  <2> HIDE DEF Rhs
  <2> QED BY <1>2
<1> DEFINE n == Cardinality(DOMAIN Keep(c.recent, HistoryIds)) + 1
<1>4. History(c) = DOMAIN Keep(c.recent, HistoryIds) \cup older[<< n, 1 >>]
  BY DEF History, Offsets
<1> HIDE DEF older
<1>5. \A at \in From(1) : OlderIs(c, older, at)
  <2> TAKE at \in From(1)
  <2>1. at \in Offsets
    BY DEF From
  <2>2. older[at] = Rhs(older, at)
    <3> HIDE DEF Rhs
    <3> QED BY <1>3, <2>1
  <2> QED BY <2>2 DEF OlderIs
<1>6. DOMAIN Keep(c.recent, HistoryIds) \subseteq DOMAIN c.recent /\ DOMAIN c.recent \subseteq 1 .. Len(p)
  BY DEF Keep, IdsOK
<1>7. n \in Nat /\ n >= 1
  <2>1. IsFiniteSet(1 .. Len(p))
    BY <1>0, FS_Interval
  <2>2. IsFiniteSet(DOMAIN Keep(c.recent, HistoryIds))
    <3>1. DOMAIN Keep(c.recent, HistoryIds) \subseteq 1 .. Len(p)
      BY <1>6
    <3> QED BY <2>1, <3>1, FS_Subset
  <2>3. Cardinality(DOMAIN Keep(c.recent, HistoryIds)) \in Nat
    BY <2>2, FS_CardinalityType
  <2> QED BY <2>3
<1> HIDE DEF n
<1>8. << n, 1 >> \in From(1)
  BY <1>7 DEF From, Offsets
<1>9. older[<< n, 1 >>] \subseteq Kept(c)
  <2> HIDE DEF Rhs
  <2> DEFINE x == << n, 1 >>
  <2>1. x \in From(1)
    BY <1>8
  <2> HIDE DEF x
  <2>2. older[x] \subseteq Kept(c)
    BY <1>5, <2>1, OlderKept
  <2> QED BY <2>2 DEF x
<1> QED BY <1>4, <1>6, <1>9 DEF Kept

-----------------------------------------------------------------------------
(* The records, and what the operations do to each of their fields. *)

Shape(s) ==
  s \in [ids : {s.ids}, tr : {s.tr}, ki : {s.ki}, hist : {s.hist}, unc : {s.unc}, inc : {s.inc},
         free : {s.free}, resync : BOOLEAN, seen : {s.seen}, due : {s.due}, revived : BOOLEAN]

Hit(s, t) == { s.ki[o] : o \in Known(s, t) }
NewOuts(s, t) == Outs[t] \ DOMAIN s.ki
FirstFree(s) == IF DOMAIN s.tr = {} THEN 0 ELSE Max(DOMAIN s.tr) + 1
Numbering(s, t) ==
  CHOOSE f \in Bijection(FirstFree(s) .. FirstFree(s) + Cardinality(NewOuts(s, t)) - 1, NewOuts(s, t)) : TRUE
NewTransfers(out, h) ==
  [i \in DOMAIN out |-> [out |-> out[i], height |-> h, spent |-> FALSE, at |-> 0]]
SpentTransfers(tr, hit, h) ==
  [i \in DOMAIN tr |-> IF i \in hit THEN [tr[i] EXCEPT !.spent = TRUE, !.at = h] ELSE tr[i]]

TxUnc(s, t) == Restrict(s.unc, DOMAIN s.unc \ {t})
TxResync(s, t) == ~(Hit(s, t) \subseteq DOMAIN s.tr)
TxTr(s, t, h) == Override(NewTransfers(Numbering(s, t), h), SpentTransfers(s.tr, Hit(s, t), h))
TxKi(s, t) ==
  Override([o \in NewOuts(s, t) |-> CHOOSE i \in DOMAIN Numbering(s, t) : Numbering(s, t)[i] = o], s.ki)
TxFree(s, t) == s.free \cup { << i, Numbering(s, t)[i] >> : i \in DOMAIN Numbering(s, t) }
TxHist(s, t, h) ==
  IF Touches(s, t) THEN s.hist \cup {[tx |-> t, height |-> h, outgoing |-> Hit(s, t) # {}]} ELSE s.hist

LEMMA ProcessTxFields ==
  ASSUME NEW s, Shape(s), NEW t, NEW h
  PROVE  LET r == ProcessTx(s, t, h)
         IN  /\ Shape(r) /\ r.ids = s.ids /\ r.seen = s.seen /\ r.inc = s.inc /\ r.due = s.due
             /\ r.revived = s.revived /\ r.resync = TxResync(s, t) /\ r.unc = TxUnc(s, t)
             /\ r.tr = TxTr(s, t, h) /\ r.ki = TxKi(s, t) /\ r.free = TxFree(s, t) /\ r.hist = TxHist(s, t, h)
<1> DEFINE u == TxUnc(s, t)
           y == TxResync(s, t)
           a == TxTr(s, t, h)
           k == TxKi(s, t)
           f == TxFree(s, t)
           e == TxHist(s, t, h)
           r == ProcessTx(s, t, h)
<1>1. r = [s EXCEPT !.unc = u, !.resync = y, !.tr = a, !.ki = k, !.free = f, !.hist = e]
  BY DEF ProcessTx, Hit, NewOuts, FirstFree, Numbering, NewTransfers, SpentTransfers,
         TxUnc, TxResync, TxTr, TxKi, TxFree, TxHist
<1>2. y \in BOOLEAN
  BY DEF TxResync
<1> HIDE DEF u, y, a, k, f, e, r
<1>3. /\ r.ids = s.ids /\ r.seen = s.seen /\ r.inc = s.inc /\ r.due = s.due /\ r.revived = s.revived
      /\ r.unc = u /\ r.resync = y /\ r.tr = a /\ r.ki = k /\ r.free = f /\ r.hist = e
  BY <1>1 DEF Shape
<1>4. Shape(r)
  BY <1>1, <1>2 DEF Shape
<1> QED BY <1>3, <1>4 DEF u, y, a, k, f, e, r

\* The scan of a block, transaction by transaction.
Scans(f, s, b, h, n) ==
  /\ f[0] = s
  /\ \A i \in 1 .. n : f[i] = IF f[i - 1].resync THEN f[i - 1] ELSE ProcessTx(f[i - 1], TxsOf[b][i], h)
WithBlock(s, b, h) == [s EXCEPT !.ids = PushId(@, b, h), !.seen = Append(@, b)]

LEMMA ScanExists ==
  ASSUME NEW s, NEW b, NEW h, NEW n \in Nat
  PROVE  \E f : Scans(f, s, b, h, n)
<1> DEFINE S == { m \in Nat : \E f : Scans(f, s, b, h, m) }
<1>1. 0 \in S
  <2> DEFINE f == [i \in {0} |-> s]
  <2>1. f[0] = s /\ 1 .. 0 = {}
    OBVIOUS
  <2> HIDE DEF f
  <2>2. Scans(f, s, b, h, 0)
    BY <2>1 DEF Scans
  <2> QED BY <2>2
<1>2. ASSUME NEW m \in Nat, m \in S PROVE m + 1 \in S
  <2>1. PICK f : Scans(f, s, b, h, m)
    BY <1>2
  <2> DEFINE x == IF f[m].resync THEN f[m] ELSE ProcessTx(f[m], TxsOf[b][m + 1], h)
             g == [i \in 0 .. m + 1 |-> IF i = m + 1 THEN x ELSE f[i]]
  <2>2. g[m + 1] = x /\ \A i \in 0 .. m : g[i] = f[i]
    <3> HIDE DEF x
    <3> QED OBVIOUS
  <2> HIDE DEF g
  <2>3. ASSUME NEW i \in 1 .. m + 1
        PROVE  g[i] = IF g[i - 1].resync THEN g[i - 1] ELSE ProcessTx(g[i - 1], TxsOf[b][i], h)
    <3>1. CASE i = m + 1
      <4>1. i - 1 = m /\ g[i - 1] = f[m] /\ g[i] = x
        BY <2>2, <3>1
      <4> QED BY <3>1, <4>1
    <3>2. CASE i # m + 1
      <4>1. i \in 1 .. m /\ g[i] = f[i] /\ g[i - 1] = f[i - 1]
        BY <2>2, <3>2
      <4> QED BY <2>1, <4>1 DEF Scans
    <3> QED BY <3>1, <3>2
  <2>4. g[0] = s
    BY <2>1, <2>2 DEF Scans
  <2>5. Scans(g, s, b, h, m + 1)
    BY <2>3, <2>4 DEF Scans
  <2> QED BY <2>5
<1> HIDE DEF S
<1>3. Nat \subseteq S
  BY <1>1, <1>2, NatSetInduction
<1>4. n \in S
  BY <1>3
<1> QED BY <1>4 DEF S

LEMMA ScanFacts ==
  ASSUME NEW s, NEW b \in Blocks, NEW h
  PROVE  \E f : /\ Scans(f, s, b, h, Len(TxsOf[b]))
                /\ ProcessBlock(s, b, h) = IF f[Len(TxsOf[b])].resync THEN f[Len(TxsOf[b])]
                                           ELSE WithBlock(f[Len(TxsOf[b])], b, h)
<1> DEFINE n == Len(TxsOf[b])
           Rhs(f, i) == IF i = 0 THEN s
                        ELSE IF f[i - 1].resync THEN f[i - 1] ELSE ProcessTx(f[i - 1], TxsOf[b][i], h)
<1>0. n \in Nat
  BY TxsAssumption
<1> HIDE DEF n
<1>1. PICK f : Scans(f, s, b, h, n)
  BY <1>0, ScanExists
<1>2. \E g : g = [i \in 0 .. n |-> Rhs(g, i)]
  <2> DEFINE g == [i \in 0 .. n |-> f[i]]
  <2>1. \A i \in 0 .. n : g[i] = f[i] /\ (i # 0 => i \in 1 .. n /\ g[i - 1] = f[i - 1])
    BY <1>0
  <2>2. g = [i \in 0 .. n |-> g[i]]
    OBVIOUS
  <2> HIDE DEF g
  <2>3. \A i \in 0 .. n : g[i] = Rhs(g, i)
    BY <1>1, <2>1 DEF Scans
  <2> HIDE DEF Rhs
  <2>4. g = [i \in 0 .. n |-> Rhs(g, i)]
    BY <2>2, <2>3
  <2> QED BY <2>4
<1> DEFINE scan == CHOOSE g : g = [i \in 0 .. n |-> Rhs(g, i)]
<1>3. scan = [i \in 0 .. n |-> Rhs(scan, i)]
  <2> HIDE DEF Rhs
  <2> QED BY <1>2
<1>4. ProcessBlock(s, b, h) = IF scan[n].resync THEN scan[n] ELSE WithBlock(scan[n], b, h)
  BY DEF ProcessBlock, WithBlock, n
<1> HIDE DEF scan
<1>5. \A i \in 0 .. n : scan[i] = Rhs(scan, i)
  <2> HIDE DEF Rhs
  <2> QED BY <1>3
<1>6. Scans(scan, s, b, h, n)
  <2>1. \A i \in 1 .. n : i \in 0 .. n /\ i # 0
    BY <1>0
  <2>2. 0 \in 0 .. n
    BY <1>0
  <2> QED BY <1>5, <2>1, <2>2 DEF Scans
<1> HIDE DEF Rhs
<1> QED BY <1>4, <1>6 DEF n

LEMMA FreshFields ==
  /\ Shape(Fresh) /\ Fresh.ids = NoIds /\ Fresh.tr = << >> /\ Fresh.ki = << >> /\ Fresh.hist = {}
  /\ Fresh.unc = << >> /\ Fresh.inc = {} /\ Fresh.free = {} /\ ~Fresh.resync /\ Fresh.seen = << >>
  /\ Fresh.due = {} /\ ~Fresh.revived
BY DEF Fresh, Shape

LEMMA FullResetFields ==
  ASSUME NEW s
  PROVE  LET r == FullReset(s)
         IN  /\ Shape(r) /\ r.ids = NoIds /\ r.tr = << >> /\ r.ki = << >> /\ r.hist = {}
             /\ r.unc = s.unc /\ r.inc = {} /\ r.free = s.free /\ ~r.resync /\ r.seen = << >>
             /\ r.due = {} /\ ~r.revived
<1> DEFINE u == s.unc
           f == s.free
<1>1. FullReset(s) = [Fresh EXCEPT !.unc = u, !.free = f]
  BY DEF FullReset
<1> HIDE DEF u, f
<1>2. /\ Shape([Fresh EXCEPT !.unc = u, !.free = f])
  BY DEF Shape, Fresh
<1>3. LET r == [Fresh EXCEPT !.unc = u, !.free = f]
      IN  /\ r.ids = NoIds /\ r.tr = << >> /\ r.ki = << >> /\ r.hist = {}
          /\ r.unc = u /\ r.inc = {} /\ r.free = f /\ ~r.resync /\ r.seen = << >> /\ r.due = {} /\ ~r.revived
  BY DEF Fresh
<1> QED BY <1>1, <1>2, <1>3 DEF u, f

\* What is removed when the blocks from h on are detached.
Gone(s, h) == { i \in DOMAIN s.tr : s.tr[i].height >= h }
GoneOuts(s, h) == { s.tr[i].out : i \in Gone(s, h) }
Back(s, h) == { e \in s.hist : e.height >= h }
Unspent(tr, h) == [i \in DOMAIN tr |-> IF tr[i].at >= h THEN [tr[i] EXCEPT !.at = 0] ELSE tr[i]]

LEMMA DetachFields ==
  ASSUME NEW s, Shape(s), NEW h
  PROVE  LET r == DetachBlockchain(s, h)
         IN  /\ Shape(r) /\ r.ids = DetachIds(s.ids, h) /\ r.seen = Prefix(s.seen, h - 1)
             /\ r.tr = Unspent(Restrict(s.tr, DOMAIN s.tr \ Gone(s, h)), h)
             /\ r.ki = Restrict(s.ki, DOMAIN s.ki \ GoneOuts(s, h))
             /\ r.hist = s.hist \ Back(s, h)
             /\ r.unc = Override(s.unc, Returned({ e \in Back(s, h) : e.tx \notin Coinbase }))
             /\ r.inc = s.inc /\ r.free = s.free /\ r.resync = s.resync
             /\ r.due = s.due \cup Staked(Back(s, h))
             /\ r.revived = (s.revived \/ SpendReturns(s, h))
<1> DEFINE t1 == Restrict(s.tr, DOMAIN s.tr \ Gone(s, h))
           k1 == Restrict(s.ki, DOMAIN s.ki \ GoneOuts(s, h))
           a == RollbackTransfers(s, h)
<1>1. a = [s EXCEPT !.tr = t1, !.ki = k1]
  BY DEF RollbackTransfers, Gone, GoneOuts
<1> HIDE DEF t1, k1, a
<1>2. /\ Shape(a) /\ a.tr = t1 /\ a.ki = k1 /\ a.ids = s.ids /\ a.seen = s.seen /\ a.hist = s.hist /\ a.unc = s.unc
      /\ a.inc = s.inc /\ a.free = s.free /\ a.resync = s.resync /\ a.due = s.due /\ a.revived = s.revived
  BY <1>1 DEF Shape
<1> DEFINE t2 == Unspent(a.tr, h)
           b == RollbackSpends(a, h)
<1>3. b = [a EXCEPT !.tr = t2]
  BY DEF RollbackSpends, Unspent
<1> HIDE DEF t2, b
<1>4. /\ Shape(b) /\ b.tr = t2 /\ b.ki = k1 /\ b.ids = s.ids /\ b.seen = s.seen /\ b.hist = s.hist /\ b.unc = s.unc
      /\ b.inc = s.inc /\ b.free = s.free /\ b.resync = s.resync /\ b.due = s.due /\ b.revived = s.revived
  BY <1>2, <1>3 DEF Shape
<1> DEFINE hi == b.hist \ Back(b, h)
           un == Override(b.unc, Returned({ e \in Back(b, h) : e.tx \notin Coinbase }))
           du == b.due \cup Staked(Back(b, h))
           c == RollbackHistory(b, h)
<1>5. c = [b EXCEPT !.hist = hi, !.unc = un, !.due = du]
  BY DEF RollbackHistory, Back
<1> HIDE DEF hi, un, du, c
<1>6. /\ Shape(c) /\ c.tr = t2 /\ c.ki = k1 /\ c.ids = s.ids /\ c.seen = s.seen /\ c.hist = hi /\ c.unc = un
      /\ c.inc = s.inc /\ c.free = s.free /\ c.resync = s.resync /\ c.due = du /\ c.revived = s.revived
  BY <1>4, <1>5 DEF Shape
<1> DEFINE id == DetachIds(c.ids, h)
           sn == SubSeq(c.seen, 1, h - 1)
           rv == c.revived \/ SpendReturns(s, h)
           r == DetachBlockchain(s, h)
<1>7. r = [c EXCEPT !.ids = id, !.seen = sn, !.revived = rv]
  BY DEF DetachBlockchain, c, b, a
<1>8. rv \in BOOLEAN
  OBVIOUS
<1> HIDE DEF id, sn, rv, r
<1>9. /\ Shape(r) /\ r.tr = t2 /\ r.ki = k1 /\ r.ids = id /\ r.seen = sn /\ r.hist = hi /\ r.unc = un
      /\ r.inc = s.inc /\ r.free = s.free /\ r.resync = s.resync /\ r.due = du /\ r.revived = rv
  BY <1>6, <1>7, <1>8 DEF Shape
<1>10. Back(b, h) = Back(s, h)
  BY <1>4 DEF Back
<1>11. hi = s.hist \ Back(s, h) /\ un = Override(s.unc, Returned({ e \in Back(s, h) : e.tx \notin Coinbase }))
       /\ du = s.due \cup Staked(Back(s, h))
  BY <1>4, <1>10 DEF hi, un, du
<1>12. id = DetachIds(s.ids, h) /\ sn = Prefix(s.seen, h - 1) /\ rv = (s.revived \/ SpendReturns(s, h))
       /\ t2 = Unspent(t1, h)
  BY <1>2, <1>6 DEF id, sn, rv, t2, Prefix
<1> QED BY <1>9, <1>11, <1>12 DEF r, t1, k1

HuInc(s, found) == s.inc \cup { t \in found : Touches(s, t) }
HuUnc(s, found) ==
  Override([t \in NewPending(s, found) |-> [sel |-> Selected(s, t), old |-> FALSE,
                                            outgoing |-> Selected(s, t) # {}]], s.unc)
HuTr(s, found) == Marked(s.tr, UNION { Selected(s, t) : t \in NewPending(s, found) }, TRUE)
HuRevived(s, found) == s.revived \/ \E t \in NewPending(s, found) : Ins[t] \cap Forgotten(s) # {}

LEMMA HandleFields ==
  ASSUME NEW s, Shape(s), NEW found
  PROVE  LET r == HandleUnconfirmed(s, found)
         IN  /\ Shape(r) /\ r.ids = s.ids /\ r.seen = s.seen /\ r.ki = s.ki /\ r.hist = s.hist
             /\ r.free = s.free /\ r.resync = s.resync /\ r.due = s.due /\ r.inc = HuInc(s, found)
             /\ r.unc = HuUnc(s, found) /\ r.tr = HuTr(s, found) /\ r.revived = HuRevived(s, found)
<1> DEFINE i == HuInc(s, found)
           u == HuUnc(s, found)
           a == HuTr(s, found)
           v == HuRevived(s, found)
           r == HandleUnconfirmed(s, found)
<1>1. r = [s EXCEPT !.inc = i, !.unc = u, !.tr = a, !.revived = v]
  BY DEF HandleUnconfirmed, HuInc, HuUnc, HuTr, HuRevived
<1>2. v \in BOOLEAN
  BY DEF HuRevived
<1> HIDE DEF i, u, a, v, r
<1>3. /\ Shape(r) /\ r.ids = s.ids /\ r.seen = s.seen /\ r.ki = s.ki /\ r.hist = s.hist
      /\ r.free = s.free /\ r.resync = s.resync /\ r.due = s.due
      /\ r.inc = i /\ r.unc = u /\ r.tr = a /\ r.revived = v
  BY <1>1, <1>2 DEF Shape
<1> QED BY <1>3 DEF i, u, a, v, r

\* on_idle, with the cache cleared, and truncate_wallet.
Alive(tr, unc) == { i \in DOMAIN tr : tr[i].at = 0 /\ tr[i].out \notin Reserving(unc) }
Released(s) == Marked(s.tr, { i \in SelectedBy(s, Outdated(s)) : s.tr[i].at = 0 }, FALSE)
Compliant(s) == Restrict(s.unc, Pending(s) \ Outdated(s))
IdleTransfers(s) == Marked(Released(s), Alive(Released(s), Compliant(s)), FALSE)
Buriable(tr, size) == { j \in DOMAIN tr : tr[j].spent /\ tr[j].at # 0 /\ tr[j].at + ConciseDepth < size - 1 }

LEMMA FinishFields ==
  ASSUME NEW s, Shape(s)
  PROVE  LET r == Truncate([OnIdle(s) EXCEPT !.free = {}])
             tr == IdleTransfers(s)
         IN  /\ Shape(r) /\ r.ids = s.ids /\ r.seen = s.seen /\ r.ki = s.ki /\ r.hist = s.hist
             /\ r.free = {} /\ r.resync = s.resync /\ r.due = {} /\ r.inc = s.inc
             /\ r.revived = s.revived /\ r.unc = Compliant(s)
             /\ r.tr = [i \in DOMAIN tr \ Buriable(tr, s.ids.size) |-> tr[i]]
<1> DEFINE u == Compliant(s)
           a == IdleTransfers(s)
           o == OnIdle(s)
<1>1. o = [s EXCEPT !.unc = u, !.tr = a, !.due = {}]
  BY DEF OnIdle, Compliant, IdleTransfers, Alive, Released
<1> HIDE DEF u, a, o
<1> DEFINE p == [o EXCEPT !.free = {}]
<1>2. /\ Shape(p) /\ p.ids = s.ids /\ p.seen = s.seen /\ p.ki = s.ki /\ p.hist = s.hist
      /\ p.free = {} /\ p.resync = s.resync /\ p.due = {} /\ p.inc = s.inc
      /\ p.revived = s.revived /\ p.unc = u /\ p.tr = a
  BY <1>1 DEF Shape
<1> HIDE DEF p
<1> DEFINE d == [i \in DOMAIN p.tr \ Buriable(p.tr, p.ids.size) |-> p.tr[i]]
           r == Truncate(p)
<1>3. r = [p EXCEPT !.tr = d]
  <2>1. { j \in DOMAIN p.tr : ~(p.tr[j].spent /\ p.tr[j].at # 0 /\ p.tr[j].at + ConciseDepth < p.ids.size - 1) }
        = DOMAIN p.tr \ Buriable(p.tr, p.ids.size)
    BY DEF Buriable
  <2> QED BY <2>1 DEF Truncate
<1> HIDE DEF d, r
<1>4. /\ Shape(r) /\ r.ids = s.ids /\ r.seen = s.seen /\ r.ki = s.ki /\ r.hist = s.hist
      /\ r.free = {} /\ r.resync = s.resync /\ r.due = {} /\ r.inc = s.inc
      /\ r.revived = s.revived /\ r.unc = u /\ r.tr = d
  BY <1>2, <1>3 DEF Shape
<1>5. d = [i \in DOMAIN a \ Buriable(a, s.ids.size) |-> a[i]]
  BY <1>2 DEF d
<1> QED BY <1>4, <1>5 DEF r, p, o, u, a

-----------------------------------------------------------------------------
(* The chain of the wallet. *)

ChainOK(s) == Shape(s) /\ ~s.resync /\ Chain(s.seen) /\ IdsOK(s.ids, s.seen)

LEMMA EmptyChain == Chain(<< >>)
BY PathOfGenesis, TreeAssumption DEF Chain, TopOf

LEMMA FreshChain == ChainOK(Fresh)
BY FreshFields, EmptyChain, NoIdsOK DEF ChainOK

LEMMA FullResetChain ==
  ASSUME NEW s
  PROVE  ChainOK(FullReset(s))
BY FullResetFields, EmptyChain, NoIdsOK DEF ChainOK

LEMMA ScanChain ==
  ASSUME NEW s, Shape(s), NEW b, NEW h, NEW n \in Nat, NEW f, Scans(f, s, b, h, n)
  PROVE  \A i \in 0 .. n : Shape(f[i]) /\ f[i].ids = s.ids /\ f[i].seen = s.seen /\ f[i].inc = s.inc
                           /\ f[i].due = s.due /\ f[i].revived = s.revived
<1> DEFINE P(i) == Shape(f[i]) /\ f[i].ids = s.ids /\ f[i].seen = s.seen /\ f[i].inc = s.inc
                   /\ f[i].due = s.due /\ f[i].revived = s.revived
           S == { i \in Nat : i <= n => P(i) }
<1>1. 0 \in S
  BY DEF Scans
<1>2. ASSUME NEW i \in Nat, i \in S PROVE i + 1 \in S
  <2> SUFFICES ASSUME i + 1 <= n PROVE P(i + 1)
    OBVIOUS
  <2>1. P(i) /\ i + 1 \in 1 .. n /\ (i + 1) - 1 = i
    BY <1>2
  <2>2. f[i + 1] = IF f[i].resync THEN f[i] ELSE ProcessTx(f[i], TxsOf[b][i + 1], h)
    BY <2>1 DEF Scans
  <2> DEFINE x == f[i]
             t == TxsOf[b][i + 1]
             r == ProcessTx(x, t, h)
  <2>3. Shape(r) /\ r.ids = x.ids /\ r.seen = x.seen /\ r.inc = x.inc /\ r.due = x.due /\ r.revived = x.revived
    <3>1. Shape(x)
      BY <2>1
    <3> HIDE DEF x, t
    <3> QED BY <3>1, ProcessTxFields
  <2> HIDE DEF r
  <2> QED BY <2>1, <2>2, <2>3 DEF r
<1> HIDE DEF S, P
<1>3. Nat \subseteq S
  BY <1>1, <1>2, NatSetInduction
<1>4. \A i \in 0 .. n : P(i)
  BY <1>3 DEF S
<1> QED BY <1>4 DEF P

LEMMA WithBlockFields ==
  ASSUME NEW s, Shape(s), NEW b, NEW h
  PROVE  LET r == WithBlock(s, b, h)
         IN  /\ Shape(r) /\ r.ids = PushId(s.ids, b, h) /\ r.seen = Append(s.seen, b) /\ r.tr = s.tr /\ r.ki = s.ki
             /\ r.hist = s.hist /\ r.unc = s.unc /\ r.inc = s.inc /\ r.free = s.free /\ r.resync = s.resync
             /\ r.due = s.due /\ r.revived = s.revived
<1> DEFINE a == PushId(s.ids, b, h)
           q == Append(s.seen, b)
           r == WithBlock(s, b, h)
<1>1. r = [s EXCEPT !.ids = a, !.seen = q]
  BY DEF WithBlock
<1> HIDE DEF a, q, r
<1>2. /\ Shape(r) /\ r.ids = a /\ r.seen = q /\ r.tr = s.tr /\ r.ki = s.ki
      /\ r.hist = s.hist /\ r.unc = s.unc /\ r.inc = s.inc /\ r.free = s.free /\ r.resync = s.resync
      /\ r.due = s.due /\ r.revived = s.revived
  BY <1>1 DEF Shape
<1> QED BY <1>2 DEF a, q, r

LEMMA ProcessBlockChain ==
  ASSUME NEW s, ChainOK(s), NEW b \in Blocks \ {Genesis}, Path[Parent[b]] = s.seen
  PROVE  LET r == ProcessBlock(s, b, Height(b))
         IN  Shape(r) /\ (~r.resync => ChainOK(r) /\ r.seen = Path[b])
<1> DEFINE h == Height(b)
           n == Len(TxsOf[b])
           r == ProcessBlock(s, b, h)
<1>0. n \in Nat /\ Shape(s) /\ Chain(s.seen) /\ s.seen \in Seq(Blocks) /\ IdsOK(s.ids, s.seen)
  BY TxsAssumption DEF ChainOK, Chain
<1>1. Chain(Append(s.seen, b)) /\ Append(s.seen, b) = Path[b] /\ h = Len(s.seen) + 1
  BY ChainAppend
<1> HIDE DEF h, n
<1>2. PICK f : Scans(f, s, b, h, n) /\ r = IF f[n].resync THEN f[n] ELSE WithBlock(f[n], b, h)
  BY ScanFacts DEF n
<1> HIDE DEF r
<1> DEFINE x == f[n]
<1>3. Shape(x) /\ x.ids = s.ids /\ x.seen = s.seen
  <2>1. n \in 0 .. n
    BY <1>0
  <2> QED BY <1>0, <1>2, <2>1, ScanChain
<1> HIDE DEF x
<1> DEFINE y == WithBlock(x, b, h)
<1>4. Shape(y) /\ y.ids = PushId(s.ids, b, h) /\ y.seen = Append(s.seen, b) /\ y.resync = x.resync
  BY <1>3, WithBlockFields
<1>5. IdsOK(PushId(s.ids, b, h), Append(s.seen, b))
  BY <1>0, <1>1, PushIdOK
<1>6. r = IF x.resync THEN x ELSE y
  BY <1>2 DEF x
<1> HIDE DEF y
<1>9. Shape(r) /\ (~r.resync => ChainOK(r) /\ r.seen = Path[b])
  <2>1. CASE x.resync
    BY <1>3, <1>6, <2>1
  <2>2. CASE ~x.resync
    BY <1>1, <1>4, <1>5, <1>6, <2>2 DEF ChainOK
  <2> QED BY <2>1, <2>2
<1> QED BY <1>9 DEF r, h

LEMMA DetachChain ==
  ASSUME NEW s, ChainOK(s), NEW h \in 1 .. s.ids.size
  PROVE  LET r == DetachBlockchain(s, h) IN ChainOK(r) /\ r.seen = Prefix(s.seen, h - 1)
<1> DEFINE r == DetachBlockchain(s, h)
<1>0. Shape(s) /\ ~s.resync /\ Chain(s.seen) /\ s.seen \in Seq(Blocks) /\ IdsOK(s.ids, s.seen) /\ s.ids.size = Len(s.seen) + 1
  BY DEF ChainOK, Chain, IdsOK
<1>1. Shape(r) /\ r.ids = DetachIds(s.ids, h) /\ r.seen = Prefix(s.seen, h - 1) /\ r.resync = s.resync
  BY <1>0, DetachFields
<1>2. h \in 1 .. Len(s.seen) + 1 /\ h - 1 \in 0 .. Len(s.seen)
  BY <1>0
<1>3. Chain(Prefix(s.seen, h - 1)) /\ IdsOK(DetachIds(s.ids, h), Prefix(s.seen, h - 1))
  BY <1>0, <1>2, ChainPrefix, DetachIdsOK
<1> HIDE DEF r
<1>4. ChainOK(r) /\ r.seen = Prefix(s.seen, h - 1)
  BY <1>0, <1>1, <1>3 DEF ChainOK
<1> QED BY <1>4 DEF r

\* The refresh under way.  The blocks of an answer follow each other.  As long as none
\* has matched, the id at the height of the next one is kept; afterwards the next one
\* continues the wallet's chain, from its top or from the last block that matched.
JobType ==
  job \in [at : {"idle", "pull", "blocks", "finish"}, resp : Seq(Blocks), last : Nat, matched : BOOLEAN,
           added : BOOLEAN, fetched : BOOLEAN, resets : Nat]
Linked(r) == \A i \in 2 .. Len(r) : r[i] # Genesis /\ Parent[r[i]] = r[i - 1]
Continues(s, last, b) ==
  /\ b # Genesis /\ Height(b) \in 1 .. s.ids.size /\ Path[Parent[b]] = Prefix(s.seen, Height(b) - 1)
  /\ \/ Height(b) = s.ids.size
     \/ last = Height(b) - 1 /\ (last = 0 \/ LookupAround(s.ids, last) # 0)
Findable(s, b) == b # Genesis => Height(b) < s.ids.size /\ LookupAround(s.ids, Height(b)) # 0
JobOK(s, j) ==
  j.at = "blocks" /\ j.resp # << >> =>
    Linked(j.resp) /\ IF j.matched THEN Continues(s, j.last, j.resp[1]) ELSE Findable(s, j.resp[1])
ChainInv == ChainOK(w) /\ ChainOK(file) /\ JobType /\ JobOK(w, job) /\ dtop \in Blocks

LEMMA HeightFacts ==
  ASSUME NEW b \in Blocks
  PROVE  Height(b) \in Nat /\ (Height(b) = 0 <=> b = Genesis)
<1>1. CASE b = Genesis
  BY <1>1, PathOfGenesis DEF Height
<1>2. CASE b # Genesis
  <2>1. Path[b] \in Seq(Blocks) /\ Path[Parent[b]] \in Seq(Blocks) /\ Len(Path[b]) = Len(Path[Parent[b]]) + 1
    BY <1>2, PathOfChild
  <2> QED BY <1>2, <2>1 DEF Height
<1> QED BY <1>1, <1>2

LEMMA LinkedTail ==
  ASSUME NEW r \in Seq(Blocks), r # << >>, Linked(r)
  PROVE  /\ Tail(r) \in Seq(Blocks) /\ Linked(Tail(r)) /\ r[1] \in Blocks /\ Head(r) = r[1]
         /\ Tail(r) # << >> => Tail(r)[1] \in Blocks \ {Genesis} /\ Parent[Tail(r)[1]] = r[1]
<1> DEFINE q == Tail(r)
<1>1. q \in Seq(Blocks) /\ Len(q) = Len(r) - 1 /\ Len(r) \in Nat \ {0} /\ \A i \in 1 .. Len(q) : q[i] = r[i + 1]
  OBVIOUS
<1>2. r[1] \in Blocks /\ Head(r) = r[1]
  OBVIOUS
<1> HIDE DEF q
<1>3. ASSUME NEW i \in 2 .. Len(q) PROVE q[i] # Genesis /\ Parent[q[i]] = q[i - 1]
  <2>1. q[i] = r[i + 1] /\ q[i - 1] = r[i] /\ i + 1 \in 2 .. Len(r) /\ (i + 1) - 1 = i
    BY <1>1
  <2> QED BY <2>1 DEF Linked
<1>4. ASSUME q # << >> PROVE q[1] \in Blocks \ {Genesis} /\ Parent[q[1]] = r[1]
  <2>1. 1 \in 1 .. Len(q) /\ 2 \in 2 .. Len(r) /\ q[1] = r[2] /\ q[1] \in Blocks /\ 2 - 1 = 1
    BY <1>1, <1>4
  <2> QED BY <2>1 DEF Linked
<1> QED BY <1>1, <1>2, <1>3, <1>4 DEF q, Linked

LEMMA ChainParent ==
  ASSUME NEW p, Chain(p), NEW h \in 1 .. Len(p)
  PROVE  Parent[p[h]] = IF h = 1 THEN Genesis ELSE p[h - 1]
<1>0. p \in Seq(Blocks) /\ h - 1 \in 0 .. Len(p)
  BY DEF Chain
<1> DEFINE q == Prefix(p, h - 1)
<1>1. Path[Parent[p[h]]] = q /\ Parent[p[h]] \in Blocks
  BY ChainEntry
<1>2. TopOf(q) = Parent[p[h]]
  BY <1>1, PathIsChain
<1>3. q \in Seq(Blocks) /\ Len(q) = h - 1 /\ \A i \in 1 .. h - 1 : q[i] = p[i]
  BY <1>0, PrefixFacts
<1> HIDE DEF q
<1>4. CASE h = 1
  <2>1. q = << >>
    BY <1>3, <1>4
  <2> QED BY <1>2, <1>4, <2>1 DEF TopOf
<1>5. CASE h # 1
  <2>1. q # << >> /\ q[Len(q)] = p[h - 1]
    BY <1>0, <1>3, <1>5
  <2> QED BY <1>2, <1>5, <2>1 DEF TopOf
<1> QED BY <1>4, <1>5

\* The next block after one that was processed or matched continues the chain.
LEMMA NextContinues ==
  ASSUME NEW s, ChainOK(s), NEW b \in Blocks, NEW c \in Blocks \ {Genesis}, Parent[c] = b,
         Path[b] = Prefix(s.seen, Height(b)), NEW last,
         \/ Height(b) = Len(s.seen)
         \/ Height(b) < s.ids.size /\ last = Height(b) /\ (last = 0 \/ LookupAround(s.ids, last) # 0)
  PROVE  Continues(s, last, c)
<1>1. Height(c) = Height(b) + 1 /\ Height(b) \in Nat
  BY ChainAppend, HeightFacts DEF Height
<1>2. s.ids.size = Len(s.seen) + 1 /\ Len(s.seen) \in Nat
  BY DEF ChainOK, IdsOK, Chain
<1>3. Height(c) \in 1 .. s.ids.size /\ Height(c) - 1 = Height(b)
  BY <1>1, <1>2
<1>4. Path[Parent[c]] = Prefix(s.seen, Height(c) - 1)
  BY <1>3
<1>5. CASE Height(b) = Len(s.seen)
  <2>1. Height(c) = s.ids.size
    BY <1>1, <1>2, <1>5
  <2> QED BY <1>3, <1>4, <2>1 DEF Continues
<1>6. CASE Height(b) < s.ids.size /\ last = Height(b) /\ (last = 0 \/ LookupAround(s.ids, last) # 0)
  <2>1. last = Height(c) - 1
    BY <1>3, <1>6
  <2> QED BY <1>3, <1>4, <1>6, <2>1 DEF Continues
<1> QED BY <1>5, <1>6

LEMMA MatchesFacts ==
  ASSUME NEW s, ChainOK(s), NEW b \in Blocks, Matches(s.ids, b), Height(b) < s.ids.size
  PROVE  /\ Path[b] = Prefix(s.seen, Height(b)) /\ Height(b) \in Nat
         /\ Height(b) # 0 => LookupAround(s.ids, Height(b)) # 0
<1> DEFINE h == Height(b)
<1>0. h \in Nat /\ (h = 0 <=> b = Genesis)
  BY HeightFacts
<1>1. s.ids.size = Len(s.seen) + 1 /\ Len(s.seen) \in Nat /\ Chain(s.seen) /\ s.seen \in Seq(Blocks) /\ IdsOK(s.ids, s.seen)
  BY DEF ChainOK, IdsOK, Chain
<1>2. LookupAround(s.ids, h) = h /\ IdAt(s.ids, h) = b /\ h < s.ids.size
  BY DEF Matches
<1> HIDE DEF h
<1>3. h \in 0 .. Len(s.seen)
  BY <1>0, <1>1, <1>2
<1>4. CASE h = 0
  <2>1. Path[b] = << >> /\ Prefix(s.seen, h) = << >>
    BY <1>0, <1>1, <1>3, <1>4, PathOfGenesis, PrefixFacts
  <2> QED BY <1>0, <1>4, <2>1 DEF h
<1>5. CASE h # 0
  <2>1. h \in Kept(s.ids)
    BY <1>1, <1>2, <1>3, <1>5, LookupFacts
  <2>2. h \in 1 .. Len(s.seen) /\ b = s.seen[h]
    BY <1>1, <1>2, <2>1, IdAtFacts
  <2>3. Path[b] = Prefix(s.seen, h)
    BY <1>1, <2>2, ChainEntry
  <2> QED BY <1>0, <1>2, <1>5, <2>3 DEF h
<1> QED BY <1>4, <1>5

LEMMA ResetChain ==
  ASSUME JobType, NEW s, ResetAndPull(s)
  PROVE  ChainOK(w') /\ JobType' /\ JobOK(w', job')
<1>1. ChainOK(w')
  BY FullResetChain DEF ResetAndPull
<1>3. JobType' /\ job'.at # "blocks"
  <2>1. job' = Idle \/ job' = [job EXCEPT !.at = "pull", !.resp = << >>, !.resets = @ + 1]
    BY DEF ResetAndPull
  <2>2. CASE job' = Idle
    BY <2>2 DEF Idle, JobType
  <2>3. CASE job' = [job EXCEPT !.at = "pull", !.resp = << >>, !.resets = @ + 1]
    <3>1. job'.at = "pull"
      BY <2>3 DEF JobType
    <3>2. << >> \in Seq(Blocks) /\ job.resets + 1 \in Nat
      BY DEF JobType
    <3>3. JobType'
      BY <2>3, <3>2 DEF JobType
    <3> QED BY <3>1, <3>3
  <2> QED BY <2>1, <2>2, <2>3
<1> QED BY <1>1, <1>3 DEF JobOK

LEMMA AttachChain ==
  ASSUME JobType, JobOK(w, job), Handling, NEW s, ChainOK(s), Block # Genesis, Path[Parent[Block]] = s.seen, Attach(s)
  PROVE  ChainOK(w') /\ JobType' /\ JobOK(w', job')
<1> DEFINE b == Block
           r == job.resp
           d == ProcessBlock(s, b, Height(b))
<1>1. r \in Seq(Blocks) /\ r # << >> /\ Linked(r)
  BY DEF JobType, JobOK, Handling
<1>2. /\ Tail(r) \in Seq(Blocks) /\ Linked(Tail(r)) /\ b \in Blocks /\ b = r[1]
      /\ Tail(r) # << >> => Tail(r)[1] \in Blocks \ {Genesis} /\ Parent[Tail(r)[1]] = b
  <2> HIDE DEF r
  <2>1. b = Head(r)
    BY DEF Block, r
  <2> QED BY <1>1, <2>1, LinkedTail
<1>3. Shape(d) /\ (~d.resync => ChainOK(d) /\ d.seen = Path[b])
  BY <1>2, ProcessBlockChain
<1> HIDE DEF r, d, b
<1>4. CASE d.resync
  BY <1>4, ResetChain DEF Attach, d, b
<1>5. CASE ~d.resync
  <2>1. w' = d /\ job' = [job EXCEPT !.resp = Tail(@), !.added = TRUE, !.matched = TRUE]
    BY <1>5 DEF Attach, d, b
  <2>2. ChainOK(w') /\ w'.seen = Path[b]
    BY <1>3, <1>5, <2>1
  <2>3. job'.resp = Tail(r) /\ job'.matched /\ job'.last = job.last
    BY <2>1 DEF JobType, r
  <2>4. JobType'
    BY <1>2, <2>1 DEF JobType, r
  <2>5. ASSUME Tail(r) # << >> PROVE Continues(w', job'.last, Tail(r)[1])
    <3> DEFINE c == Tail(r)[1]
    <3>1. c \in Blocks \ {Genesis} /\ Parent[c] = b
      BY <1>2, <2>5
    <3> DEFINE x == w'
               l == job'.last
    <3>2. ChainOK(x) /\ x.seen = Path[b] /\ Height(b) = Len(x.seen) /\ x.seen \in Seq(Blocks)
      BY <2>2 DEF Height, ChainOK, Chain
    <3>3. Path[b] = Prefix(x.seen, Height(b))
      <4>1. Len(x.seen) \in 0 .. Len(x.seen)
        BY <3>2
      <4> QED BY <3>2, <4>1, PrefixFacts
    <3> HIDE DEF x, c, l
    <3>4. Continues(x, l, c)
      BY <1>2, <3>1, <3>2, <3>3, NextContinues
    <3> QED BY <3>4 DEF x, c, l
  <2> QED BY <1>2, <2>2, <2>3, <2>4, <2>5 DEF JobOK
<1> QED BY <1>4, <1>5

\* The block that is attached follows the wallet's chain.
LEMMA AttachBlockCases ==
  ASSUME ChainInv, AttachBlock
  PROVE  Handling /\ Attach(w) /\ Block \in Blocks \ {Genesis} /\ Path[Parent[Block]] = w.seen
<1> DEFINE b == Block
<1>0. JobType /\ JobOK(w, job) /\ Handling /\ ChainOK(w) /\ Height(b) = w.ids.size /\ job.matched /\ Attach(w)
  BY DEF ChainInv, AttachBlock, Regular
<1>1. b = job.resp[1] /\ b \in Blocks
  BY <1>0 DEF Block, JobType, Handling
<1>2. Continues(w, job.last, b)
  BY <1>0, <1>1 DEF JobOK, Handling
<1> HIDE DEF b
<1>3. w.ids.size = Len(w.seen) + 1 /\ w.seen \in Seq(Blocks)
  BY <1>0 DEF ChainOK, IdsOK, Chain
<1>4. Height(b) - 1 = Len(w.seen) /\ Len(w.seen) \in 0 .. Len(w.seen)
  BY <1>0, <1>3
<1>5. Prefix(w.seen, Len(w.seen)) = w.seen
  BY <1>3, <1>4, PrefixFacts
<1>6. b # Genesis /\ Path[Parent[b]] = w.seen
  BY <1>2, <1>4, <1>5 DEF Continues
<1> QED BY <1>0, <1>1, <1>6 DEF b

LEMMA AttachBlockChain ==
  ASSUME ChainInv, AttachBlock
  PROVE  ChainOK(w') /\ JobType' /\ JobOK(w', job')
<1>1. JobType /\ JobOK(w, job) /\ ChainOK(w)
  BY DEF ChainInv
<1>2. Handling /\ Attach(w) /\ Block # Genesis /\ Path[Parent[Block]] = w.seen
  BY AttachBlockCases
<1> QED BY <1>1, <1>2, AttachChain

LEMMA ReorganizeCases ==
  ASSUME ChainInv, Reorganize
  PROVE  /\ Handling /\ Block \in Blocks \ {Genesis}
         /\ \/ ResetAndPull(w)
            \/ \E h \in 1 .. w.ids.size :
                 /\ ChainOK(DetachBlockchain(w, h)) /\ Path[Parent[Block]] = DetachBlockchain(w, h).seen
                 /\ Attach(DetachBlockchain(w, h))
<1> DEFINE b == Block
           h == Height(b)
           last == IF NeverMatched(w.ids, b) THEN 0 ELSE job.last
<1>0. /\ JobType /\ JobOK(w, job) /\ Handling /\ ChainOK(w) /\ ~Regular /\ ~Matches(w.ids, b)
      /\ job.matched \/ NeverMatched(w.ids, b)
      /\ IF w.ids.size - last > ConciseDepth THEN ResetAndPull(w) ELSE Attach(DetachBlockchain(w, last + 1))
  BY DEF ChainInv, Reorganize
<1>1. b = job.resp[1] /\ b \in Blocks
  BY <1>0 DEF Block, JobType, Handling
<1>2. job.matched
  <2> SUFFICES ASSUME ~job.matched, NeverMatched(w.ids, b) PROVE FALSE
    BY <1>0
  <2>1. Findable(w, b)
    BY <1>0, <1>1 DEF JobOK, Handling
  <2> QED BY <2>1 DEF Findable, NeverMatched
<1>3. Continues(w, job.last, b)
  BY <1>0, <1>1, <1>2 DEF JobOK, Handling
<1>4. h # w.ids.size
  BY <1>0, <1>2 DEF Regular
<1>5. /\ w.ids.size = Len(w.seen) + 1 /\ w.seen \in Seq(Blocks) /\ IdsOK(w.ids, w.seen)
      /\ Len(w.seen) \in Nat
  BY <1>0 DEF ChainOK, IdsOK, Chain
<1>6. /\ b # Genesis /\ h \in 1 .. w.ids.size /\ Path[Parent[b]] = Prefix(w.seen, h - 1) /\ job.last = h - 1
      /\ job.last = 0 \/ LookupAround(w.ids, job.last) # 0
  BY <1>3, <1>4 DEF Continues
<1>7. last = h - 1
  <2>1. CASE NeverMatched(w.ids, b)
    <3>1. LookupAround(w.ids, h) = 0
      BY <2>1 DEF NeverMatched
    <3> HIDE DEF h
    <3>2. h \in 0 .. Len(w.seen) /\ h - 1 \in 0 .. h
      BY <1>4, <1>5, <1>6
    <3>3. LookupAround(w.ids, h - 1) = 0
      BY <1>5, <3>1, <3>2, LookupFacts
    <3> QED BY <1>6, <2>1, <3>3
  <2>2. CASE ~NeverMatched(w.ids, b)
    BY <1>6, <2>2
  <2> QED BY <2>1, <2>2
<1> HIDE DEF last, b
<1>8. CASE w.ids.size - last > ConciseDepth
  BY <1>0, <1>1, <1>6, <1>8 DEF b
<1>9. CASE ~(w.ids.size - last > ConciseDepth)
  <2> DEFINE s == DetachBlockchain(w, h)
  <2>1. last + 1 = h
    BY <1>6, <1>7
  <2>2. Attach(s)
    BY <1>0, <1>9, <2>1
  <2>3. ChainOK(s) /\ s.seen = Prefix(w.seen, h - 1)
    <3> HIDE DEF h
    <3> QED BY <1>0, <1>6, DetachChain
  <2>4. Path[Parent[b]] = s.seen /\ b # Genesis
    BY <1>6, <2>3
  <2>5. h \in 1 .. w.ids.size /\ ChainOK(s) /\ Path[Parent[b]] = s.seen /\ Attach(s)
    BY <1>6, <2>2, <2>3, <2>4
  <2> HIDE DEF h
  <2>6. \E k \in 1 .. w.ids.size : ChainOK(DetachBlockchain(w, k)) /\ Path[Parent[b]] = DetachBlockchain(w, k).seen
          /\ Attach(DetachBlockchain(w, k))
    BY <2>5
  <2> QED BY <1>0, <1>1, <1>6, <2>6 DEF b
<1> QED BY <1>8, <1>9

LEMMA ReorganizeChain ==
  ASSUME ChainInv, Reorganize
  PROVE  ChainOK(w') /\ JobType' /\ JobOK(w', job')
<1>0. JobType /\ JobOK(w, job) /\ Handling /\ Block # Genesis
  BY ReorganizeCases DEF ChainInv
<1>1. CASE ResetAndPull(w)
  BY <1>0, <1>1, ResetChain
<1>2. ASSUME NEW h \in 1 .. w.ids.size, ChainOK(DetachBlockchain(w, h)),
             Path[Parent[Block]] = DetachBlockchain(w, h).seen, Attach(DetachBlockchain(w, h))
      PROVE  ChainOK(w') /\ JobType' /\ JobOK(w', job')
  <2> DEFINE s == DetachBlockchain(w, h)
  <2>1. ChainOK(s) /\ Path[Parent[Block]] = s.seen /\ Attach(s)
    BY <1>2
  <2> HIDE DEF s
  <2> QED BY <1>0, <2>1, AttachChain
<1> QED BY <1>1, <1>2, ReorganizeCases

LEMMA MatchBlockChain ==
  ASSUME ChainInv, MatchBlock
  PROVE  ChainOK(w') /\ JobType' /\ JobOK(w', job')
<1> DEFINE b == Block
           h == Height(b)
           r == job.resp
<1>0. /\ JobType /\ JobOK(w, job) /\ Handling /\ ChainOK(w) /\ ~Regular /\ Matches(w.ids, b) /\ w' = w
      /\ job' = [job EXCEPT !.resp = Tail(@), !.matched = TRUE, !.last = Height(Block)]
  BY DEF ChainInv, MatchBlock
<1>1. r \in Seq(Blocks) /\ r # << >> /\ Linked(r) /\ b = Head(r)
  BY <1>0 DEF JobType, JobOK, Handling, Block
<1>2. /\ Tail(r) \in Seq(Blocks) /\ Linked(Tail(r)) /\ b \in Blocks /\ b = r[1]
      /\ Tail(r) # << >> => Tail(r)[1] \in Blocks \ {Genesis} /\ Parent[Tail(r)[1]] = b
  <2> HIDE DEF r, b
  <2> QED BY <1>1, LinkedTail
<1>3. h \in Nat /\ (h = 0 <=> b = Genesis)
  <2> HIDE DEF b
  <2> QED BY <1>2, HeightFacts
<1>4. h < w.ids.size
  <2>0. w.ids.size = Len(w.seen) + 1 /\ Len(w.seen) \in Nat
    BY <1>0 DEF ChainOK, IdsOK, Chain
  <2>1. CASE job.matched
    <3>1. Continues(w, job.last, b)
      BY <1>0, <1>2, <2>1 DEF JobOK, Handling
    <3>2. h # w.ids.size
      BY <1>0, <2>1 DEF Regular
    <3> HIDE DEF b
    <3> QED BY <3>1, <3>2, <2>0 DEF Continues
  <2>2. CASE ~job.matched
    <3>1. Findable(w, b)
      BY <1>0, <1>2, <2>2 DEF JobOK, Handling
    <3> HIDE DEF b
    <3> QED BY <1>3, <2>0, <3>1 DEF Findable
  <2> QED BY <2>1, <2>2
<1>5. /\ job'.resp = Tail(r) /\ job'.matched /\ job'.last = h /\ JobType'
  BY <1>0, <1>2, <1>3 DEF JobType
<1> HIDE DEF b, r
<1>6. Path[b] = Prefix(w.seen, h) /\ (h # 0 => LookupAround(w.ids, h) # 0)
  BY <1>0, <1>2, <1>4, MatchesFacts
<1>7. ASSUME Tail(r) # << >> PROVE Continues(w, h, Tail(r)[1])
  <2> DEFINE c == Tail(r)[1]
             l == h
  <2>1. c \in Blocks \ {Genesis} /\ Parent[c] = b
    BY <1>2, <1>7
  <2>2. h < w.ids.size /\ l = h /\ (l = 0 \/ LookupAround(w.ids, l) # 0)
    BY <1>4, <1>6
  <2> HIDE DEF c, l
  <2>3. Continues(w, l, c)
    BY <1>0, <1>2, <1>6, <2>1, <2>2, NextContinues
  <2> QED BY <2>3 DEF c, l
<1> QED BY <1>0, <1>2, <1>5, <1>7 DEF JobOK

LEMMA PullBlocksChain ==
  ASSUME ChainInv, PullBlocks
  PROVE  /\ ChainOK(w') /\ JobType' /\ JobOK(w', job')
         /\ \A i \in 1 .. Len(job'.resp) :
              job'.resp[i] = Genesis \/ \E h \in 1 .. Len(Path[dtop]) : job'.resp[i] = Path[dtop][h]
<1> DEFINE p == Path[dtop]
           chain == << Genesis >> \o p
           H == { h \in {0} \cup History(w.ids) : h < Len(chain) /\ chain[h + 1] = IdAt(w.ids, h) }
           start == Max(H)
           new == start = 0 /\ w.ids.size = 1
<1>0. JobType /\ ChainOK(w) /\ dtop \in Blocks
  BY DEF ChainInv
<1>1. PICK n \in BatchSizes :
        LET last == IF start + n < Len(chain) THEN start + n ELSE Len(chain)
        IN  job' = [job EXCEPT !.at = "blocks", !.last = 0, !.matched = new, !.added = FALSE,
                               !.resp = SubSeq(chain, IF new THEN 2 ELSE start + 1, last)]
  BY DEF PullBlocks
<1>2. w' = w
  BY DEF PullBlocks
<1>3. Chain(p) /\ p \in Seq(Blocks) /\ Len(p) \in Nat
  <2>1. Chain(p)
    BY <1>0, PathIsChain
  <2> QED BY <2>1 DEF Chain
<1>4. /\ chain \in Seq(Blocks) /\ Len(chain) = Len(p) + 1 /\ chain[1] = Genesis
      /\ \A h \in 1 .. Len(p) : chain[h + 1] = p[h]
  <2> HIDE DEF p
  <2>1. << Genesis >> \in Seq(Blocks) /\ Len(<< Genesis >>) = 1
    BY TreeAssumption
  <2> QED BY <1>3, <2>1
<1>5. /\ w.ids.size = Len(w.seen) + 1 /\ w.seen \in Seq(Blocks) /\ Len(w.seen) \in Nat /\ IdsOK(w.ids, w.seen)
      /\ Chain(w.seen)
  BY <1>0 DEF ChainOK, IdsOK, Chain
<1>6. \A h \in History(w.ids) : h \in Kept(w.ids) /\ h \in 1 .. Len(w.seen) /\ IdAt(w.ids, h) = w.seen[h]
  BY <1>5, HistoryKept, IdAtFacts
<1> HIDE DEF p, chain
<1>7. start \in H /\ start \in Nat
  <2>1. H \in SUBSET Nat /\ \A k \in H : k <= Len(p)
    BY <1>3, <1>4, <1>6
  <2>2. 0 \in H
    BY <1>3, <1>4 DEF IdAt
  <2> HIDE DEF H
  <2>3. start \in H
    BY <1>3, <2>1, <2>2, GreatestElement
  <2> QED BY <2>1, <2>3
<1> HIDE DEF start
<1>8. /\ start \in 0 .. Len(p) /\ chain[start + 1] = IdAt(w.ids, start)
      /\ start # 0 => start \in Kept(w.ids) /\ start \in 1 .. Len(w.seen)
  BY <1>3, <1>4, <1>6, <1>7
<1> HIDE DEF H
<1> DEFINE a == IF new THEN 2 ELSE start + 1
           last == IF start + n < Len(chain) THEN start + n ELSE Len(chain)
           r == SubSeq(chain, a, last)
<1>9. n \in Nat
  BY <1>1, SizesAssumption
<1>10. a \in 1 .. Len(chain) + 1 /\ last \in 0 .. Len(chain) /\ a \in Nat /\ last \in Nat
  BY <1>3, <1>4, <1>8, <1>9
<1> HIDE DEF a, last
<1>11. r \in Seq(Blocks) /\ \A i \in 1 .. Len(r) : r[i] = chain[a + i - 1] /\ a + i - 1 \in a .. Len(chain)
  <2>1. \A i \in a .. last : chain[i] \in Blocks
    BY <1>4, <1>10
  <2>2. /\ r \in Seq(Blocks) /\ Len(r) = IF a <= last THEN last - a + 1 ELSE 0
        /\ \A i \in 1 .. last - a + 1 : r[i] = chain[a + i - 1]
    BY <1>10, <2>1, SubSeqProperties
  <2> HIDE DEF r
  <2>3. \A i \in 1 .. Len(r) : i \in 1 .. last - a + 1 /\ a + i - 1 \in a .. Len(chain)
    BY <1>10, <2>2
  <2> QED BY <2>2, <2>3
<1>12. /\ job'.resp = r /\ job'.matched = new /\ job'.last = 0 /\ JobType'
  BY <1>0, <1>1, <1>11 DEF JobType, a, last
<1> HIDE DEF r, new
<1>13. Linked(r)
  <2> SUFFICES ASSUME NEW i \in 2 .. Len(r) PROVE r[i] # Genesis /\ Parent[r[i]] = r[i - 1]
    BY DEF Linked
  <2> DEFINE h == a + i - 2
  <2>0. Len(r) \in Nat
    BY <1>11
  <2>1. i \in 1 .. Len(r) /\ i - 1 \in 1 .. Len(r) /\ a + i - 1 = h + 1 /\ a + (i - 1) - 1 = h
    BY <1>10, <2>0
  <2>2. r[i] = chain[h + 1] /\ r[i - 1] = chain[h] /\ h + 1 \in a .. Len(chain)
    BY <1>11, <2>1
  <2>3. h \in 1 .. Len(p)
    BY <1>3, <1>4, <1>10, <2>2
  <2> HIDE DEF h
  <2>4. r[i] = p[h] /\ p[h] # Genesis
    BY <1>3, <1>4, <2>2, <2>3, ChainEntry
  <2>5. Parent[p[h]] = IF h = 1 THEN Genesis ELSE p[h - 1]
    BY <1>3, <2>3, ChainParent
  <2>6. chain[h] = IF h = 1 THEN Genesis ELSE p[h - 1]
    <3>1. CASE h = 1
      BY <1>4, <3>1
    <3>2. CASE h # 1
      <4>1. h - 1 \in 1 .. Len(p) /\ (h - 1) + 1 = h
        BY <1>3, <2>3, <3>2
      <4> QED BY <1>4, <3>2, <4>1
    <3> QED BY <3>1, <3>2
  <2> QED BY <2>2, <2>4, <2>5, <2>6
<1>14. ASSUME r # << >>, new PROVE Continues(w, 0, r[1])
  <2>0. Len(r) \in Nat \ {0} /\ 1 \in 1 .. Len(r)
    BY <1>11, <1>14
  <2>1. a = 2 /\ start = 0 /\ w.ids.size = 1
    BY <1>14 DEF a, new
  <2>2. r[1] = chain[2] /\ 2 \in 2 .. Len(chain)
    BY <1>11, <2>0, <2>1
  <2>3. 1 \in 1 .. Len(p) /\ chain[2] = p[1]
    BY <1>3, <1>4, <2>2
  <2>4. p[1] \in Blocks \ {Genesis} /\ Height(p[1]) = 1 /\ Parent[p[1]] = Genesis
    BY <1>3, <2>3, ChainEntry, ChainParent
  <2>5. Prefix(w.seen, 0) = << >>
    BY <1>5, PrefixFacts
  <2> QED BY <2>1, <2>2, <2>3, <2>4, <2>5, PathOfGenesis DEF Continues
<1>15. ASSUME r # << >>, ~new PROVE Findable(w, r[1])
  <2>0. Len(r) \in Nat \ {0} /\ 1 \in 1 .. Len(r)
    BY <1>11, <1>15
  <2>1. a = start + 1
    BY <1>15 DEF a
  <2>2. r[1] = chain[start + 1]
    BY <1>8, <1>11, <2>0, <2>1
  <2>3. CASE start = 0
    BY <1>4, <2>2, <2>3 DEF Findable
  <2>4. CASE start # 0
    <3>1. start \in Kept(w.ids) /\ start \in 1 .. Len(w.seen) /\ r[1] = w.seen[start]
      BY <1>5, <1>8, <2>2, <2>4, IdAtFacts
    <3>2. Height(r[1]) = start
      BY <1>5, <3>1, ChainEntry
    <3>3. start < w.ids.size /\ start \in 0 .. Len(w.seen)
      BY <1>5, <3>1
    <3>4. LookupAround(w.ids, start) # 0
      BY <1>5, <3>1, <3>3, LookupFacts
    <3> QED BY <3>2, <3>3, <3>4 DEF Findable
  <2> QED BY <2>3, <2>4
<1>16. \A i \in 1 .. Len(r) : r[i] = Genesis \/ \E h \in 1 .. Len(p) : r[i] = p[h]
  <2> TAKE i \in 1 .. Len(r)
  <2> DEFINE k == a + i - 1
  <2>1. r[i] = chain[k] /\ k \in 1 .. Len(p) + 1
    BY <1>4, <1>10, <1>11
  <2> HIDE DEF k
  <2>2. CASE k = 1
    BY <1>4, <2>1, <2>2
  <2>3. CASE k # 1
    <3>1. k - 1 \in 1 .. Len(p) /\ (k - 1) + 1 = k
      BY <1>3, <2>1, <2>3
    <3> QED BY <1>4, <2>1, <3>1
  <2> QED BY <2>2, <2>3
<1>17. ChainOK(w') /\ JobOK(w', job')
  BY <1>0, <1>2, <1>12, <1>13, <1>14, <1>15 DEF JobOK
<1> QED BY <1>12, <1>16, <1>17 DEF p

\* The other steps leave the blocks and their ids alone.
LEMMA SameChain ==
  ASSUME NEW s, ChainOK(s), NEW r, Shape(r), r.ids = s.ids, r.seen = s.seen, r.resync = s.resync
  PROVE  ChainOK(r) /\ \A j : JobOK(s, j) => JobOK(r, j)
BY DEF ChainOK, JobOK, Continues, Findable

LEMMA FinishRefreshChain ==
  ASSUME ChainOK(w), JobType, FinishRefresh
  PROVE  ChainOK(w') /\ JobType' /\ JobOK(w', job')
<1>0. job' = Idle
  BY DEF FinishRefresh
<1>1. JobType' /\ JobOK(w', job')
  BY <1>0 DEF JobType, Idle, JobOK
<1>2. \/ w' = Truncate([OnIdle(w) EXCEPT !.free = {}])
      \/ w' = w
      \/ \E u, a, d : w' = [w EXCEPT !.unc = u, !.tr = a, !.due = d]
  BY DEF FinishRefresh
<1>3. CASE w' = Truncate([OnIdle(w) EXCEPT !.free = {}])
  <2> DEFINE r == Truncate([OnIdle(w) EXCEPT !.free = {}])
  <2>1. Shape(r) /\ r.ids = w.ids /\ r.seen = w.seen /\ r.resync = w.resync
    BY FinishFields DEF ChainOK
  <2> HIDE DEF r
  <2>2. ChainOK(r)
    BY <2>1, SameChain
  <2> QED BY <1>1, <1>3, <2>2 DEF r
<1>4. CASE w' = w
  BY <1>1, <1>4
<1>5. CASE \E u, a, d : w' = [w EXCEPT !.unc = u, !.tr = a, !.due = d]
  <2>1. PICK u, a, d : w' = [w EXCEPT !.unc = u, !.tr = a, !.due = d]
    BY <1>5
  <2> DEFINE r == [w EXCEPT !.unc = u, !.tr = a, !.due = d]
  <2>2. Shape(r) /\ r.ids = w.ids /\ r.seen = w.seen /\ r.resync = w.resync
    BY DEF ChainOK, Shape
  <2> HIDE DEF r
  <2>3. ChainOK(r)
    BY <2>2, SameChain
  <2> QED BY <1>1, <2>1, <2>3 DEF r
<1> QED BY <1>2, <1>3, <1>4, <1>5

LEMMA HandleChain ==
  ASSUME NEW s, ChainOK(s), NEW found
  PROVE  LET r == HandleUnconfirmed(s, found)
         IN  ChainOK(r) /\ r.ids = s.ids /\ r.seen = s.seen /\ r.resync = s.resync
<1> DEFINE r == HandleUnconfirmed(s, found)
<1>1. Shape(r) /\ r.ids = s.ids /\ r.seen = s.seen /\ r.resync = s.resync
  BY HandleFields DEF ChainOK
<1> HIDE DEF r
<1>2. ChainOK(r)
  BY <1>1, SameChain
<1> QED BY <1>1, <1>2 DEF r

LEMMA ScanTxPoolChain ==
  ASSUME ChainOK(w), JobType, JobOK(w, job), ScanTxPool
  PROVE  ChainOK(w') /\ JobType' /\ JobOK(w', job')
<1> DEFINE seen == w.inc \cap pool
<1>1. PICK T \in SUBSET pool : w' = HandleUnconfirmed([w EXCEPT !.inc = seen \cap T], T \ seen)
  BY DEF ScanTxPool
<1> DEFINE s == [w EXCEPT !.inc = seen \cap T]
<1>2. Shape(s) /\ s.ids = w.ids /\ s.seen = w.seen /\ s.resync = w.resync
  BY DEF ChainOK, Shape
<1> HIDE DEF s
<1>3. ChainOK(s) /\ \A j : JobOK(w, j) => JobOK(s, j)
  BY <1>2, SameChain
<1> DEFINE r == HandleUnconfirmed(s, T \ seen)
<1>4. ChainOK(r) /\ r.ids = s.ids /\ r.seen = s.seen /\ r.resync = s.resync
  BY <1>3, HandleChain
<1> HIDE DEF r
<1>5. \A j : JobOK(s, j) => JobOK(r, j)
  BY <1>3, <1>4, SameChain DEF ChainOK
<1>6. job' = job /\ w' = r
  BY <1>1 DEF ScanTxPool, s, r
<1> QED BY <1>3, <1>4, <1>5, <1>6 DEF JobType

\* A transaction that was sent, or whose answer was lost.
Picked(P) == { e \in P : e[1] \in DOMAIN w.tr /\ Ready(e[1]) }
Indices(P) == { e[1] : e \in Picked(P) }
Paying(P) == [w EXCEPT !.tr = Marked(@, Indices(P), TRUE), !.free = FreeCache \ P]

LEMMA TransferCases ==
  ASSUME NEW t, Transfer(t)
  PROVE  /\ job.at = "idle" /\ t \in Own \ sent /\ Acceptable(t) /\ pool' = pool \cup {t} /\ sent' = sent \cup {t}
         /\ job' = job /\ file' = file /\ dtop' = dtop
         /\ \E P \in SUBSET FreeCache :
              /\ \A e \in P : e[1] \in DOMAIN w.tr
              /\ { e[2] : e \in Picked(P) } = Ins[t] /\ \A e \in Picked(P) : w.tr[e[1]].out = e[2]
              /\ \/ w' = [HandleUnconfirmed(Paying(P), {t}) EXCEPT !.unc[t].sel = Indices(P)] /\ aux' = aux
                 \/ Trouble /\ aux' = Troubled /\ w' = [w EXCEPT !.free = {}]
BY DEF Transfer, Picked, Indices, Paying

LEMMA TransferChain ==
  ASSUME ChainOK(w), JobType, JobOK(w, job), NEW t \in Txs, Transfer(t)
  PROVE  ChainOK(w') /\ JobType' /\ JobOK(w', job')
<1>0. job' = job
  BY DEF Transfer
<1>1. PICK P : \/ w' = [HandleUnconfirmed(Paying(P), {t}) EXCEPT !.unc[t].sel = Indices(P)]
               \/ w' = [w EXCEPT !.free = {}]
  BY TransferCases
<1>2. CASE w' = [w EXCEPT !.free = {}]
  <2> DEFINE r == [w EXCEPT !.free = {}]
  <2>1. Shape(r) /\ r.ids = w.ids /\ r.seen = w.seen /\ r.resync = w.resync
    BY DEF ChainOK, Shape
  <2> HIDE DEF r
  <2>2. ChainOK(r) /\ JobOK(r, job)
    BY <2>1, SameChain
  <2> QED BY <1>0, <1>2, <2>2 DEF r, JobType
<1>3. CASE w' = [HandleUnconfirmed(Paying(P), {t}) EXCEPT !.unc[t].sel = Indices(P)]
  <2> DEFINE s == Paying(P)
             sel == Indices(P)
  <2>2. Shape(s) /\ s.ids = w.ids /\ s.seen = w.seen /\ s.resync = w.resync
    BY DEF ChainOK, Shape, Paying
  <2> HIDE DEF s
  <2>3. ChainOK(s)
    BY <2>2, SameChain
  <2> DEFINE x == HandleUnconfirmed(s, {t})
  <2>4. ChainOK(x) /\ x.ids = s.ids /\ x.seen = s.seen /\ x.resync = s.resync
    BY <2>3, HandleChain
  <2> HIDE DEF x
  <2> DEFINE r == [x EXCEPT !.unc[t].sel = sel]
  <2>5. Shape(r) /\ r.ids = x.ids /\ r.seen = x.seen /\ r.resync = x.resync
    BY <2>4 DEF ChainOK, Shape
  <2>6. r = w'
    BY <1>3 DEF x, s
  <2> HIDE DEF r
  <2>7. ChainOK(r) /\ JobOK(r, job)
    BY <2>2, <2>4, <2>5, SameChain
  <2> QED BY <1>0, <2>6, <2>7 DEF JobType
<1> QED BY <1>1, <1>2, <1>3

LEMMA OutdateChain ==
  ASSUME ChainOK(w), JobType, JobOK(w, job), NEW t \in Txs, Outdate(t)
  PROVE  ChainOK(w') /\ JobType' /\ JobOK(w', job')
<1> DEFINE r == [w EXCEPT !.unc[t].old = TRUE]
<1>1. Shape(r) /\ r.ids = w.ids /\ r.seen = w.seen /\ r.resync = w.resync
  BY DEF ChainOK, Shape
<1>2. w' = r /\ job' = job
  BY DEF Outdate
<1> HIDE DEF r
<1>3. ChainOK(r) /\ JobOK(r, job)
  BY <1>1, SameChain
<1> QED BY <1>2, <1>3 DEF JobType

LEMMA StoreChain ==
  ASSUME ChainOK(w), NEW r, r = [w EXCEPT !.free = {}]
  PROVE  ChainOK(r) /\ \A j : JobOK(w, j) => JobOK(r, j)
<1>1. Shape(r) /\ r.ids = w.ids /\ r.seen = w.seen /\ r.resync = w.resync
  BY DEF ChainOK, Shape
<1> QED BY <1>1, SameChain

LEMMA BeginJob ==
  ASSUME job' = [Idle EXCEPT !.at = "pull"]
  PROVE  JobType' /\ job'.at = "pull"
<1> DEFINE i == Idle
<1>1. i \in [at : {"idle"}, resp : Seq(Blocks), last : Nat, matched : BOOLEAN, added : BOOLEAN, fetched : BOOLEAN, resets : Nat]
  BY DEF Idle
<1>2. job' = [i EXCEPT !.at = "pull"]
  OBVIOUS
<1> HIDE DEF i
<1> QED BY <1>1, <1>2 DEF JobType

LEMMA StoppedJob ==
  ASSUME JobType, job' = [job EXCEPT !.at = "finish", !.resp = << >>, !.fetched = @ \/ job.added]
  PROVE  JobType' /\ job'.at = "finish"
<1> DEFINE f == job.fetched \/ job.added
<1>1. f \in BOOLEAN /\ << >> \in Seq(Blocks)
  OBVIOUS
<1>2. job' = [job EXCEPT !.at = "finish", !.resp = << >>, !.fetched = f]
  OBVIOUS
<1> HIDE DEF f
<1> QED BY <1>1, <1>2 DEF JobType

LEMMA ChainInvInit == Init => ChainInv
<1> SUFFICES ASSUME Init PROVE ChainInv
  OBVIOUS
<1>1. w = Fresh /\ file = Fresh /\ job = Idle /\ dtop \in Blocks
  BY TreeAssumption DEF Init
<1>2. JobType /\ JobOK(w, job)
  BY <1>1 DEF JobType, JobOK, Idle
<1> QED BY <1>1, <1>2, FreshChain DEF ChainInv

LEMMA ChainInvStep == ChainInv /\ [Next]_vars => ChainInv'
<1> SUFFICES ASSUME ChainInv, [Next]_vars PROVE ChainInv'
  OBVIOUS
<1> USE DEF ChainInv
<1> DEFINE Goal == ChainOK(w') /\ JobType' /\ JobOK(w', job')
<1>1. ASSUME NEW b \in Blocks, Switch(b) PROVE ChainInv'
  BY <1>1 DEF Switch, JobType
<1>2. ASSUME NEW t \in Txs, Arrive(t) PROVE ChainInv'
  BY <1>2 DEF Arrive, JobType
<1>3. ASSUME NEW t \in Txs, PoolDrops(t) PROVE ChainInv'
  BY <1>3 DEF PoolDrops, JobType
<1>4. ASSUME NEW t \in Txs, Transfer(t) PROVE ChainInv'
  <2>1. Goal
    BY <1>4, TransferChain
  <2> QED BY <1>4, <2>1 DEF Transfer
<1>5. ASSUME NEW t \in Txs, Outdate(t) PROVE ChainInv'
  <2>1. Goal
    BY <1>5, OutdateChain
  <2> QED BY <1>5, <2>1 DEF Outdate, daemonVars
<1>6. ASSUME BeginRefresh PROVE ChainInv'
  <2>1. Goal
    <3>1. w' = w /\ job' = [Idle EXCEPT !.at = "pull"]
      BY <1>6 DEF BeginRefresh
    <3>2. JobType' /\ job'.at = "pull"
      BY <3>1, BeginJob
    <3> QED BY <3>1, <3>2 DEF JobOK
  <2> QED BY <1>6, <2>1 DEF BeginRefresh, daemonVars
<1>7. ASSUME PullBlocks PROVE ChainInv'
  <2>1. Goal
    BY <1>7, PullBlocksChain
  <2> QED BY <1>7, <2>1 DEF PullBlocks, daemonVars
<1>8. ASSUME AttachBlock PROVE ChainInv'
  <2>1. Goal
    BY <1>8, AttachBlockChain
  <2> QED BY <1>8, <2>1 DEF AttachBlock, daemonVars
<1>9. ASSUME MatchBlock PROVE ChainInv'
  <2>1. Goal
    BY <1>9, MatchBlockChain
  <2> QED BY <1>9, <2>1 DEF MatchBlock, daemonVars
<1>10. ASSUME Reorganize PROVE ChainInv'
  <2>1. Goal
    BY <1>10, ReorganizeChain
  <2> QED BY <1>10, <2>1 DEF Reorganize, daemonVars
<1>11. ASSUME PullEnds PROVE ChainInv'
  <2>1. Goal
    BY <1>11 DEF PullEnds, JobType, JobOK
  <2> QED BY <1>11, <2>1 DEF PullEnds, daemonVars
<1>12. ASSUME FinishRefresh PROVE ChainInv'
  <2>1. Goal
    BY <1>12, FinishRefreshChain
  <2> QED BY <1>12, <2>1 DEF FinishRefresh, daemonVars
<1>13. ASSUME PullFails PROVE ChainInv'
  <2>1. Goal
    BY <1>13 DEF PullFails, JobType, JobOK, Idle
  <2> QED BY <1>13, <2>1 DEF PullFails, daemonVars
<1>14. ASSUME PullStopped PROVE ChainInv'
  <2>1. Goal
    <3>1. w' = w /\ job' = [job EXCEPT !.at = "finish", !.resp = << >>, !.fetched = @ \/ job.added]
      BY <1>14 DEF PullStopped
    <3>2. JobType' /\ job'.at = "finish"
      BY <3>1, StoppedJob
    <3> QED BY <3>1, <3>2 DEF JobOK
  <2> QED BY <1>14, <2>1 DEF PullStopped, daemonVars
<1>15. ASSUME ScanTxPool PROVE ChainInv'
  <2>1. Goal
    BY <1>15, ScanTxPoolChain
  <2> QED BY <1>15, <2>1 DEF ScanTxPool, daemonVars
<1>16. ASSUME TransferFails PROVE ChainInv'
  <2>1. Goal
    <3>1. w' = [w EXCEPT !.free = {}] /\ job' = job
      BY <1>16 DEF TransferFails
    <3>2. ChainOK(w') /\ JobOK(w', job)
      BY <3>1, StoreChain
    <3> QED BY <3>1, <3>2 DEF JobType
  <2> QED BY <1>16, <2>1 DEF TransferFails, daemonVars
<1>17. ASSUME Store PROVE ChainInv'
  <2>1. file' = [w EXCEPT !.free = {}]
    BY <1>17 DEF Store
  <2>2. ChainOK(file')
    BY <2>1, StoreChain
  <2> QED BY <1>17, <2>2 DEF Store, daemonVars, JobType
<1>18. ASSUME Restart PROVE ChainInv'
  <2>1. w' = file /\ job' = Idle
    BY <1>18 DEF Restart
  <2>2. JobType' /\ JobOK(w', job')
    BY <2>1 DEF JobType, JobOK, Idle
  <2> QED BY <1>18, <2>1, <2>2 DEF Restart, daemonVars
<1>19. ASSUME UNCHANGED vars PROVE ChainInv'
  BY <1>19 DEF vars, JobType
<1> QED
  <2> DEFINE G == ChainInv'
  <2> SUFFICES G
    OBVIOUS
  <2> HIDE DEF G
  <2> QED BY <1>1, <1>2, <1>3, <1>4, <1>5, <1>6, <1>7, <1>8, <1>9, <1>10, <1>11, <1>12, <1>13, <1>14,
             <1>15, <1>16, <1>17, <1>18, <1>19, Zenon DEF Next, RefreshStep, G

LEMMA ChainInvExact == ChainInv => ChainExact
<1> SUFFICES ASSUME ChainInv PROVE ChainExact
  OBVIOUS
<1>1. Chain(w.seen) /\ IdsOK(w.ids, w.seen)
  BY DEF ChainInv, ChainOK
<1>2. DOMAIN w.ids.tens = Grid(Len(w.seen)) /\ \A h \in DOMAIN w.ids.tens : w.seen[h] = w.ids.tens[h]
  BY <1>1 DEF IdsOK
<1>3. \A h \in DOMAIN w.ids.recent : w.seen[h] = w.ids.recent[h]
  BY <1>1 DEF IdsOK
<1>4. w.ids.size = Len(w.seen) + 1 /\ w.seen = Path[TopOf(w.seen)]
  BY <1>1 DEF IdsOK, Chain
<1> QED BY <1>2, <1>3, <1>4 DEF ChainExact

\* For every tree of blocks, every depth, batch size and pattern of kept ids: however
\* the daemon reorganises and wherever a refresh is cut off (handle_pulled_blocks,
\* detach_blockchain, full_reset), the blocks a wallet has processed are one chain and
\* the ids of block_chain_shortener are those of that chain.
THEOREM WalletChainExact == Spec => []ChainExact
<1>1. Spec => []ChainInv
  BY ChainInvInit, ChainInvStep, PTL DEF Spec
<1> QED BY <1>1, ChainInvExact, PTL

-----------------------------------------------------------------------------
(* What the transactions of a chain, with their heights, give to the account *)
(* and spend.                                                                *)

Gets(G, o, h) == \E t \in Txs : << t, h >> \in G /\ o \in Outs[t]
Spends(G, o, h) == \E t \in Txs : << t, h >> \in G /\ o \in Ins[t]
On(p) == { g \in Txs \X (1 .. Len(p)) : g[1] \in TxsAt(p, g[2]) }
Placed(G, n) == \A t, h : << t, h >> \in G => t \in Txs /\ h \in 1 .. n
Valid(G) ==
  /\ \A t, h, k : << t, h >> \in G /\ << t, k >> \in G => h = k
  /\ \A o, h, k : Spends(G, o, h) /\ Spends(G, o, k) => h = k
  /\ \A o, h : Spends(G, o, h) => \E k \in 1 .. h : Gets(G, o, k)
Admissible(G, t) ==
  /\ t \in Txs /\ \A h : << t, h >> \notin G
  /\ \A o \in Ins[t] : (\E k : Gets(G, o, k)) /\ \A k : ~Spends(G, o, k)
Plus(G, t, h) == G \cup {<< t, h >>}
Cut(G, n) == { g \in G : g[2] < n }

LEMMA GetsOnce ==
  ASSUME NEW G, Valid(G), NEW o, NEW h, NEW k, Gets(G, o, h), Gets(G, o, k)
  PROVE  h = k
<1>1. PICK t \in Txs : << t, h >> \in G /\ o \in Outs[t]
  BY DEF Gets
<1>2. PICK u \in Txs : << u, k >> \in G /\ o \in Outs[u]
  BY DEF Gets
<1>3. t = u
  BY <1>1, <1>2, TxsAssumption
<1> QED BY <1>1, <1>2, <1>3 DEF Valid

LEMMA PlusFacts ==
  ASSUME NEW G, NEW t \in Txs, NEW h
  PROVE  /\ \A u, k : << u, k >> \in Plus(G, t, h) <=> << u, k >> \in G \/ (u = t /\ k = h)
         /\ \A o, k : Gets(Plus(G, t, h), o, k) <=> Gets(G, o, k) \/ (k = h /\ o \in Outs[t])
         /\ \A o, k : Spends(Plus(G, t, h), o, k) <=> Spends(G, o, k) \/ (k = h /\ o \in Ins[t])
<1> DEFINE P == Plus(G, t, h)
<1>1. \A u, k : << u, k >> \in P <=> << u, k >> \in G \/ (u = t /\ k = h)
  BY DEF Plus
<1> HIDE DEF P
<1>2. \A o, k : Gets(P, o, k) <=> Gets(G, o, k) \/ (k = h /\ o \in Outs[t])
  BY <1>1 DEF Gets
<1>3. \A o, k : Spends(P, o, k) <=> Spends(G, o, k) \/ (k = h /\ o \in Ins[t])
  BY <1>1 DEF Spends
<1> QED BY <1>1, <1>2, <1>3 DEF P

LEMMA PlusValid ==
  ASSUME NEW G, Valid(G), NEW h \in Nat \ {0}, Placed(G, h), NEW t \in Txs, Admissible(G, t)
  PROVE  Valid(Plus(G, t, h)) /\ Placed(Plus(G, t, h), h)
<1> DEFINE P == Plus(G, t, h)
<1>1. /\ \A u, k : << u, k >> \in P <=> << u, k >> \in G \/ (u = t /\ k = h)
      /\ \A o, k : Gets(P, o, k) <=> Gets(G, o, k) \/ (k = h /\ o \in Outs[t])
      /\ \A o, k : Spends(P, o, k) <=> Spends(G, o, k) \/ (k = h /\ o \in Ins[t])
  BY PlusFacts
<1> HIDE DEF P
<1>2. Placed(P, h)
  BY <1>1 DEF Placed
<1>3. \A u, j, k : << u, j >> \in P /\ << u, k >> \in P => j = k
  BY <1>1 DEF Valid, Admissible
<1>4. \A o, j, k : Spends(P, o, j) /\ Spends(P, o, k) => j = k
  BY <1>1 DEF Valid, Admissible
<1>5. ASSUME NEW o, NEW k, Spends(P, o, k) PROVE \E j \in 1 .. k : Gets(P, o, j)
  <2>1. CASE Spends(G, o, k)
    <3>1. PICK j \in 1 .. k : Gets(G, o, j)
      BY <2>1 DEF Valid
    <3> QED BY <1>1, <3>1
  <2>2. CASE k = h /\ o \in Ins[t]
    <3>1. PICK j : Gets(G, o, j)
      BY <2>2 DEF Admissible
    <3>2. j \in 1 .. h
      BY <3>1 DEF Gets, Placed
    <3> QED BY <1>1, <2>2, <3>1, <3>2
  <2> QED BY <1>1, <1>5, <2>1, <2>2
<1>6. Valid(P)
  BY <1>3, <1>4, <1>5 DEF Valid
<1> QED BY <1>2, <1>6 DEF P

LEMMA CutFacts ==
  ASSUME NEW G, NEW n
  PROVE  /\ \A u, k : << u, k >> \in Cut(G, n) <=> << u, k >> \in G /\ k < n
         /\ \A o, k : Gets(Cut(G, n), o, k) <=> Gets(G, o, k) /\ k < n
         /\ \A o, k : Spends(Cut(G, n), o, k) <=> Spends(G, o, k) /\ k < n
<1> DEFINE P == Cut(G, n)
<1>1. \A u, k : << u, k >> \in P <=> << u, k >> \in G /\ k < n
  BY DEF Cut
<1> HIDE DEF P
<1>2. \A o, k : Gets(P, o, k) <=> Gets(G, o, k) /\ k < n
  BY <1>1 DEF Gets
<1>3. \A o, k : Spends(P, o, k) <=> Spends(G, o, k) /\ k < n
  BY <1>1 DEF Spends
<1> QED BY <1>1, <1>2, <1>3 DEF P

LEMMA CutValid ==
  ASSUME NEW G, Valid(G), NEW m, Placed(G, m), NEW n \in Nat
  PROVE  Valid(Cut(G, n))
<1> DEFINE P == Cut(G, n)
<1>1. /\ \A u, k : << u, k >> \in P <=> << u, k >> \in G /\ k < n
      /\ \A o, k : Gets(P, o, k) <=> Gets(G, o, k) /\ k < n
      /\ \A o, k : Spends(P, o, k) <=> Spends(G, o, k) /\ k < n
  BY CutFacts
<1> HIDE DEF P
<1>2. ASSUME NEW o, NEW k, Spends(P, o, k) PROVE \E j \in 1 .. k : Gets(P, o, j)
  <2>1. Spends(G, o, k) /\ k < n
    BY <1>1, <1>2
  <2>2. k \in Nat
    BY <2>1 DEF Spends, Placed
  <2>3. PICK j \in 1 .. k : Gets(G, o, j)
    BY <2>1 DEF Valid
  <2>4. j < n
    BY <2>1, <2>2, <2>3
  <2> QED BY <1>1, <2>3, <2>4
<1>3. Valid(P)
  BY <1>1, <1>2 DEF Valid
<1> QED BY <1>3 DEF P

LEMMA OnFacts ==
  ASSUME NEW p \in Seq(Blocks)
  PROVE  /\ \A t, h : << t, h >> \in On(p) <=> h \in 1 .. Len(p) /\ t \in TxsAt(p, h)
         /\ Placed(On(p), Len(p)) /\ \A g \in On(p) : g = << g[1], g[2] >>
<1>1. \A h \in 1 .. Len(p) : TxsAt(p, h) \subseteq Txs
  <2> TAKE h \in 1 .. Len(p)
  <2>1. p[h] \in Blocks
    OBVIOUS
  <2>2. TxsOf[p[h]] \in Seq(Txs)
    BY <2>1, TxsAssumption
  <2> DEFINE q == TxsOf[p[h]]
  <2> HIDE DEF q
  <2>3. \A i \in DOMAIN q : q[i] \in Txs
    BY <2>2 DEF q
  <2> QED BY <2>3 DEF q, TxsAt, ToSet
<1>2. \A t, h : << t, h >> \in On(p) <=> h \in 1 .. Len(p) /\ t \in TxsAt(p, h)
  BY <1>1 DEF On
<1>3. Placed(On(p), Len(p))
  BY <1>1, <1>2 DEF Placed
<1>4. \A g \in On(p) : g = << g[1], g[2] >>
  BY DEF On
<1> QED BY <1>2, <1>3, <1>4

LEMMA OnEmpty == On(<< >>) = {}
BY DEF On

LEMMA OnPrefix ==
  ASSUME NEW p \in Seq(Blocks), NEW n \in 0 .. Len(p)
  PROVE  On(Prefix(p, n)) = Cut(On(p), n + 1)
<1> DEFINE q == Prefix(p, n)
<1>1. q \in Seq(Blocks) /\ Len(q) = n /\ \A i \in 1 .. n : q[i] = p[i]
  BY PrefixFacts
<1> HIDE DEF q
<1>2. /\ \A t, h : << t, h >> \in On(q) <=> h \in 1 .. n /\ t \in TxsAt(q, h)
      /\ \A g \in On(q) : g = << g[1], g[2] >>
  BY <1>1, OnFacts
<1>3. /\ \A t, h : << t, h >> \in On(p) <=> h \in 1 .. Len(p) /\ t \in TxsAt(p, h)
      /\ \A g \in On(p) : g = << g[1], g[2] >>
  BY OnFacts
<1>4. \A h \in 1 .. n : TxsAt(q, h) = TxsAt(p, h)
  BY <1>1 DEF TxsAt
<1>5. \A t, h : << t, h >> \in On(q) <=> << t, h >> \in On(p) /\ h < n + 1
  <2> TAKE t, h
  <2>1. h \in 1 .. n <=> h \in 1 .. Len(p) /\ h < n + 1
    OBVIOUS
  <2>2. CASE h \in 1 .. n
    BY <1>2, <1>3, <1>4, <2>1, <2>2
  <2>3. CASE h \notin 1 .. n
    BY <1>2, <1>3, <2>1, <2>3
  <2> QED BY <2>2, <2>3
<1>6. \A g : g \in On(q) <=> g \in On(p) /\ g[2] < n + 1
  BY <1>2, <1>3, <1>5
<1> QED BY <1>6 DEF Cut, q

\* A block's first i transactions on top of the chain p.
Through(p, b, i) == On(p) \cup { << TxsOf[b][j], Len(p) + 1 >> : j \in 1 .. i }

LEMMA OnAppend ==
  ASSUME NEW p \in Seq(Blocks), NEW b \in Blocks
  PROVE  On(Append(p, b)) = Through(p, b, Len(TxsOf[b]))
<1> DEFINE q == Append(p, b)
           h == Len(p) + 1
           x == TxsOf[b]
           R == { << x[j], h >> : j \in 1 .. Len(x) }
<1>1. q \in Seq(Blocks) /\ Len(q) = h /\ h \in Nat /\ q[h] = b /\ \A i \in 1 .. Len(p) : q[i] = p[i]
  OBVIOUS
<1>2. x \in Seq(Txs) /\ DOMAIN x = 1 .. Len(x)
  BY TxsAssumption
<1>3. TxsAt(q, h) = { x[j] : j \in 1 .. Len(x) }
  BY <1>1, <1>2 DEF TxsAt, ToSet
<1> HIDE DEF q, x, R
<1>4. \A t, k : << t, k >> \in R <=> k = h /\ t \in TxsAt(q, h)
  BY <1>3 DEF R
<1>5. \A g \in R : g = << g[1], g[2] >>
  BY DEF R
<1>6. /\ \A t, k : << t, k >> \in On(q) <=> k \in 1 .. Len(q) /\ t \in TxsAt(q, k)
      /\ \A g \in On(q) : g = << g[1], g[2] >>
  BY <1>1, OnFacts
<1>7. /\ \A t, k : << t, k >> \in On(p) <=> k \in 1 .. Len(p) /\ t \in TxsAt(p, k)
      /\ \A g \in On(p) : g = << g[1], g[2] >>
  BY OnFacts
<1>8. \A k \in 1 .. Len(p) : TxsAt(q, k) = TxsAt(p, k)
  BY <1>1 DEF TxsAt
<1>9. \A k : k \in 1 .. Len(q) <=> k \in 1 .. Len(p) \/ k = h
  BY <1>1
<1>10. \A t, k : << t, k >> \in On(q) <=> << t, k >> \in On(p) \/ << t, k >> \in R
  BY <1>4, <1>6, <1>7, <1>8, <1>9
<1>11. \A g : g \in On(q) <=> g \in On(p) \/ g \in R
  BY <1>5, <1>6, <1>7, <1>10
<1> QED BY <1>11 DEF Through, q, R, x

\* The transactions of a block are valid on top of the ones before them.
LEMMA ThroughFacts ==
  ASSUME NEW b \in Blocks \ {Genesis}, NEW p, p = Path[Parent[b]], NEW i \in 1 .. Len(TxsOf[b])
  PROVE  /\ Through(p, b, 0) = On(p)
         /\ Through(p, b, i) = Plus(Through(p, b, i - 1), TxsOf[b][i], Len(p) + 1)
         /\ Admissible(Through(p, b, i - 1), TxsOf[b][i])
<1> DEFINE h == Len(p) + 1
           x == TxsOf[b]
           t == x[i]
           G == Through(p, b, i - 1)
           before == TxsBefore(b, i)
<1>1. p \in Seq(Blocks) /\ x \in Seq(Txs) /\ t \in Txs /\ Len(x) \in Nat /\ i \in Nat /\ i # 0
  BY PathOfChild, TxsAssumption
<1>2. Through(p, b, 0) = On(p)
  <2>1. 1 .. 0 = {}
    OBVIOUS
  <2> QED BY <2>1 DEF Through
<1>3. Through(p, b, i) = Plus(G, t, h)
  <2>1. 1 .. i = (1 .. i - 1) \cup {i}
    BY <1>1
  <2> QED BY <2>1 DEF Through, Plus
<1>4. \A u, k : << u, k >> \in G <=> << u, k >> \in On(p) \/ (k = h /\ \E j \in 1 .. i - 1 : u = x[j])
  BY DEF Through
<1>5. \A u, k : << u, k >> \in On(p) <=> k \in 1 .. Len(p) /\ u \in TxsAt(p, k)
  BY <1>1, OnFacts
<1>6. /\ t \notin before /\ Ins[t] \subseteq UNION { Outs[u] : u \in before }
      /\ Ins[t] \cap UNION { Ins[u] : u \in before } = {}
  BY ValidAssumption
<1>7. \A u : u \in before <=> (\E k \in 1 .. Len(p) : u \in TxsAt(p, k)) \/ \E j \in 1 .. i - 1 : u = x[j]
  BY DEF TxsBefore, TxsOn
<1> HIDE DEF G, before, t, x, h
<1>8. \A u : u \in before <=> \E k : << u, k >> \in G
  BY <1>4, <1>5, <1>7
<1>9. \A u \in before : u \in Txs
  <2>1. Placed(On(p), Len(p))
    BY <1>1, OnFacts
  <2>2. \A j \in 1 .. i - 1 : x[j] \in Txs
    <3>1. \A j \in 1 .. i - 1 : j \in 1 .. Len(x)
      BY <1>1 DEF x
    <3> QED BY <1>1, <3>1
  <2> QED BY <1>4, <1>8, <2>1, <2>2 DEF Placed
<1>10. Admissible(G, t)
  <2>1. \A k : << t, k >> \notin G
    BY <1>6, <1>8
  <2>2. ASSUME NEW o \in Ins[t] PROVE (\E k : Gets(G, o, k)) /\ \A k : ~Spends(G, o, k)
    <3>1. PICK u \in before : o \in Outs[u]
      BY <1>6
    <3>2. \E k : Gets(G, o, k)
      BY <1>8, <1>9, <3>1 DEF Gets
    <3>3. \A k : ~Spends(G, o, k)
      BY <1>6, <1>8 DEF Spends
    <3> QED BY <3>2, <3>3
  <2> QED BY <1>1, <2>1, <2>2 DEF Admissible
<1> QED BY <1>2, <1>3, <1>10 DEF G, t, x, h

-----------------------------------------------------------------------------
(* The records have their types, with heights up to n. *)

TransfersOK(tr, n) ==
  /\ DOMAIN tr \subseteq Nat /\ \E m \in Nat : \A i \in DOMAIN tr : i <= m
  /\ \A i \in DOMAIN tr : tr[i] \in [out : Outer, height : 1 .. n, spent : BOOLEAN, at : 0 .. n]
HistOK(hist, n) == hist \subseteq [tx : Txs, height : 1 .. n, outgoing : BOOLEAN]
PendingOK(unc) ==
  /\ DOMAIN unc \subseteq Txs \ Coinbase
  /\ \A t \in DOMAIN unc : unc[t] \in [sel : {unc[t].sel}, old : BOOLEAN, outgoing : BOOLEAN]
TypesOK(s, n) ==
  /\ TransfersOK(s.tr, n) /\ DOMAIN s.ki \subseteq Outer /\ HistOK(s.hist, n) /\ PendingOK(s.unc)
  /\ s.inc \subseteq Txs /\ s.free \subseteq Nat \X Outer

LEMMA FirstFreeFacts ==
  ASSUME NEW s, NEW n, TransfersOK(s.tr, n)
  PROVE  FirstFree(s) \in Nat /\ \A i \in DOMAIN s.tr : i < FirstFree(s)
<1> DEFINE D == DOMAIN s.tr
<1>1. D \in SUBSET Nat
  BY DEF TransfersOK
<1>2. PICK m \in Nat : \A i \in D : i <= m
  BY DEF TransfersOK
<1>3. FirstFree(s) = IF D = {} THEN 0 ELSE Max(D) + 1
  BY DEF FirstFree
<1> HIDE DEF D
<1>4. D # {} => Max(D) \in D /\ \A k \in D : k <= Max(D)
  BY <1>1, <1>2, GreatestElement
<1>5. FirstFree(s) \in Nat /\ \A i \in D : i < FirstFree(s)
  <2>1. CASE D = {}
    BY <1>3, <2>1
  <2>2. CASE D # {}
    <3> DEFINE x == Max(D)
    <3>1. x \in Nat /\ (\A k \in D : k \in Nat /\ k <= x) /\ FirstFree(s) = x + 1
      BY <1>1, <1>3, <1>4, <2>2
    <3> HIDE DEF x
    <3> QED BY <3>1
  <2> QED BY <2>1, <2>2
<1> QED BY <1>5 DEF D

Bounded(D) == \E m \in Nat : \A i \in D : i <= m
Enumerates(out, N) ==
  /\ \A i \in DOMAIN out : out[i] \in N
  /\ \A o \in N : \E i \in DOMAIN out : out[i] = o
  /\ \A i, j \in DOMAIN out : out[i] = out[j] => i = j

\* The new transfers of a transaction get indices of their own, one for each output.
LEMMA NumberingFacts ==
  ASSUME NEW s, NEW n, TransfersOK(s.tr, n), NEW t \in Txs, NEW out, out = Numbering(s, t)
  PROVE  /\ DOMAIN out \subseteq Nat /\ DOMAIN out \cap DOMAIN s.tr = {}
         /\ Bounded(DOMAIN out) /\ Enumerates(out, NewOuts(s, t))
<1> DEFINE N == NewOuts(s, t)
           c == Cardinality(N)
           f == FirstFree(s)
           I == f .. f + c - 1
<1>1. IsFiniteSet(N)
  <2>1. IsFiniteSet(Outs[t]) /\ N \subseteq Outs[t]
    BY TxsAssumption DEF NewOuts
  <2> HIDE DEF N
  <2> QED BY <2>1, FS_Subset
<1>2. c \in Nat /\ ExistsBijection(1 .. c, N)
  <2> HIDE DEF N
  <2> QED BY <1>1, FS_CardinalityType
<1>3. f \in Nat /\ \A i \in DOMAIN s.tr : i < f /\ i \in Nat
  BY FirstFreeFacts DEF TransfersOK
<1>4. Numbering(s, t) = CHOOSE g \in Bijection(I, N) : TRUE
  BY DEF Numbering
<1> HIDE DEF N, c, f
<1>5. PICK g : g \in Bijection(1 .. c, N)
  BY <1>2 DEF ExistsBijection
<1>6. g \in [1 .. c -> N] /\ (\A a, b \in 1 .. c : g[a] = g[b] => a = b) /\ \A o \in N : \E a \in 1 .. c : g[a] = o
  BY <1>5 DEF Bijection, Injection, Surjection, IsInjective
<1> DEFINE k == [i \in I |-> g[i - f + 1]]
<1>7. \A i \in I : i - f + 1 \in 1 .. c
  BY <1>2, <1>3
<1>8. k \in [I -> N] /\ \A i \in I : k[i] = g[i - f + 1]
  BY <1>6, <1>7
<1> HIDE DEF k
<1>9. \A i, j \in I : k[i] = k[j] => i = j
  <2> TAKE i, j \in I
  <2> HAVE k[i] = k[j]
  <2>1. i - f + 1 = j - f + 1
    BY <1>6, <1>7, <1>8
  <2>2. i \in Nat /\ j \in Nat
    BY <1>2, <1>3
  <2> QED BY <1>3, <2>1, <2>2
<1>10. \A o \in N : \E i \in I : k[i] = o
  <2> TAKE o \in N
  <2>1. PICK a \in 1 .. c : g[a] = o
    BY <1>6
  <2>2. a + f - 1 \in I /\ (a + f - 1) - f + 1 = a
    BY <1>2, <1>3
  <2> QED BY <1>8, <2>1, <2>2
<1>11. \A i \in I : i \in Nat /\ i \notin DOMAIN s.tr /\ i <= f + c
  BY <1>2, <1>3
<1>12. f + c \in Nat
  BY <1>2, <1>3
<1> HIDE DEF I
<1>13. k \in Bijection(I, N)
  BY <1>8, <1>9, <1>10 DEF Bijection, Injection, Surjection, IsInjective
<1>14. out \in Bijection(I, N)
  BY <1>4, <1>13
<1>15. out \in [I -> N] /\ (\A a, b \in I : out[a] = out[b] => a = b) /\ \A o \in N : \E a \in I : out[a] = o
  BY <1>14 DEF Bijection, Injection, Surjection, IsInjective
<1>16. DOMAIN out = I /\ \A i \in I : out[i] \in N
  BY <1>15
<1>17. DOMAIN out \subseteq Nat /\ DOMAIN out \cap DOMAIN s.tr = {}
  BY <1>11, <1>16
<1>18. Bounded(DOMAIN out)
  BY <1>11, <1>12, <1>16 DEF Bounded
<1>19. Enumerates(out, N)
  BY <1>15, <1>16 DEF Enumerates
<1> QED BY <1>17, <1>18, <1>19 DEF N

\* process_new_transaction, transfer by transfer.
TxEffect(s, t, h, r, out) ==
  /\ DOMAIN r.tr = DOMAIN out \cup DOMAIN s.tr
  /\ \A i \in DOMAIN out : i \notin DOMAIN s.tr /\ out[i] \in NewOuts(s, t) /\ r.ki[out[i]] = i
       /\ r.tr[i] = [out |-> out[i], height |-> h, spent |-> FALSE, at |-> 0]
  /\ \A i \in DOMAIN s.tr :
       r.tr[i] = IF i \in Hit(s, t) THEN [s.tr[i] EXCEPT !.spent = TRUE, !.at = h] ELSE s.tr[i]
  /\ \A o \in NewOuts(s, t) : \E i \in DOMAIN out : out[i] = o
  /\ DOMAIN r.ki = DOMAIN s.ki \cup NewOuts(s, t) /\ \A o \in DOMAIN s.ki : r.ki[o] = s.ki[o]
  /\ DOMAIN r.unc = DOMAIN s.unc \ {t} /\ \A u \in DOMAIN r.unc : r.unc[u] = s.unc[u]

LEMMA ProcessTxEffect ==
  ASSUME NEW s, Shape(s), NEW n, TransfersOK(s.tr, n), NEW t \in Txs, NEW h
  PROVE  TxEffect(s, t, h, ProcessTx(s, t, h), Numbering(s, t))
<1> DEFINE r == ProcessTx(s, t, h)
           out == Numbering(s, t)
           N == NewOuts(s, t)
<1>1. r.tr = TxTr(s, t, h) /\ r.ki = TxKi(s, t) /\ r.unc = TxUnc(s, t)
  BY ProcessTxFields
<1>2. /\ DOMAIN out \cap DOMAIN s.tr = {} /\ \A i \in DOMAIN out : out[i] \in N
      /\ \A o \in N : \E i \in DOMAIN out : out[i] = o
      /\ \A i, j \in DOMAIN out : out[i] = out[j] => i = j
  <2>1. out = Numbering(s, t)
    OBVIOUS
  <2> HIDE DEF r, out
  <2>2. DOMAIN out \cap DOMAIN s.tr = {} /\ Enumerates(out, NewOuts(s, t))
    BY <2>1, NumberingFacts
  <2> QED BY <2>2 DEF Enumerates
<1> DEFINE a == NewTransfers(out, h)
           b == SpentTransfers(s.tr, Hit(s, t), h)
           k == [o \in N |-> CHOOSE i \in DOMAIN out : out[i] = o]
<1>3. r.tr = Override(a, b)
  BY <1>1 DEF TxTr
<1>4. r.ki = Override(k, s.ki)
  BY <1>1 DEF TxKi
<1> HIDE DEF r, out
<1>5. /\ DOMAIN a = DOMAIN out /\ \A i \in DOMAIN out : a[i] = [out |-> out[i], height |-> h, spent |-> FALSE, at |-> 0]
  BY DEF NewTransfers
<1>6. /\ DOMAIN b = DOMAIN s.tr
      /\ \A i \in DOMAIN s.tr : b[i] = IF i \in Hit(s, t) THEN [s.tr[i] EXCEPT !.spent = TRUE, !.at = h] ELSE s.tr[i]
  BY DEF SpentTransfers
<1>7. DOMAIN k = N /\ \A i \in DOMAIN out : k[out[i]] = i
  <2>1. \A o \in N : k[o] \in DOMAIN out /\ out[k[o]] = o
    BY <1>2
  <2>2. DOMAIN k = N
    OBVIOUS
  <2> HIDE DEF k, N
  <2> QED BY <1>2, <2>1, <2>2
<1> HIDE DEF a, b, k
<1>8. DOMAIN r.tr = DOMAIN out \cup DOMAIN s.tr
  BY <1>3, <1>5, <1>6 DEF Override
<1>9. \A i \in DOMAIN out : r.tr[i] = a[i]
  BY <1>3, <1>5 DEF Override
<1>10. \A i \in DOMAIN s.tr : r.tr[i] = b[i]
  BY <1>2, <1>3, <1>5, <1>6 DEF Override
<1>11. DOMAIN r.ki = DOMAIN s.ki \cup N /\ \A o \in N : r.ki[o] = k[o]
  BY <1>4, <1>7 DEF Override
<1>12. \A o \in DOMAIN s.ki : r.ki[o] = s.ki[o]
  BY <1>4, <1>7 DEF Override, NewOuts
<1>13. DOMAIN r.unc = DOMAIN s.unc \ {t} /\ \A u \in DOMAIN r.unc : r.unc[u] = s.unc[u]
  BY <1>1 DEF TxUnc, Restrict
<1>14. \A i \in DOMAIN out : i \notin DOMAIN s.tr /\ out[i] \in N /\ r.ki[out[i]] = i
  BY <1>2, <1>7, <1>11
<1>15. TxEffect(s, t, h, r, out)
  <2> HIDE DEF N
  <2> QED BY <1>2, <1>5, <1>6, <1>8, <1>9, <1>10, <1>11, <1>12, <1>13, <1>14 DEF TxEffect, N
<1> QED BY <1>15 DEF r, out

LEMMA NewOutsOuter ==
  ASSUME NEW s, NEW t \in Txs
  PROVE  NewOuts(s, t) \subseteq Outer /\ NewOuts(s, t) \subseteq Outs[t]
BY DEF NewOuts, Outer

LEMMA ProcessTxTypes ==
  ASSUME NEW s, Shape(s), NEW h \in Nat \ {0}, TypesOK(s, h), NEW t \in Txs
  PROVE  TypesOK(ProcessTx(s, t, h), h)
<1> DEFINE r == ProcessTx(s, t, h)
           out == Numbering(s, t)
<1>0. TransfersOK(s.tr, h)
  BY DEF TypesOK
<1>1. TxEffect(s, t, h, r, out)
  BY <1>0, ProcessTxEffect
<1>2. r.inc = s.inc /\ r.hist = TxHist(s, t, h) /\ r.free = TxFree(s, t)
  BY ProcessTxFields
<1>3. DOMAIN out \subseteq Nat /\ Bounded(DOMAIN out)
  BY <1>0, NumberingFacts
<1>4. r.free = s.free \cup { << i, out[i] >> : i \in DOMAIN out }
  BY <1>2 DEF TxFree
<1> HIDE DEF r, out
<1>5. TransfersOK(r.tr, h)
  <2>1. PICK m1 \in Nat : \A i \in DOMAIN out : i <= m1
    BY <1>3 DEF Bounded
  <2>2. PICK m2 \in Nat : \A i \in DOMAIN s.tr : i <= m2
    BY <1>0 DEF TransfersOK
  <2>3. DOMAIN r.tr \subseteq Nat /\ \A i \in DOMAIN r.tr : i <= m1 + m2
    <3>1. DOMAIN r.tr = DOMAIN out \cup DOMAIN s.tr
      BY <1>1 DEF TxEffect
    <3>2. DOMAIN s.tr \subseteq Nat
      BY <1>0 DEF TransfersOK
    <3> QED BY <1>3, <2>1, <2>2, <3>1, <3>2
  <2>4. m1 + m2 \in Nat
    OBVIOUS
  <2>5. ASSUME NEW i \in DOMAIN r.tr PROVE r.tr[i] \in [out : Outer, height : 1 .. h, spent : BOOLEAN, at : 0 .. h]
    <3>0. h \in 1 .. h /\ h \in 0 .. h /\ 0 \in 0 .. h
      OBVIOUS
    <3>1. CASE i \in DOMAIN out
      <4>1. r.tr[i] = [out |-> out[i], height |-> h, spent |-> FALSE, at |-> 0] /\ out[i] \in Outer
        BY <1>1, <3>1, NewOutsOuter DEF TxEffect
      <4> QED BY <3>0, <4>1
    <3>2. CASE i \in DOMAIN s.tr
      <4> DEFINE x == s.tr[i]
      <4>1. x \in [out : Outer, height : 1 .. h, spent : BOOLEAN, at : 0 .. h]
        BY <1>0, <3>2 DEF TransfersOK
      <4>2. r.tr[i] = x \/ r.tr[i] = [x EXCEPT !.spent = TRUE, !.at = h]
        BY <1>1, <3>2 DEF TxEffect
      <4> HIDE DEF x
      <4> QED BY <3>0, <4>1, <4>2
    <3> QED BY <1>1, <3>1, <3>2 DEF TxEffect
  <2> QED BY <2>3, <2>4, <2>5 DEF TransfersOK
<1>6. DOMAIN r.ki \subseteq Outer
  BY <1>1, NewOutsOuter DEF TxEffect, TypesOK
<1>7. HistOK(r.hist, h)
  <2> DEFINE e == [tx |-> t, height |-> h, outgoing |-> Hit(s, t) # {}]
  <2>1. e \in [tx : Txs, height : 1 .. h, outgoing : BOOLEAN]
    <3>1. h \in 1 .. h /\ (Hit(s, t) # {}) \in BOOLEAN
      OBVIOUS
    <3> QED BY <3>1
  <2>2. r.hist = s.hist \/ r.hist = s.hist \cup {e}
    BY <1>2 DEF TxHist
  <2> HIDE DEF e
  <2> QED BY <2>1, <2>2 DEF HistOK, TypesOK
<1>8. PendingOK(r.unc)
  BY <1>1 DEF TxEffect, TypesOK, PendingOK
<1>9. r.free \subseteq Nat \X Outer
  <2>1. \A i \in DOMAIN out : i \in Nat /\ out[i] \in Outer
    BY <1>1, <1>3, NewOutsOuter DEF TxEffect
  <2>2. \A i \in DOMAIN out : << i, out[i] >> \in Nat \X Outer
    BY <2>1
  <2>3. s.free \subseteq Nat \X Outer
    BY DEF TypesOK
  <2> QED BY <1>4, <2>2, <2>3
<1>10. TypesOK(r, h)
  BY <1>2, <1>5, <1>6, <1>7, <1>8, <1>9 DEF TypesOK
<1> QED BY <1>10 DEF r

-----------------------------------------------------------------------------
(* The transfers are those of the transactions G. *)

TrackedBy(G, r) ==
  /\ Gets(G, r.out, r.height)
  /\ IF r.at = 0 THEN \A h : ~Spends(G, r.out, h) ELSE Spends(G, r.out, r.at) /\ r.spent
Tracks(s, G) ==
  /\ \A i \in DOMAIN s.tr : TrackedBy(G, s.tr[i]) /\ s.tr[i].out \in DOMAIN s.ki /\ s.ki[s.tr[i].out] = i
  /\ \A o : o \in DOMAIN s.ki <=> \E h : Gets(G, o, h)
  /\ \A o \in Forgotten(s) : \E h : Spends(G, o, h)
\* The history is of transactions of G, none of them pending, and explains the spends.
Recorded(s, G) ==
  /\ \A e \in s.hist : << e.tx, e.height >> \in G /\ e.tx \notin DOMAIN s.unc /\ (Ins[e.tx] # {} => e.outgoing)
  /\ \A i \in DOMAIN s.tr : s.tr[i].at # 0 =>
       \E e \in s.hist : e.height = s.tr[i].at /\ s.tr[i].out \in Ins[e.tx] /\ e.outgoing
Explained(s) ==
  \A i \in DOMAIN s.tr : s.tr[i].spent /\ s.tr[i].at = 0 => s.tr[i].out \in Reserving(s.unc) \cup s.due

LEMMA OutputsFacts ==
  ASSUME NEW s, NEW G, Tracks(s, G)
  PROVE  /\ Outputs(s) \subseteq DOMAIN s.ki
         /\ \A o \in DOMAIN s.ki : o \in Outputs(s) <=> o \notin Forgotten(s)
         /\ \A o \in Outputs(s) : s.ki[o] \in DOMAIN s.tr /\ s.tr[s.ki[o]].out = o
<1>1. \A o \in Outputs(s) : s.ki[o] \in DOMAIN s.tr /\ s.tr[s.ki[o]].out = o
  <2> TAKE o \in Outputs(s)
  <2>1. PICK i \in DOMAIN s.tr : s.tr[i].out = o
    BY DEF Outputs
  <2> QED BY <2>1 DEF Tracks
<1> QED BY <1>1 DEF Outputs, Forgotten, Tracks

\* A transaction that is valid finds the transfers it spends, and its outputs are new.
LEMMA TxSelects ==
  ASSUME NEW s, NEW G, Valid(G), Tracks(s, G), NEW t, Admissible(G, t)
  PROVE  /\ Known(s, t) = Ins[t] /\ Ins[t] \subseteq Outputs(s) /\ Hit(s, t) \subseteq DOMAIN s.tr
         /\ \A i \in DOMAIN s.tr : i \in Hit(s, t) <=> s.tr[i].out \in Ins[t]
         /\ NewOuts(s, t) = Outs[t] /\ (Hit(s, t) # {} <=> Ins[t] # {})
<1>1. \A o \in Ins[t] : o \in DOMAIN s.ki /\ o \notin Forgotten(s)
  BY DEF Admissible, Tracks
<1>2. Ins[t] \subseteq Outputs(s) /\ \A o \in Ins[t] : s.ki[o] \in DOMAIN s.tr /\ s.tr[s.ki[o]].out = o
  BY <1>1, OutputsFacts
<1>3. Known(s, t) = Ins[t]
  BY <1>1 DEF Known
<1>4. Hit(s, t) = { s.ki[o] : o \in Ins[t] }
  BY <1>3 DEF Hit
<1>5. \A i \in DOMAIN s.tr : i \in Hit(s, t) <=> s.tr[i].out \in Ins[t]
  <2> TAKE i \in DOMAIN s.tr
  <2>1. s.ki[s.tr[i].out] = i
    BY DEF Tracks
  <2>2. ASSUME i \in Hit(s, t) PROVE s.tr[i].out \in Ins[t]
    BY <1>2, <1>4, <2>2
  <2>3. ASSUME s.tr[i].out \in Ins[t] PROVE i \in Hit(s, t)
    BY <1>4, <2>1, <2>3
  <2> QED BY <2>2, <2>3
<1>6. \A o \in Outs[t] : o \notin DOMAIN s.ki
  <2> SUFFICES ASSUME NEW o \in Outs[t], o \in DOMAIN s.ki PROVE FALSE
    OBVIOUS
  <2>1. PICK h : Gets(G, o, h)
    BY DEF Tracks
  <2>2. PICK u \in Txs : << u, h >> \in G /\ o \in Outs[u]
    BY <2>1 DEF Gets
  <2>3. u = t
    BY <2>2, TxsAssumption DEF Admissible
  <2> QED BY <2>2, <2>3 DEF Admissible
<1>7. NewOuts(s, t) = Outs[t]
  BY <1>6 DEF NewOuts
<1> QED BY <1>2, <1>3, <1>4, <1>5, <1>7

LEMMA ProcessTxTracks ==
  ASSUME NEW s, Shape(s), NEW h \in Nat \ {0}, TransfersOK(s.tr, h), NEW G, Valid(G), Tracks(s, G),
         NEW t, Admissible(G, t)
  PROVE  Tracks(ProcessTx(s, t, h), Plus(G, t, h)) /\ ~ProcessTx(s, t, h).resync
<1> DEFINE r == ProcessTx(s, t, h)
           out == Numbering(s, t)
           P == Plus(G, t, h)
<1>0. t \in Txs
  BY DEF Admissible
<1>1. TxEffect(s, t, h, r, out) /\ r.resync = TxResync(s, t)
  BY <1>0, ProcessTxEffect, ProcessTxFields
<1>2. /\ Known(s, t) = Ins[t] /\ Ins[t] \subseteq Outputs(s) /\ Hit(s, t) \subseteq DOMAIN s.tr
      /\ \A i \in DOMAIN s.tr : i \in Hit(s, t) <=> s.tr[i].out \in Ins[t]
      /\ NewOuts(s, t) = Outs[t]
  BY TxSelects
<1>3. /\ \A o, k : Gets(P, o, k) <=> Gets(G, o, k) \/ (k = h /\ o \in Outs[t])
      /\ \A o, k : Spends(P, o, k) <=> Spends(G, o, k) \/ (k = h /\ o \in Ins[t])
  BY <1>0, PlusFacts
<1>4. ~r.resync
  BY <1>1, <1>2 DEF TxResync
<1> HIDE DEF r, out, P
<1>5. ASSUME NEW i \in DOMAIN out
      PROVE  TrackedBy(P, r.tr[i]) /\ r.tr[i].out \in DOMAIN r.ki /\ r.ki[r.tr[i].out] = i
  <2>1. /\ r.tr[i] = [out |-> out[i], height |-> h, spent |-> FALSE, at |-> 0] /\ out[i] \in Outs[t]
        /\ out[i] \in DOMAIN r.ki /\ r.ki[out[i]] = i /\ out[i] \notin DOMAIN s.ki
    BY <1>1, <1>2, <1>5 DEF TxEffect, NewOuts
  <2>2. r.tr[i].out = out[i] /\ r.tr[i].height = h /\ r.tr[i].at = 0
    BY <2>1
  <2>3. \A k : ~Spends(P, out[i], k)
    <3> SUFFICES ASSUME NEW k, Spends(P, out[i], k) PROVE FALSE
      OBVIOUS
    <3>1. \A j : ~Gets(G, out[i], j)
      BY <2>1 DEF Tracks
    <3>2. CASE Spends(G, out[i], k)
      BY <3>1, <3>2 DEF Valid
    <3>3. CASE out[i] \in Ins[t]
      BY <3>1, <3>3 DEF Admissible
    <3> QED BY <1>3, <3>2, <3>3
  <2> QED BY <1>3, <2>1, <2>2, <2>3 DEF TrackedBy
<1>6. ASSUME NEW i \in DOMAIN s.tr
      PROVE  TrackedBy(P, r.tr[i]) /\ r.tr[i].out = s.tr[i].out /\ r.tr[i].out \in DOMAIN r.ki /\ r.ki[r.tr[i].out] = i
  <2> DEFINE x == s.tr[i]
  <2>1. x \in [out : Outer, height : 1 .. h, spent : BOOLEAN, at : 0 .. h]
    BY DEF TransfersOK
  <2>2. TrackedBy(G, x) /\ x.out \in DOMAIN s.ki /\ s.ki[x.out] = i
    BY DEF Tracks
  <2>3. r.tr[i] = IF x.out \in Ins[t] THEN [x EXCEPT !.spent = TRUE, !.at = h] ELSE x
    BY <1>1, <1>2 DEF TxEffect
  <2>4. x.out \in DOMAIN r.ki /\ r.ki[x.out] = i
    BY <1>1, <2>2 DEF TxEffect
  <2> HIDE DEF x
  <2>5. CASE x.out \in Ins[t]
    <3>1. r.tr[i].out = x.out /\ r.tr[i].height = x.height /\ r.tr[i].spent /\ r.tr[i].at = h
      BY <2>1, <2>3, <2>5
    <3> QED BY <1>3, <2>2, <2>4, <2>5, <3>1 DEF TrackedBy, x
  <2>6. CASE x.out \notin Ins[t]
    BY <1>3, <2>2, <2>3, <2>4, <2>6 DEF TrackedBy, x
  <2> QED BY <2>5, <2>6
<1>7. \A i \in DOMAIN r.tr : TrackedBy(P, r.tr[i]) /\ r.tr[i].out \in DOMAIN r.ki /\ r.ki[r.tr[i].out] = i
  <2>1. DOMAIN r.tr = DOMAIN out \cup DOMAIN s.tr
    BY <1>1 DEF TxEffect
  <2> QED BY <1>5, <1>6, <2>1
<1>8. \A o : o \in DOMAIN r.ki <=> \E k : Gets(P, o, k)
  <2>1. DOMAIN r.ki = DOMAIN s.ki \cup Outs[t]
    BY <1>1, <1>2 DEF TxEffect
  <2> QED BY <1>3, <2>1 DEF Tracks
<1>9. ASSUME NEW o \in Forgotten(r) PROVE \E k : Spends(P, o, k)
  <2>1. o \in DOMAIN r.ki /\ \A i \in DOMAIN r.tr : r.tr[i].out # o
    BY DEF Forgotten, Outputs
  <2>2. o \notin Outs[t]
    <3> SUFFICES ASSUME o \in Outs[t] PROVE FALSE
      OBVIOUS
    <3>0. \A x \in NewOuts(s, t) : \E i \in DOMAIN out : out[i] = x
      BY <1>1, Zenon DEF TxEffect
    <3>1. PICK i \in DOMAIN out : out[i] = o
      BY <1>2, <3>0
    <3>2. r.tr[i] = [out |-> out[i], height |-> h, spent |-> FALSE, at |-> 0] /\ i \in DOMAIN r.tr
      BY <1>1 DEF TxEffect
    <3>3. r.tr[i].out = out[i]
      BY <3>2
    <3> QED BY <2>1, <3>1, <3>2, <3>3
  <2>3. o \in DOMAIN s.ki
    BY <1>1, <1>2, <2>1, <2>2 DEF TxEffect
  <2>4. o \notin Outputs(s)
    <3>1. \A i \in DOMAIN s.tr : i \in DOMAIN r.tr
      BY <1>1 DEF TxEffect
    <3> QED BY <1>6, <2>1, <3>1 DEF Outputs
  <2>5. o \in Forgotten(s)
    BY <2>3, <2>4 DEF Forgotten
  <2> QED BY <1>3, <2>5 DEF Tracks
<1>10. Tracks(r, P)
  BY <1>7, <1>8, <1>9 DEF Tracks
<1> QED BY <1>4, <1>10 DEF r, P

LEMMA ProcessTxRecorded ==
  ASSUME NEW s, Shape(s), NEW h \in Nat \ {0}, TypesOK(s, h), NEW G, Valid(G), Tracks(s, G),
         NEW t, Admissible(G, t), Recorded(s, G), Explained(s)
  PROVE  Recorded(ProcessTx(s, t, h), Plus(G, t, h)) /\ Explained(ProcessTx(s, t, h))
<1> DEFINE r == ProcessTx(s, t, h)
           out == Numbering(s, t)
           P == Plus(G, t, h)
           e == [tx |-> t, height |-> h, outgoing |-> Hit(s, t) # {}]
<1>0. t \in Txs /\ TransfersOK(s.tr, h)
  BY DEF Admissible, TypesOK
<1>1. TxEffect(s, t, h, r, out)
  BY <1>0, ProcessTxEffect
<1>2. /\ r.due = s.due /\ r.hist = IF Touches(s, t) THEN s.hist \cup {e} ELSE s.hist
  <2>1. r.due = s.due /\ r.hist = TxHist(s, t, h)
    BY ProcessTxFields
  <2> QED BY <2>1 DEF TxHist
<1>3. /\ Known(s, t) = Ins[t] /\ (Hit(s, t) # {} <=> Ins[t] # {})
      /\ \A i \in DOMAIN s.tr : i \in Hit(s, t) <=> s.tr[i].out \in Ins[t]
  BY TxSelects
<1>4. \A u, k : << u, k >> \in P <=> << u, k >> \in G \/ (u = t /\ k = h)
  BY <1>0, PlusFacts
<1>5. e.tx = t /\ e.height = h /\ (e.outgoing <=> Ins[t] # {})
  BY <1>3
<1> HIDE DEF r, out, P, e
<1>6. DOMAIN r.unc = DOMAIN s.unc \ {t} /\ \A u \in DOMAIN r.unc : r.unc[u] = s.unc[u]
  BY <1>1 DEF TxEffect
<1>7. \A d \in r.hist : d \in s.hist \/ d = e
  BY <1>2
<1>8. \A d \in r.hist : << d.tx, d.height >> \in P /\ d.tx \notin DOMAIN r.unc /\ (Ins[d.tx] # {} => d.outgoing)
  BY <1>4, <1>5, <1>6, <1>7 DEF Recorded
<1>9. ASSUME NEW i \in DOMAIN r.tr
      PROVE  /\ r.tr[i].at # 0 => \E d \in r.hist : d.height = r.tr[i].at /\ r.tr[i].out \in Ins[d.tx] /\ d.outgoing
             /\ r.tr[i].spent /\ r.tr[i].at = 0 => r.tr[i].out \in Reserving(r.unc) \cup r.due
  <2>1. CASE i \in DOMAIN out
    <3>1. r.tr[i] = [out |-> out[i], height |-> h, spent |-> FALSE, at |-> 0]
      BY <1>1, <2>1 DEF TxEffect
    <3>2. ~r.tr[i].spent /\ r.tr[i].at = 0
      BY <3>1
    <3> QED BY <3>2
  <2>2. CASE i \in DOMAIN s.tr
    <3> DEFINE x == s.tr[i]
    <3>1. x \in [out : Outer, height : 1 .. h, spent : BOOLEAN, at : 0 .. h]
      BY <1>0, <2>2 DEF TransfersOK
    <3>2. r.tr[i] = IF x.out \in Ins[t] THEN [x EXCEPT !.spent = TRUE, !.at = h] ELSE x
      BY <1>1, <1>3, <2>2 DEF TxEffect
    <3>3. /\ x.at # 0 => \E d \in s.hist : d.height = x.at /\ x.out \in Ins[d.tx] /\ d.outgoing
          /\ x.spent /\ x.at = 0 => x.out \in Reserving(s.unc) \cup s.due
      BY <2>2 DEF Recorded, Explained
    <3> HIDE DEF x
    <3>4. CASE x.out \in Ins[t]
      <4>1. r.tr[i].out = x.out /\ r.tr[i].at = h
        BY <3>1, <3>2, <3>4
      <4>2. Touches(s, t) /\ e.outgoing
        BY <1>3, <1>5, <3>4 DEF Touches
      <4>3. e \in r.hist
        BY <1>2, <4>2
      <4> QED BY <1>5, <3>4, <4>1, <4>2, <4>3
    <3>5. CASE x.out \notin Ins[t]
      <4>1. r.tr[i] = x
        BY <3>2, <3>5
      <4>2. s.hist \subseteq r.hist
        BY <1>2
      <4>3. ASSUME x.spent, x.at = 0 PROVE x.out \in Reserving(r.unc) \cup r.due
        <5>1. CASE x.out \in s.due
          BY <1>2, <5>1
        <5>2. CASE x.out \in Reserving(s.unc)
          <6>1. PICK u \in DOMAIN s.unc : s.unc[u].outgoing /\ x.out \in Ins[u]
            BY <5>2 DEF Reserving
          <6>2. u \in DOMAIN r.unc /\ r.unc[u] = s.unc[u]
            BY <1>6, <3>5, <6>1
          <6> QED BY <6>1, <6>2 DEF Reserving
        <5> QED BY <3>3, <4>3, <5>1, <5>2
      <4> QED BY <3>3, <4>1, <4>2, <4>3
    <3> QED BY <3>4, <3>5
  <2> QED BY <1>1, <2>1, <2>2 DEF TxEffect
<1>10. Recorded(r, P) /\ Explained(r)
  BY <1>8, <1>9 DEF Recorded, Explained
<1> QED BY <1>10 DEF r, P

-----------------------------------------------------------------------------
(* The scan of a block. *)

LEMMA TypesGrow ==
  ASSUME NEW s, NEW n \in Nat, TypesOK(s, n), NEW m \in Nat, n <= m
  PROVE  TypesOK(s, m)
<1>1. 1 .. n \subseteq 1 .. m /\ 0 .. n \subseteq 0 .. m
  OBVIOUS
<1>2. TransfersOK(s.tr, m)
  <2>1. ASSUME NEW i \in DOMAIN s.tr PROVE s.tr[i] \in [out : Outer, height : 1 .. m, spent : BOOLEAN, at : 0 .. m]
    <3> DEFINE x == s.tr[i]
    <3>1. x \in [out : Outer, height : 1 .. n, spent : BOOLEAN, at : 0 .. n]
      BY DEF TypesOK, TransfersOK
    <3> HIDE DEF x
    <3>2. x \in [out : Outer, height : 1 .. m, spent : BOOLEAN, at : 0 .. m]
      BY <1>1, <3>1
    <3> QED BY <3>2 DEF x
  <2> QED BY <2>1 DEF TypesOK, TransfersOK
<1>3. HistOK(s.hist, m)
  <2>1. [tx : Txs, height : 1 .. n, outgoing : BOOLEAN] \subseteq [tx : Txs, height : 1 .. m, outgoing : BOOLEAN]
    BY <1>1
  <2> QED BY <2>1 DEF TypesOK, HistOK
<1> QED BY <1>2, <1>3 DEF TypesOK

\* No pending transaction is new in r.
Shrunk(s, r) == DOMAIN r.unc \subseteq DOMAIN s.unc /\ \A u \in DOMAIN r.unc : r.unc[u] = s.unc[u]
\* What a pending transaction spends is known and marked, and what it selected is that.
Settled(s) ==
  /\ \A t \in DOMAIN s.unc : Ins[t] \subseteq DOMAIN s.ki /\ (Ins[t] # {} => s.unc[t].outgoing)
  /\ \A i \in DOMAIN s.tr : \A t \in DOMAIN s.unc : s.tr[i].out \in Ins[t] => s.tr[i].spent
  /\ \A t \in DOMAIN s.unc : \A i \in s.unc[t].sel : i \in DOMAIN s.tr /\ s.tr[i].out \in Ins[t]

LEMMA ProcessTxSettled ==
  ASSUME NEW s, Shape(s), NEW n, TransfersOK(s.tr, n), NEW t \in Txs, NEW h, Settled(s)
  PROVE  Settled(ProcessTx(s, t, h))
<1> DEFINE r == ProcessTx(s, t, h)
           out == Numbering(s, t)
<1>1. TxEffect(s, t, h, r, out)
  BY ProcessTxEffect
<1> HIDE DEF r, out
<1>2. /\ DOMAIN r.tr = DOMAIN out \cup DOMAIN s.tr /\ DOMAIN s.ki \subseteq DOMAIN r.ki
      /\ DOMAIN r.unc \subseteq DOMAIN s.unc /\ \A u \in DOMAIN r.unc : r.unc[u] = s.unc[u]
  BY <1>1 DEF TxEffect
<1>3. \A i \in DOMAIN s.tr : i \in DOMAIN r.tr /\ r.tr[i].out = s.tr[i].out /\ (s.tr[i].spent => r.tr[i].spent)
  <2> TAKE i \in DOMAIN s.tr
  <2> DEFINE x == s.tr[i]
  <2>1. x \in [out : Outer, height : 1 .. n, spent : BOOLEAN, at : 0 .. n]
    BY DEF TransfersOK
  <2>2. r.tr[i] = x \/ r.tr[i] = [x EXCEPT !.spent = TRUE, !.at = h]
    BY <1>1 DEF TxEffect
  <2> HIDE DEF x
  <2>3. r.tr[i].out = x.out /\ (x.spent => r.tr[i].spent)
    BY <2>1, <2>2
  <2> QED BY <1>2, <2>3 DEF x
<1>4. \A i \in DOMAIN out : r.tr[i].out \notin DOMAIN s.ki
  <2> TAKE i \in DOMAIN out
  <2>1. r.tr[i] = [out |-> out[i], height |-> h, spent |-> FALSE, at |-> 0] /\ out[i] \in NewOuts(s, t)
    BY <1>1 DEF TxEffect
  <2>2. r.tr[i].out = out[i]
    BY <2>1
  <2> QED BY <2>1, <2>2 DEF NewOuts
<1>5. ASSUME NEW u \in DOMAIN r.unc
      PROVE  /\ Ins[u] \subseteq DOMAIN r.ki /\ (Ins[u] # {} => r.unc[u].outgoing)
             /\ \A i \in DOMAIN r.tr : r.tr[i].out \in Ins[u] => r.tr[i].spent
             /\ \A i \in r.unc[u].sel : i \in DOMAIN r.tr /\ r.tr[i].out \in Ins[u]
  <2>1. u \in DOMAIN s.unc /\ r.unc[u] = s.unc[u] /\ Ins[u] \subseteq DOMAIN s.ki
    BY <1>2 DEF Settled
  <2>2. \A i \in DOMAIN r.tr : r.tr[i].out \in Ins[u] => r.tr[i].spent
    BY <1>2, <1>3, <1>4, <2>1 DEF Settled
  <2>3. \A i \in r.unc[u].sel : i \in DOMAIN r.tr /\ r.tr[i].out \in Ins[u]
    BY <1>3, <2>1 DEF Settled
  <2>4. Ins[u] \subseteq DOMAIN r.ki /\ (Ins[u] # {} => r.unc[u].outgoing)
    BY <1>2, <2>1 DEF Settled
  <2> QED BY <2>2, <2>3, <2>4
<1>6. Settled(r)
  BY <1>5 DEF Settled
<1> QED BY <1>6 DEF r

LEMMA ScanTypes ==
  ASSUME NEW s, Shape(s), NEW h \in Nat \ {0}, TypesOK(s, h), NEW b \in Blocks, NEW f,
         Scans(f, s, b, h, Len(TxsOf[b]))
  PROVE  \A i \in 0 .. Len(TxsOf[b]) :
           /\ Shape(f[i]) /\ TypesOK(f[i], h) /\ Shrunk(s, f[i]) /\ (Settled(s) => Settled(f[i]))
           /\ \A e \in f[i].hist : e \in s.hist \/ e.tx \in ToSet(TxsOf[b])
<1> DEFINE n == Len(TxsOf[b])
           P(i) == /\ Shape(f[i]) /\ TypesOK(f[i], h) /\ Shrunk(s, f[i]) /\ (Settled(s) => Settled(f[i]))
                   /\ \A e \in f[i].hist : e \in s.hist \/ e.tx \in ToSet(TxsOf[b])
           S == { i \in Nat : i <= n => P(i) }
<1>0. TxsOf[b] \in Seq(Txs) /\ n \in Nat /\ \A i \in 1 .. n : TxsOf[b][i] \in Txs /\ TxsOf[b][i] \in ToSet(TxsOf[b])
  <2> DEFINE q == TxsOf[b]
  <2>1. q \in Seq(Txs)
    BY TxsAssumption
  <2> HIDE DEF q
  <2>2. Len(q) \in Nat /\ \A i \in 1 .. Len(q) : q[i] \in Txs /\ q[i] \in ToSet(q)
    BY <2>1 DEF ToSet
  <2> QED BY <2>1, <2>2 DEF q
<1>1. 0 \in S
  <2>1. f[0] = s
    BY DEF Scans
  <2> QED BY <2>1 DEF Shrunk
<1>2. ASSUME NEW i \in Nat, i \in S PROVE i + 1 \in S
  <2> SUFFICES ASSUME i + 1 <= n PROVE P(i + 1)
    OBVIOUS
  <2>1. P(i) /\ i + 1 \in 1 .. n /\ (i + 1) - 1 = i
    BY <1>0, <1>2
  <2>2. f[i + 1] = IF f[i].resync THEN f[i] ELSE ProcessTx(f[i], TxsOf[b][i + 1], h)
    BY <2>1 DEF Scans
  <2> DEFINE x == f[i]
             t == TxsOf[b][i + 1]
             r == ProcessTx(x, t, h)
  <2>3. t \in Txs /\ t \in ToSet(TxsOf[b])
    BY <1>0, <2>1
  <2>4. /\ Shape(x) /\ TypesOK(x, h) /\ Shrunk(s, x) /\ (Settled(s) => Settled(x)) /\ TransfersOK(x.tr, h)
        /\ \A e \in x.hist : e \in s.hist \/ e.tx \in ToSet(TxsOf[b])
    BY <2>1 DEF TypesOK
  <2> HIDE DEF x, t, P
  <2>5. /\ Shape(r) /\ r.hist = TxHist(x, t, h) /\ r.unc = TxUnc(x, t)
    BY <2>4, ProcessTxFields
  <2>6. TypesOK(r, h) /\ (Settled(x) => Settled(r))
    BY <2>3, <2>4, ProcessTxTypes, ProcessTxSettled
  <2> HIDE DEF r
  <2>7. Shrunk(s, r)
    BY <2>4, <2>5 DEF Shrunk, TxUnc, Restrict
  <2>8. \A e \in r.hist : e \in s.hist \/ e.tx \in ToSet(TxsOf[b])
    <3> DEFINE d == [tx |-> t, height |-> h, outgoing |-> Hit(x, t) # {}]
    <3>1. d.tx = t
      OBVIOUS
    <3>2. r.hist = x.hist \/ r.hist = x.hist \cup {d}
      BY <2>5 DEF TxHist
    <3> HIDE DEF d
    <3> QED BY <2>3, <2>4, <3>1, <3>2
  <2>9. f[i + 1] = x \/ f[i + 1] = r
    BY <2>2 DEF x, t, r
  <2>10. CASE f[i + 1] = x
    BY <2>4, <2>10 DEF P
  <2>11. CASE f[i + 1] = r
    BY <2>4, <2>5, <2>6, <2>7, <2>8, <2>11 DEF P
  <2> QED BY <2>9, <2>10, <2>11
<1> HIDE DEF S, P
<1>3. Nat \subseteq S
  BY <1>1, <1>2, NatSetInduction
<1>4. \A i \in 0 .. n : P(i)
  BY <1>0, <1>3 DEF S
<1> QED BY <1>4 DEF P, n

\* Exact: the records are what a scan of the transactions G from nothing would find.
Exact(s, G) == Valid(G) /\ Tracks(s, G) /\ Recorded(s, G) /\ Explained(s)

LEMMA ScanExact ==
  ASSUME NEW s, Shape(s), NEW b \in Blocks \ {Genesis}, NEW p, p = Path[Parent[b]],
         NEW h, h = Len(p) + 1, TypesOK(s, h), ~s.resync, Exact(s, On(p)), NEW f,
         Scans(f, s, b, h, Len(TxsOf[b]))
  PROVE  \A i \in 0 .. Len(TxsOf[b]) : ~f[i].resync /\ Exact(f[i], Through(p, b, i))
<1> DEFINE n == Len(TxsOf[b])
           P(i) == ~f[i].resync /\ Exact(f[i], Through(p, b, i)) /\ Placed(Through(p, b, i), h)
           S == { i \in Nat : i <= n => P(i) }
<1>0. n \in Nat /\ p \in Seq(Blocks) /\ h \in Nat \ {0}
  BY TxsAssumption, PathOfChild
<1>01. \A i \in 0 .. n : Shape(f[i]) /\ TypesOK(f[i], h)
  BY <1>0, ScanTypes
<1>1. 0 \in S
  <2>1. f[0] = s
    BY DEF Scans
  <2>2. Through(p, b, 0) = On(p)
    <3>1. 1 .. 0 = {}
      OBVIOUS
    <3> QED BY <3>1 DEF Through
  <2>3. Placed(On(p), h)
    <3>1. Placed(On(p), Len(p))
      BY <1>0, OnFacts
    <3>2. 1 .. Len(p) \subseteq 1 .. h
      BY <1>0
    <3> QED BY <3>1, <3>2 DEF Placed
  <2> QED BY <2>1, <2>2, <2>3
<1>2. ASSUME NEW i \in Nat, i \in S PROVE i + 1 \in S
  <2> SUFFICES ASSUME i + 1 <= n PROVE P(i + 1)
    OBVIOUS
  <2>1. P(i) /\ i + 1 \in 1 .. n /\ (i + 1) - 1 = i /\ i \in 0 .. n
    BY <1>0, <1>2
  <2> DEFINE x == f[i]
             t == TxsOf[b][i + 1]
             r == ProcessTx(x, t, h)
             G == Through(p, b, i)
             H == Through(p, b, i + 1)
  <2>2. f[i + 1] = r
    BY <2>1 DEF Scans
  <2>3. H = Plus(G, t, h) /\ Admissible(G, t)
    <3> DEFINE j == i + 1
    <3>1. j \in 1 .. Len(TxsOf[b]) /\ j - 1 = i
      BY <2>1
    <3> HIDE DEF j
    <3>2. Through(p, b, j) = Plus(Through(p, b, j - 1), TxsOf[b][j], Len(p) + 1) /\ Admissible(Through(p, b, j - 1), TxsOf[b][j])
      BY <3>1, ThroughFacts
    <3> QED BY <3>1, <3>2 DEF j
  <2>4. Shape(x) /\ TypesOK(x, h) /\ Exact(x, G) /\ Placed(G, h) /\ t \in Txs
    BY <1>01, <2>1, <2>3 DEF Admissible
  <2> HIDE DEF x, t, G, H
  <2>5. Valid(G) /\ Tracks(x, G) /\ Recorded(x, G) /\ Explained(x) /\ TransfersOK(x.tr, h)
    BY <2>4 DEF Exact, TypesOK
  <2>6. Valid(H) /\ Placed(H, h)
    BY <1>0, <2>3, <2>4, <2>5, PlusValid
  <2>7. Tracks(r, H) /\ ~r.resync
    BY <1>0, <2>3, <2>4, <2>5, ProcessTxTracks
  <2>8. Recorded(r, H) /\ Explained(r)
    BY <1>0, <2>3, <2>4, <2>5, ProcessTxRecorded
  <2> HIDE DEF r
  <2>9. ~r.resync /\ Exact(r, H) /\ Placed(H, h)
    BY <2>6, <2>7, <2>8 DEF Exact
  <2> QED BY <2>2, <2>9 DEF H
<1> HIDE DEF S, P
<1>3. Nat \subseteq S
  BY <1>1, <1>2, NatSetInduction
<1>4. \A i \in 0 .. n : P(i)
  BY <1>0, <1>3 DEF S
<1> QED BY <1>4 DEF P, n

\* The records of s and r that Exact and Settled are about are the same.
SameRecords(s, r) == r.tr = s.tr /\ r.ki = s.ki /\ r.hist = s.hist /\ r.unc = s.unc /\ r.due = s.due

LEMMA SameExact ==
  ASSUME NEW s, NEW r, SameRecords(s, r)
  PROVE  (\A G : Exact(s, G) => Exact(r, G)) /\ (Settled(s) => Settled(r)) /\ Shrunk(s, r)
<1>1. \A G : Tracks(s, G) => Tracks(r, G)
  BY DEF SameRecords, Tracks, Forgotten, Outputs
<1>2. \A G : Recorded(s, G) => Recorded(r, G)
  BY DEF SameRecords, Recorded
<1>3. Explained(s) => Explained(r)
  BY DEF SameRecords, Explained
<1>4. Settled(s) => Settled(r)
  BY DEF SameRecords, Settled
<1>5. Shrunk(s, r)
  BY DEF SameRecords, Shrunk
<1> QED BY <1>1, <1>2, <1>3, <1>4, <1>5 DEF Exact

RecordsOK(s) == TypesOK(s, Len(s.seen)) /\ (~s.revived => Exact(s, On(s.seen)))

LEMMA ProcessBlockRecords ==
  ASSUME NEW s, ChainOK(s), RecordsOK(s), NEW b \in Blocks \ {Genesis}, Path[Parent[b]] = s.seen,
         NEW r, r = ProcessBlock(s, b, Height(b))
  PROVE  /\ Shrunk(s, r) /\ (Settled(s) => Settled(r)) /\ r.revived = s.revived
         /\ \A e \in r.hist : e \in s.hist \/ e.tx \in ToSet(TxsOf[b])
         /\ PendingOK(r.unc) /\ r.free \subseteq Nat \X Outer
         /\ ~r.resync => RecordsOK(r)
         /\ ~s.revived => ~r.resync
<1> DEFINE h == Height(b)
           n == Len(TxsOf[b])
           p == s.seen
<1>0. n \in Nat /\ n \in 0 .. n /\ Shape(s) /\ Chain(p) /\ p \in Seq(Blocks) /\ Len(p) \in Nat /\ ~s.resync
  <2>1. n \in Nat
    BY TxsAssumption
  <2> HIDE DEF n
  <2> QED BY <2>1 DEF ChainOK, Chain
<1>1. Append(p, b) = Path[b] /\ h = Len(p) + 1
  BY ChainAppend
<1>2. h \in Nat \ {0} /\ TypesOK(s, h)
  <2> HIDE DEF h, p
  <2>1. TypesOK(s, Len(p))
    BY DEF RecordsOK, p
  <2>2. h \in Nat \ {0} /\ Len(p) <= h
    BY <1>0, <1>1
  <2> QED BY <1>0, <2>1, <2>2, TypesGrow
<1> HIDE DEF h, n, p
<1>3. PICK f : Scans(f, s, b, h, n) /\ r = IF f[n].resync THEN f[n] ELSE WithBlock(f[n], b, h)
  BY ScanFacts DEF n, h
<1> DEFINE x == f[n]
<1>4. /\ Shape(x) /\ TypesOK(x, h) /\ Shrunk(s, x) /\ (Settled(s) => Settled(x))
      /\ \A e \in x.hist : e \in s.hist \/ e.tx \in ToSet(TxsOf[b])
  BY <1>0, <1>2, <1>3, ScanTypes DEF n
<1>5. x.seen = p /\ x.revived = s.revived
  BY <1>0, <1>3, ScanChain DEF p
<1>6. ~s.revived => ~x.resync /\ Exact(x, Through(p, b, n))
  <2> SUFFICES ASSUME ~s.revived PROVE ~x.resync /\ Exact(x, Through(p, b, n))
    OBVIOUS
  <2>1. Exact(s, On(p)) /\ p = Path[Parent[b]]
    BY DEF RecordsOK, p
  <2> QED BY <1>0, <1>1, <1>2, <1>3, <2>1, ScanExact DEF n
<1>7. On(Append(p, b)) = Through(p, b, n)
  BY <1>0, OnAppend DEF n
<1> HIDE DEF x
<1> DEFINE y == WithBlock(x, b, h)
<1>8. SameRecords(x, y) /\ y.seen = Append(p, b) /\ y.resync = x.resync /\ y.inc = x.inc /\ y.free = x.free
      /\ y.revived = x.revived
  BY <1>4, <1>5, WithBlockFields DEF SameRecords
<1> HIDE DEF y
<1>9. r = IF x.resync THEN x ELSE y
  BY <1>3 DEF x, y
<1>10. (\A G : Exact(x, G) => Exact(y, G)) /\ (Settled(x) => Settled(y)) /\ y.unc = x.unc /\ y.hist = x.hist
  <2>1. (\A G : Exact(x, G) => Exact(y, G)) /\ (Settled(x) => Settled(y))
    BY <1>8, SameExact
  <2> QED BY <1>8, <2>1 DEF SameRecords
<1>11. TypesOK(y, Len(y.seen))
  <2>1. Len(Append(p, b)) = h
    BY <1>0, <1>1
  <2> QED BY <1>4, <1>8, <2>1 DEF TypesOK, SameRecords
<1>12. RecordsOK(y)
  BY <1>5, <1>6, <1>7, <1>8, <1>10, <1>11 DEF RecordsOK
<1>13. Shrunk(s, y)
  BY <1>4, <1>10 DEF Shrunk
<1>14. CASE x.resync
  BY <1>4, <1>5, <1>6, <1>9, <1>14 DEF TypesOK
<1>15. CASE ~x.resync
  <2>1. PendingOK(y.unc) /\ y.free \subseteq Nat \X Outer
    BY <1>11 DEF TypesOK
  <2> QED BY <1>4, <1>5, <1>8, <1>9, <1>10, <1>12, <1>13, <1>15, <2>1
<1> QED BY <1>14, <1>15

-----------------------------------------------------------------------------
(* detach_blockchain. *)

\* The heights of the properties are those of the pairs.
LEMMA SpentAtFacts ==
  ASSUME NEW p \in Seq(Blocks), Valid(On(p)), NEW o
  PROVE  /\ o \in Spent(p) <=> \E h : Spends(On(p), o, h)
         /\ \A h : Spends(On(p), o, h) => SpentAt(p, o) = h
         /\ (\A h : ~Spends(On(p), o, h)) => SpentAt(p, o) = 0
         /\ o \in Received(p) <=> \E h : Gets(On(p), o, h)
         /\ \A h : Gets(On(p), o, h) => ReceivedAt(p, o) = h
<1> DEFINE G == On(p)
           A(h) == h \in 1 .. Len(p) /\ \E t \in TxsAt(p, h) : o \in Ins[t]
           B(h) == h \in 1 .. Len(p) /\ \E t \in TxsAt(p, h) : o \in Outs[t]
<1>1. (\A t, h : << t, h >> \in G <=> h \in 1 .. Len(p) /\ t \in TxsAt(p, h)) /\ Placed(G, Len(p))
  BY OnFacts
<1> HIDE DEF G
<1>2. (\A h : Spends(G, o, h) <=> A(h)) /\ \A h : Gets(G, o, h) <=> B(h)
  BY <1>1 DEF Spends, Gets, Placed
<1>3. o \in Spent(p) <=> \E h : A(h)
  BY DEF Spent, TxsOn
<1>4. o \in Received(p) <=> \E h : B(h)
  BY DEF Received, TxsOn
<1>5. \A k : A(k) => A(SpentAt(p, o))
  <2> SUFFICES ASSUME NEW k, A(k) PROVE A(SpentAt(p, o))
    OBVIOUS
  <2>1. SpentAt(p, o) = CHOOSE h \in 1 .. Len(p) : \E t \in TxsAt(p, h) : o \in Ins[t]
    <3> HIDE DEF A
    <3> QED BY <1>3 DEF SpentAt
  <2> QED BY <2>1
<1>6. \A k : B(k) => B(ReceivedAt(p, o))
  <2> SUFFICES ASSUME NEW k, B(k) PROVE B(ReceivedAt(p, o))
    OBVIOUS
  <2> QED BY DEF ReceivedAt
<1>7. (\A h : A(h) => h \in 1 .. Len(p)) /\ \A h : B(h) => h \in 1 .. Len(p)
  OBVIOUS
<1> HIDE DEF A, B
<1>8. \A h, k : A(h) /\ A(k) => h = k
  BY <1>2 DEF Valid, G
<1>9. \A h, k : B(h) /\ B(k) => h = k
  <2> TAKE h, k
  <2> HAVE B(h) /\ B(k)
  <2>1. Gets(G, o, h) /\ Gets(G, o, k) /\ Valid(G)
    BY <1>2 DEF G
  <2> QED BY <2>1, GetsOnce
<1>10. \A h : A(h) => SpentAt(p, o) = h
  BY <1>5, <1>8
<1>11. \A h : B(h) => ReceivedAt(p, o) = h
  BY <1>6, <1>9
<1>12. (\A h : ~A(h)) => SpentAt(p, o) = 0
  BY <1>3 DEF SpentAt
<1> QED BY <1>2, <1>3, <1>4, <1>10, <1>11, <1>12 DEF G

\* The transactions that become pending.
Returning(s, h) == { e \in Back(s, h) : e.tx \notin Coinbase }
DetachEffect(s, h, r) ==
  /\ DOMAIN r.tr = { i \in DOMAIN s.tr : s.tr[i].height < h }
  /\ \A i \in DOMAIN r.tr : r.tr[i] = IF s.tr[i].at >= h THEN [s.tr[i] EXCEPT !.at = 0] ELSE s.tr[i]
  /\ DOMAIN r.ki = DOMAIN s.ki \ GoneOuts(s, h) /\ \A o \in DOMAIN r.ki : r.ki[o] = s.ki[o]
  /\ r.hist = s.hist \ Back(s, h) /\ r.due = s.due \cup Staked(Back(s, h))
  /\ DOMAIN r.unc = DOMAIN s.unc \cup { e.tx : e \in Returning(s, h) }
  /\ \A u \in DOMAIN s.unc : r.unc[u] = s.unc[u]
  /\ \A u \in DOMAIN r.unc \ DOMAIN s.unc :
       r.unc[u] = [sel |-> {}, old |-> FALSE, outgoing |-> \E e \in Returning(s, h) : e.tx = u /\ e.outgoing]

LEMMA DetachEffects ==
  ASSUME NEW s, Shape(s), NEW n, TransfersOK(s.tr, n), NEW h \in Nat, NEW r, r = DetachBlockchain(s, h)
  PROVE  DetachEffect(s, h, r)
<1> DEFINE K == DOMAIN s.tr \ Gone(s, h)
           x == Restrict(s.tr, K)
           y == Returned(Returning(s, h))
<1>1. /\ r.tr = Unspent(x, h) /\ r.ki = Restrict(s.ki, DOMAIN s.ki \ GoneOuts(s, h))
      /\ r.hist = s.hist \ Back(s, h) /\ r.unc = Override(s.unc, y) /\ r.due = s.due \cup Staked(Back(s, h))
  BY DetachFields DEF Returning
<1>2. K = { i \in DOMAIN s.tr : s.tr[i].height < h }
  <2>1. \A i \in DOMAIN s.tr : s.tr[i].height >= h <=> ~(s.tr[i].height < h)
    <3> TAKE i \in DOMAIN s.tr
    <3> DEFINE z == s.tr[i]
    <3>1. z \in [out : Outer, height : 1 .. n, spent : BOOLEAN, at : 0 .. n]
      BY DEF TransfersOK
    <3> HIDE DEF z
    <3>2. z.height \in Int
      BY <3>1
    <3>3. z.height >= h <=> ~(z.height < h)
      BY <3>2
    <3> QED BY <3>3 DEF z
  <2> QED BY <2>1 DEF Gone
<1>3. DOMAIN x = K /\ \A i \in K : x[i] = s.tr[i]
  BY DEF Restrict
<1> HIDE DEF K, x
<1>4. /\ DOMAIN r.tr = K
      /\ \A i \in K : r.tr[i] = IF s.tr[i].at >= h THEN [s.tr[i] EXCEPT !.at = 0] ELSE s.tr[i]
  BY <1>1, <1>3 DEF Unspent
<1>5. DOMAIN r.ki = DOMAIN s.ki \ GoneOuts(s, h) /\ \A o \in DOMAIN r.ki : r.ki[o] = s.ki[o]
  BY <1>1 DEF Restrict
<1>6. /\ DOMAIN y = { e.tx : e \in Returning(s, h) }
      /\ \A u \in DOMAIN y : y[u] = [sel |-> {}, old |-> FALSE, outgoing |-> \E e \in Returning(s, h) : e.tx = u /\ e.outgoing]
  BY DEF Returned
<1> HIDE DEF y
<1>7. DOMAIN r.unc = DOMAIN s.unc \cup DOMAIN y /\ (\A u \in DOMAIN s.unc : r.unc[u] = s.unc[u])
      /\ \A u \in DOMAIN r.unc \ DOMAIN s.unc : r.unc[u] = y[u] /\ u \in DOMAIN y
  BY <1>1 DEF Override
<1>8. \A u \in DOMAIN r.unc \ DOMAIN s.unc :
        r.unc[u] = [sel |-> {}, old |-> FALSE, outgoing |-> \E e \in Returning(s, h) : e.tx = u /\ e.outgoing]
  BY <1>6, <1>7
<1> QED BY <1>1, <1>2, <1>4, <1>5, <1>6, <1>7, <1>8 DEF DetachEffect

\* What an entry of the transfers is after the detachment.
UnspentOf(x, y, h, n) ==
  /\ x \in [out : Outer, height : 1 .. n, spent : BOOLEAN, at : 0 .. n]
  /\ y \in [out : Outer, height : 1 .. n, spent : BOOLEAN, at : 0 .. n]
  /\ y.out = x.out /\ y.height = x.height /\ y.spent = x.spent
  /\ x.height < h /\ y.at = IF x.at >= h THEN 0 ELSE x.at

LEMMA UnspentFacts ==
  ASSUME NEW s, NEW n \in Nat, TransfersOK(s.tr, n), NEW h \in Nat \ {0}, NEW r, DetachEffect(s, h, r), NEW i \in DOMAIN r.tr
  PROVE  i \in DOMAIN s.tr /\ UnspentOf(s.tr[i], r.tr[i], h, n)
<1> DEFINE x == s.tr[i]
           y == r.tr[i]
<1>1. i \in DOMAIN s.tr /\ x.height < h /\ y = IF x.at >= h THEN [x EXCEPT !.at = 0] ELSE x
  BY DEF DetachEffect
<1>2. x \in [out : Outer, height : 1 .. n, spent : BOOLEAN, at : 0 .. n]
  BY <1>1 DEF TransfersOK
<1> HIDE DEF x, y
<1>3. 0 \in 0 .. n
  <2>1. x.height \in 1 .. n
    BY <1>2
  <2> QED BY <2>1
<1>4. /\ y.out = x.out /\ y.height = x.height /\ y.spent = x.spent /\ y.at = (IF x.at >= h THEN 0 ELSE x.at)
      /\ y \in [out : Outer, height : 1 .. n, spent : BOOLEAN, at : 0 .. n]
  <2>1. CASE x.at >= h
    BY <1>1, <1>2, <1>3, <2>1
  <2>2. CASE ~(x.at >= h)
    BY <1>1, <1>2, <2>2
  <2> QED BY <2>1, <2>2
<1>5. UnspentOf(x, y, h, n)
  BY <1>1, <1>2, <1>4 DEF UnspentOf
<1> QED BY <1>1, <1>5 DEF x, y

LEMMA DetachTypes ==
  ASSUME NEW s, Shape(s), NEW n \in Nat, TypesOK(s, n), NEW h \in 1 .. n + 1, NEW r, r = DetachBlockchain(s, h)
  PROVE  TypesOK(r, h - 1)
<1>0. h \in Nat \ {0} /\ h - 1 \in Nat /\ TransfersOK(s.tr, n) /\ HistOK(s.hist, n) /\ PendingOK(s.unc)
  BY DEF TypesOK
<1>1. DetachEffect(s, h, r) /\ r.inc = s.inc /\ r.free = s.free
  BY <1>0, DetachEffects, DetachFields
<1>2. TransfersOK(r.tr, h - 1)
  <2>1. DOMAIN r.tr \subseteq DOMAIN s.tr
    BY <1>1 DEF DetachEffect
  <2>2. DOMAIN r.tr \subseteq Nat /\ \E m \in Nat : \A i \in DOMAIN r.tr : i <= m
    BY <1>0, <2>1 DEF TransfersOK
  <2>3. ASSUME NEW i \in DOMAIN r.tr
        PROVE  r.tr[i] \in [out : Outer, height : 1 .. h - 1, spent : BOOLEAN, at : 0 .. h - 1]
    <3> DEFINE y == r.tr[i]
               a == s.tr[i].at
    <3>1. /\ y \in [out : Outer, height : 1 .. n, spent : BOOLEAN, at : 0 .. n] /\ y.height < h
          /\ y.at = IF a >= h THEN 0 ELSE a
      <4>1. i \in DOMAIN s.tr /\ UnspentOf(s.tr[i], r.tr[i], h, n)
        BY <1>0, <1>1, UnspentFacts
      <4> QED BY <4>1 DEF UnspentOf
    <3>2. a \in 0 .. n
      <4> DEFINE x == s.tr[i]
      <4>1. x \in [out : Outer, height : 1 .. n, spent : BOOLEAN, at : 0 .. n]
        <5>1. i \in DOMAIN s.tr /\ UnspentOf(s.tr[i], r.tr[i], h, n)
          BY <1>0, <1>1, UnspentFacts
        <5> QED BY <5>1 DEF UnspentOf
      <4> HIDE DEF x
      <4>2. x.at \in 0 .. n
        BY <4>1
      <4> QED BY <4>2 DEF x
    <3> HIDE DEF y, a
    <3>3. y.height \in 1 .. n /\ y.at \in 0 .. n
      BY <3>1
    <3>4. y.height \in 1 .. h - 1
      BY <1>0, <3>1, <3>3
    <3>5. y.at \in 0 .. h - 1
      BY <1>0, <3>1, <3>2
    <3>6. y \in [out : Outer, height : 1 .. h - 1, spent : BOOLEAN, at : 0 .. h - 1]
      BY <3>1, <3>4, <3>5
    <3> QED BY <3>6 DEF y
  <2> QED BY <2>2, <2>3 DEF TransfersOK
<1>3. DOMAIN r.ki \subseteq Outer
  BY <1>1 DEF DetachEffect, TypesOK
<1>4. HistOK(r.hist, h - 1)
  <2> SUFFICES ASSUME NEW e \in r.hist PROVE e \in [tx : Txs, height : 1 .. h - 1, outgoing : BOOLEAN]
    BY DEF HistOK
  <2>1. e \in [tx : Txs, height : 1 .. n, outgoing : BOOLEAN] /\ ~(e.height >= h)
    BY <1>0, <1>1 DEF DetachEffect, HistOK, Back
  <2>2. e.height \in 1 .. n
    BY <2>1
  <2>3. e.height \in 1 .. h - 1
    BY <1>0, <2>1, <2>2
  <2> QED BY <2>1, <2>3
<1>5. PendingOK(r.unc)
  <2>1. ASSUME NEW u \in DOMAIN r.unc
        PROVE  u \in Txs \ Coinbase /\ r.unc[u] \in [sel : {r.unc[u].sel}, old : BOOLEAN, outgoing : BOOLEAN]
    <3>1. CASE u \in DOMAIN s.unc
      <4>1. r.unc[u] = s.unc[u]
        BY <1>1, <3>1 DEF DetachEffect
      <4> QED BY <1>0, <3>1, <4>1 DEF PendingOK
    <3>2. CASE u \notin DOMAIN s.unc
      <4> DEFINE g == \E e \in Returning(s, h) : e.tx = u /\ e.outgoing
      <4>1. r.unc[u] = [sel |-> {}, old |-> FALSE, outgoing |-> g] /\ \E e \in Returning(s, h) : e.tx = u
        BY <1>1, <3>2 DEF DetachEffect
      <4>2. g \in BOOLEAN
        OBVIOUS
      <4> HIDE DEF g
      <4>3. u \in Txs \ Coinbase
        BY <1>0, <4>1 DEF Returning, Back, HistOK
      <4> QED BY <4>1, <4>2, <4>3
    <3> QED BY <3>1, <3>2
  <2> QED BY <2>1 DEF PendingOK
<1> QED BY <1>1, <1>2, <1>3, <1>4, <1>5 DEF TypesOK

LEMMA DetachTracks ==
  ASSUME NEW s, Shape(s), NEW n \in Nat, TypesOK(s, n), NEW h \in 1 .. n + 1, NEW r, r = DetachBlockchain(s, h),
         s.seen \in Seq(Blocks), NEW G, G = On(s.seen), Exact(s, G), ~r.revived
  PROVE  Tracks(r, Cut(G, h))
<1> DEFINE C == Cut(G, h)
<1>0. /\ h \in Nat \ {0} /\ TransfersOK(s.tr, n) /\ Valid(G) /\ Tracks(s, G)
      /\ Placed(G, Len(s.seen)) /\ Len(s.seen) \in Nat
  BY OnFacts DEF TypesOK, Exact
<1>1. DetachEffect(s, h, r) /\ r.revived = (s.revived \/ SpendReturns(s, h))
  BY <1>0, DetachEffects, DetachFields
<1>2. /\ \A o, k : Gets(C, o, k) <=> Gets(G, o, k) /\ k < h
      /\ \A o, k : Spends(C, o, k) <=> Spends(G, o, k) /\ k < h
  BY CutFacts
<1>3. (\A o, k : Gets(G, o, k) => k \in Nat) /\ \A o, k : Spends(G, o, k) => k \in Nat
  <2> DEFINE l == Len(s.seen)
  <2>1. l \in Nat /\ Placed(G, l)
    BY <1>0
  <2> HIDE DEF l
  <2>2. \A t, k : << t, k >> \in G => k \in 1 .. l
    BY <2>1 DEF Placed
  <2>3. \A k \in 1 .. l : k \in Nat
    BY <2>1
  <2> QED BY <2>2, <2>3 DEF Gets, Spends
<1>4. \A o \in Forgotten(s) : \A k : Spends(G, o, k) => k < h
  <2> TAKE o \in Forgotten(s)
  <2> TAKE k
  <2> HAVE Spends(G, o, k)
  <2>1. SpentAt(s.seen, o) = k
    BY <1>0, SpentAtFacts
  <2>2. ~(k >= h)
    BY <1>1, <2>1 DEF SpendReturns
  <2> QED BY <1>0, <1>3, <2>2
<1> HIDE DEF C
<1>5. \A i \in DOMAIN s.tr : \A o : s.tr[i].out = o => s.ki[o] = i /\ o \in DOMAIN s.ki
  BY <1>0 DEF Tracks
<1>6. ASSUME NEW i \in DOMAIN r.tr
      PROVE  TrackedBy(C, r.tr[i]) /\ r.tr[i].out \in DOMAIN r.ki /\ r.ki[r.tr[i].out] = i
  <2> DEFINE x == s.tr[i]
             y == r.tr[i]
  <2>1. /\ i \in DOMAIN s.tr /\ x \in [out : Outer, height : 1 .. n, spent : BOOLEAN, at : 0 .. n]
        /\ y.out = x.out /\ y.height = x.height /\ y.spent = x.spent
        /\ x.height < h /\ y.at = (IF x.at >= h THEN 0 ELSE x.at)
    <3>1. i \in DOMAIN s.tr /\ UnspentOf(s.tr[i], r.tr[i], h, n)
      BY <1>0, <1>1, UnspentFacts
    <3> QED BY <3>1 DEF UnspentOf
  <2>2. TrackedBy(G, x) /\ x.out \in DOMAIN s.ki /\ s.ki[x.out] = i
    BY <1>0, <2>1 DEF Tracks
  <2>3. x.out \notin GoneOuts(s, h)
    <3> SUFFICES ASSUME x.out \in GoneOuts(s, h) PROVE FALSE
      OBVIOUS
    <3>1. PICK j \in Gone(s, h) : s.tr[j].out = x.out
      BY DEF GoneOuts
    <3>2. j = i
      BY <1>5, <2>1, <3>1 DEF Gone
    <3>3. x.height >= h /\ x.height \in Nat
      BY <2>1, <3>1, <3>2 DEF Gone
    <3> HIDE DEF x
    <3> QED BY <1>0, <2>1, <3>3
  <2>4. x.out \in DOMAIN r.ki /\ r.ki[x.out] = i
    BY <1>1, <2>2, <2>3 DEF DetachEffect
  <2> HIDE DEF x, y
  <2>5. TrackedBy(C, y)
    <3>1. Gets(C, y.out, y.height)
      BY <1>2, <2>1, <2>2 DEF TrackedBy
    <3>2. CASE x.at = 0
      <4>1. y.at = 0
        BY <2>1, <3>2
      <4> QED BY <1>2, <2>1, <2>2, <3>1, <3>2, <4>1 DEF TrackedBy
    <3>3. CASE x.at # 0 /\ x.at >= h
      <4>1. Spends(G, x.out, x.at) /\ y.at = 0
        BY <2>1, <2>2, <3>3 DEF TrackedBy
      <4>2. ASSUME NEW k, Spends(C, x.out, k) PROVE FALSE
        <5>1. k = x.at /\ k < h /\ k \in Nat
          BY <1>0, <1>2, <1>3, <4>1, <4>2 DEF Valid
        <5> QED BY <1>0, <3>3, <5>1
      <4> QED BY <2>1, <3>1, <4>1, <4>2 DEF TrackedBy
    <3>4. CASE x.at # 0 /\ ~(x.at >= h)
      <4>1. Spends(G, x.out, x.at) /\ y.at = x.at /\ x.spent /\ x.at \in Nat
        BY <2>1, <2>2, <3>4 DEF TrackedBy
      <4>2. x.at < h
        BY <1>0, <3>4, <4>1
      <4> QED BY <1>2, <2>1, <3>1, <3>4, <4>1, <4>2 DEF TrackedBy
    <3> QED BY <3>2, <3>3, <3>4
  <2> QED BY <2>1, <2>4, <2>5 DEF y
<1>7. ASSUME NEW o \in DOMAIN r.ki PROVE \E k : Gets(C, o, k)
  <2>1. o \in DOMAIN s.ki /\ o \notin GoneOuts(s, h)
    BY <1>1 DEF DetachEffect
  <2>2. PICK k : Gets(G, o, k)
    BY <1>0, <2>1 DEF Tracks
  <2>3. CASE o \in Outputs(s)
    <3>1. PICK i \in DOMAIN s.tr : s.tr[i].out = o
      BY <2>3 DEF Outputs
    <3>2. Gets(G, o, s.tr[i].height)
      BY <1>0, <3>1 DEF Tracks, TrackedBy
    <3>3. s.tr[i].height = k /\ k \in Nat
      BY <1>0, <1>3, <2>2, <3>2, GetsOnce
    <3>4. ~(k >= h)
      BY <2>1, <3>1, <3>3 DEF GoneOuts, Gone
    <3>5. k < h
      BY <1>0, <3>3, <3>4
    <3> QED BY <1>2, <2>2, <3>5
  <2>4. CASE o \notin Outputs(s)
    <3>1. o \in Forgotten(s)
      BY <2>1, <2>4 DEF Forgotten
    <3>2. PICK g : Spends(G, o, g)
      BY <1>0, <3>1 DEF Tracks
    <3>3. g < h /\ g \in Nat
      BY <1>3, <1>4, <3>1, <3>2
    <3>4. PICK j \in 1 .. g : Gets(G, o, j)
      BY <1>0, <3>2 DEF Valid
    <3>5. j < h
      BY <1>0, <3>3, <3>4
    <3> QED BY <1>2, <3>4, <3>5
  <2> QED BY <2>3, <2>4
<1>8. ASSUME NEW o, NEW k, Gets(C, o, k) PROVE o \in DOMAIN r.ki
  <2>1. Gets(G, o, k) /\ k < h /\ k \in Nat
    BY <1>2, <1>3, <1>8
  <2>2. o \in DOMAIN s.ki
    BY <1>0, <2>1 DEF Tracks
  <2>3. ASSUME o \in GoneOuts(s, h) PROVE FALSE
    <3>1. PICK i \in DOMAIN s.tr : s.tr[i].out = o /\ s.tr[i].height >= h
      BY <2>3 DEF GoneOuts, Gone
    <3>2. Gets(G, o, s.tr[i].height)
      BY <1>0, <3>1 DEF Tracks, TrackedBy
    <3>3. s.tr[i].height = k
      BY <1>0, <2>1, <3>2, GetsOnce
    <3>4. k >= h
      BY <3>1, <3>3
    <3> QED BY <1>0, <2>1, <3>4
  <2> QED BY <1>1, <2>2, <2>3 DEF DetachEffect
<1>9. ASSUME NEW o \in Forgotten(r) PROVE \E k : Spends(C, o, k)
  <2>1. o \in DOMAIN r.ki /\ \A i \in DOMAIN r.tr : r.tr[i].out # o
    BY DEF Forgotten, Outputs
  <2>2. o \in DOMAIN s.ki /\ o \notin GoneOuts(s, h)
    BY <1>1, <2>1 DEF DetachEffect
  <2>3. ASSUME NEW i \in DOMAIN s.tr, s.tr[i].out = o PROVE FALSE
    <3>1. ~(s.tr[i].height >= h)
      BY <2>2, <2>3 DEF GoneOuts, Gone
    <3>2. s.tr[i].height \in Nat
      <4> DEFINE x == s.tr[i]
      <4>1. x \in [out : Outer, height : 1 .. n, spent : BOOLEAN, at : 0 .. n]
        BY <1>0 DEF TransfersOK
      <4> HIDE DEF x
      <4>2. x.height \in Nat
        BY <4>1
      <4> QED BY <4>2 DEF x
    <3>3. s.tr[i].height < h
      BY <1>0, <3>1, <3>2
    <3>4. i \in DOMAIN r.tr
      BY <1>1, <3>3 DEF DetachEffect
    <3>5. r.tr[i].out = s.tr[i].out
      <4>1. i \in DOMAIN s.tr /\ UnspentOf(s.tr[i], r.tr[i], h, n)
        BY <1>0, <1>1, <3>4, UnspentFacts
      <4> QED BY <4>1 DEF UnspentOf
    <3> QED BY <2>1, <2>3, <3>4, <3>5
  <2>4. o \in Forgotten(s)
    BY <2>2, <2>3 DEF Forgotten, Outputs
  <2>5. PICK k : Spends(G, o, k)
    BY <1>0, <2>4 DEF Tracks
  <2>6. k < h
    BY <1>4, <2>4, <2>5
  <2> QED BY <1>2, <2>5, <2>6
<1>10. Tracks(r, C)
  <2>1. \A o : o \in DOMAIN r.ki <=> \E k : Gets(C, o, k)
    BY <1>7, <1>8
  <2> QED BY <1>6, <1>9, <2>1 DEF Tracks
<1> QED BY <1>10 DEF C

LEMMA DetachRecorded ==
  ASSUME NEW s, Shape(s), NEW n \in Nat, TypesOK(s, n), NEW h \in 1 .. n + 1, NEW r, r = DetachBlockchain(s, h),
         NEW G, Exact(s, G)
  PROVE  Recorded(r, Cut(G, h)) /\ Explained(r)
<1> DEFINE C == Cut(G, h)
<1>0. h \in Nat \ {0} /\ TransfersOK(s.tr, n) /\ HistOK(s.hist, n) /\ Valid(G) /\ Recorded(s, G) /\ Explained(s)
  BY DEF TypesOK, Exact
<1>1. DetachEffect(s, h, r)
  BY <1>0, DetachEffects
<1>2. \A u, k : << u, k >> \in C <=> << u, k >> \in G /\ k < h
  BY CutFacts
<1> HIDE DEF C
<1>3. r.hist = s.hist \ Back(s, h) /\ \A e \in s.hist : e \in r.hist <=> e.height < h
  <2>1. \A e \in s.hist : e.height \in Nat
    <3> TAKE e \in s.hist
    <3>1. e \in [tx : Txs, height : 1 .. n, outgoing : BOOLEAN]
      BY <1>0 DEF HistOK
    <3> QED BY <3>1
  <2>2. \A e \in s.hist : e.height >= h <=> ~(e.height < h)
    <3> TAKE e \in s.hist
    <3> DEFINE k == e.height
    <3>1. k \in Nat
      BY <2>1
    <3> HIDE DEF k
    <3>2. k >= h <=> ~(k < h)
      BY <1>0, <3>1
    <3> QED BY <3>2 DEF k
  <2>3. r.hist = s.hist \ Back(s, h)
    BY <1>1 DEF DetachEffect
  <2> QED BY <2>2, <2>3 DEF Back
<1>4. ASSUME NEW e \in r.hist
      PROVE  << e.tx, e.height >> \in C /\ e.tx \notin DOMAIN r.unc /\ (Ins[e.tx] # {} => e.outgoing)
  <2>1. e \in s.hist /\ e.height < h /\ << e.tx, e.height >> \in G /\ e.tx \notin DOMAIN s.unc
        /\ (Ins[e.tx] # {} => e.outgoing)
    BY <1>0, <1>3 DEF Recorded
  <2>2. ASSUME NEW d \in Returning(s, h), d.tx = e.tx PROVE FALSE
    <3>1. d \in s.hist /\ d \notin r.hist /\ << d.tx, d.height >> \in G
      BY <1>0, <1>3, <2>2 DEF Returning, Back, Recorded
    <3>2. d.height = e.height
      BY <1>0, <2>1, <2>2, <3>1 DEF Valid
    <3> QED BY <1>3, <2>1, <3>1, <3>2
  <2>3. e.tx \notin DOMAIN r.unc
    BY <1>1, <2>1, <2>2 DEF DetachEffect
  <2> QED BY <1>2, <2>1, <2>3
<1>5. ASSUME NEW i \in DOMAIN r.tr
      PROVE  /\ r.tr[i].at # 0 => \E e \in r.hist : e.height = r.tr[i].at /\ r.tr[i].out \in Ins[e.tx] /\ e.outgoing
             /\ r.tr[i].spent /\ r.tr[i].at = 0 => r.tr[i].out \in Reserving(r.unc) \cup r.due
  <2> DEFINE x == s.tr[i]
             y == r.tr[i]
  <2>1. /\ i \in DOMAIN s.tr /\ x \in [out : Outer, height : 1 .. n, spent : BOOLEAN, at : 0 .. n]
        /\ y.out = x.out /\ y.spent = x.spent /\ y.at = (IF x.at >= h THEN 0 ELSE x.at)
    <3>1. i \in DOMAIN s.tr /\ UnspentOf(s.tr[i], r.tr[i], h, n)
      BY <1>0, <1>1, UnspentFacts
    <3> QED BY <3>1 DEF UnspentOf
  <2>2. /\ x.at # 0 => \E e \in s.hist : e.height = x.at /\ x.out \in Ins[e.tx] /\ e.outgoing
        /\ x.spent /\ x.at = 0 => x.out \in Reserving(s.unc) \cup s.due
    BY <1>0, <2>1 DEF Recorded, Explained
  <2>3. Reserving(s.unc) \subseteq Reserving(r.unc) /\ s.due \subseteq r.due
    BY <1>1 DEF DetachEffect, Reserving
  <2> HIDE DEF x, y
  <2>4. x.at \in Nat
    BY <2>1
  <2>5. CASE x.at >= h
    <3>1. x.at # 0 /\ y.at = 0
      BY <1>0, <2>1, <2>4, <2>5
    <3>2. PICK e \in s.hist : e.height = x.at /\ x.out \in Ins[e.tx] /\ e.outgoing
      BY <2>2, <3>1
    <3>3. e \in Back(s, h)
      BY <2>5, <3>2 DEF Back
    <3>4. CASE e.tx \in Coinbase
      <4>1. x.out \in Staked(Back(s, h))
        BY <3>2, <3>3, <3>4 DEF Staked
      <4>2. r.due = s.due \cup Staked(Back(s, h))
        BY <1>1 DEF DetachEffect
      <4> QED BY <2>1, <3>1, <4>1, <4>2 DEF y
    <3>5. CASE e.tx \notin Coinbase
      <4> DEFINE t == e.tx
      <4>1. e \in Returning(s, h)
        BY <3>3, <3>5 DEF Returning
      <4>2. t \notin DOMAIN s.unc /\ t \in DOMAIN r.unc
        BY <1>0, <1>1, <3>2, <4>1 DEF Recorded, DetachEffect
      <4>3. r.unc[t] = [sel |-> {}, old |-> FALSE, outgoing |-> \E d \in Returning(s, h) : d.tx = t /\ d.outgoing]
        BY <1>1, <4>2 DEF DetachEffect
      <4>4. r.unc[t].outgoing
        BY <3>2, <4>1, <4>3
      <4>5. x.out \in Reserving(r.unc)
        BY <3>2, <4>2, <4>4 DEF Reserving
      <4> QED BY <2>1, <3>1, <4>5 DEF y
    <3> QED BY <3>4, <3>5
  <2>6. CASE ~(x.at >= h)
    <3>1. y.at = x.at /\ x.at < h
      BY <1>0, <2>1, <2>4, <2>6
    <3>2. ASSUME x.at # 0 PROVE \E e \in r.hist : e.height = x.at /\ x.out \in Ins[e.tx] /\ e.outgoing
      <4>1. PICK e \in s.hist : e.height = x.at /\ x.out \in Ins[e.tx] /\ e.outgoing
        BY <2>2, <3>2
      <4>2. e \in r.hist
        BY <1>3, <3>1, <4>1
      <4> QED BY <4>1, <4>2
    <3> QED BY <2>1, <2>2, <2>3, <3>1, <3>2 DEF y
  <2> QED BY <2>5, <2>6
<1>6. Recorded(r, C) /\ Explained(r)
  BY <1>4, <1>5 DEF Recorded, Explained
<1> QED BY <1>6 DEF C

LEMMA DetachRecords ==
  ASSUME NEW s, ChainOK(s), RecordsOK(s), NEW h \in 1 .. s.ids.size, NEW r, r = DetachBlockchain(s, h)
  PROVE  RecordsOK(r) /\ (s.revived => r.revived)
<1> DEFINE n == Len(s.seen)
<1>1. Shape(s) /\ s.seen \in Seq(Blocks) /\ n \in Nat /\ h \in 1 .. n + 1 /\ h - 1 \in 0 .. n /\ (h - 1) + 1 = h
  BY DEF ChainOK, Chain, IdsOK
<1>2. r.seen = Prefix(s.seen, h - 1) /\ Len(r.seen) = h - 1
  <2>1. r.seen = Prefix(s.seen, h - 1)
    BY DetachChain
  <2> QED BY <1>1, <2>1, PrefixFacts
<1>3. TypesOK(s, n)
  BY DEF RecordsOK
<1>4. r.revived = (s.revived \/ SpendReturns(s, h))
  BY <1>1, DetachFields
<1>5. On(r.seen) = Cut(On(s.seen), h)
  <2> DEFINE k == h - 1
  <2>1. k \in 0 .. Len(s.seen) /\ k + 1 = h
    BY <1>1
  <2> HIDE DEF k
  <2>2. On(Prefix(s.seen, k)) = Cut(On(s.seen), k + 1)
    BY <1>1, <2>1, OnPrefix
  <2> QED BY <1>2, <2>1, <2>2 DEF k
<1> HIDE DEF n
<1>6. TypesOK(r, h - 1)
  BY <1>1, <1>3, DetachTypes
<1>7. ASSUME ~r.revived PROVE Exact(r, On(r.seen))
  <2> DEFINE G == On(s.seen)
  <2>1. Exact(s, G) /\ Placed(G, n)
    BY <1>1, <1>4, <1>7, OnFacts DEF RecordsOK, n
  <2>2. G = On(s.seen)
    OBVIOUS
  <2> HIDE DEF G
  <2>3. Tracks(r, Cut(G, h))
    BY <1>1, <1>3, <1>7, <2>1, <2>2, DetachTracks
  <2>4. Recorded(r, Cut(G, h)) /\ Explained(r)
    BY <1>1, <1>3, <2>1, DetachRecorded
  <2>5. Valid(Cut(G, h))
    <3>1. h \in Nat
      BY <1>1
    <3> QED BY <2>1, <3>1, CutValid DEF Exact
  <2> QED BY <1>5, <2>2, <2>3, <2>4, <2>5 DEF Exact
<1> QED BY <1>2, <1>4, <1>6, <1>7 DEF RecordsOK

\* What becomes pending is of the chain, so what it spends is known; when none of it is lost
\* the marks and the selections stay.
Grounded(s, r) ==
  \A t \in DOMAIN r.unc :
    Ins[t] \subseteq DOMAIN s.ki /\ \A i \in r.unc[t].sel : i \in DOMAIN s.tr /\ s.tr[i].out \in Ins[t]

LEMMA DetachSettled ==
  ASSUME NEW s, Shape(s), NEW n \in Nat, TypesOK(s, n), NEW h \in 1 .. n + 1, NEW r, r = DetachBlockchain(s, h),
         NEW G, Exact(s, G), Settled(s)
  PROVE  /\ Grounded(s, r)
         /\ (DOMAIN s.ki \ DOMAIN r.ki) \cap SpendsOf(DOMAIN r.unc) = {} => Settled(r)
<1>0. h \in Nat \ {0} /\ TransfersOK(s.tr, n) /\ Valid(G) /\ Recorded(s, G) /\ Tracks(s, G)
  BY DEF TypesOK, Exact
<1>1. DetachEffect(s, h, r)
  BY <1>0, DetachEffects
<1>2. ASSUME NEW t \in DOMAIN r.unc, t \notin DOMAIN s.unc
      PROVE  \E e \in Returning(s, h) : e.tx = t /\ << t, e.height >> \in G /\ t \in Txs
  <2>1. PICK e \in Returning(s, h) : e.tx = t
    BY <1>1, <1>2 DEF DetachEffect
  <2>2. << t, e.height >> \in G /\ t \in Txs
    <3>1. e \in s.hist
      BY DEF Returning, Back
    <3> QED BY <1>0, <2>1, <3>1 DEF Recorded, TypesOK, HistOK
  <2> QED BY <2>1, <2>2
<1>3. ASSUME NEW t \in DOMAIN r.unc
      PROVE  Ins[t] \subseteq DOMAIN s.ki /\ \A i \in r.unc[t].sel : i \in DOMAIN s.tr /\ s.tr[i].out \in Ins[t]
  <2>1. CASE t \in DOMAIN s.unc
    <3>1. r.unc[t] = s.unc[t]
      BY <1>1, <2>1 DEF DetachEffect
    <3> QED BY <2>1, <3>1 DEF Settled
  <2>2. CASE t \notin DOMAIN s.unc
    <3>1. PICK e \in Returning(s, h) : << t, e.height >> \in G /\ t \in Txs
      BY <1>2, <2>2
    <3>2. r.unc[t].sel = {}
      <4> DEFINE g == \E d \in Returning(s, h) : d.tx = t /\ d.outgoing
      <4>1. r.unc[t] = [sel |-> {}, old |-> FALSE, outgoing |-> g]
        BY <1>1, <2>2 DEF DetachEffect
      <4> HIDE DEF g
      <4> QED BY <4>1
    <3>3. ASSUME NEW o \in Ins[t] PROVE o \in DOMAIN s.ki
      <4>1. Spends(G, o, e.height)
        BY <3>1 DEF Spends
      <4>2. \E k : Gets(G, o, k)
        BY <1>0, <4>1 DEF Valid
      <4> QED BY <1>0, <4>2 DEF Tracks
    <3> QED BY <3>2, <3>3
  <2> QED BY <2>1, <2>2
<1>4. ASSUME (DOMAIN s.ki \ DOMAIN r.ki) \cap SpendsOf(DOMAIN r.unc) = {} PROVE Settled(r)
  <2>1. \A t \in DOMAIN r.unc : \A o \in Ins[t] : o \in DOMAIN s.ki /\ o \in DOMAIN r.ki /\ o \notin GoneOuts(s, h)
    <3>1. \A t \in DOMAIN r.unc : \A o \in Ins[t] : o \in DOMAIN s.ki /\ o \in DOMAIN r.ki
      BY <1>3, <1>4 DEF SpendsOf
    <3> QED BY <1>1, <3>1 DEF DetachEffect
  <2>2. ASSUME NEW t \in DOMAIN r.unc, Ins[t] # {} PROVE r.unc[t].outgoing
    <3>1. CASE t \in DOMAIN s.unc
      BY <1>1, <2>2, <3>1 DEF DetachEffect, Settled
    <3>2. CASE t \notin DOMAIN s.unc
      <4>1. PICK e \in Returning(s, h) : e.tx = t
        BY <1>2, <3>2
      <4>2. e \in s.hist
        BY DEF Returning, Back
      <4>3. e.outgoing
        BY <1>0, <2>2, <4>1, <4>2 DEF Recorded
      <4>4. r.unc[t] = [sel |-> {}, old |-> FALSE, outgoing |-> \E d \in Returning(s, h) : d.tx = t /\ d.outgoing]
        BY <1>1, <3>2 DEF DetachEffect
      <4> QED BY <4>1, <4>3, <4>4
    <3> QED BY <3>1, <3>2
  <2>3. ASSUME NEW i \in DOMAIN r.tr, NEW t \in DOMAIN r.unc, r.tr[i].out \in Ins[t] PROVE r.tr[i].spent
    <3>1. i \in DOMAIN s.tr /\ r.tr[i].out = s.tr[i].out /\ r.tr[i].spent = s.tr[i].spent
      <4>1. i \in DOMAIN s.tr /\ UnspentOf(s.tr[i], r.tr[i], h, n)
        BY <1>0, <1>1, UnspentFacts
      <4> QED BY <4>1 DEF UnspentOf
    <3>2. CASE t \in DOMAIN s.unc
      BY <2>3, <3>1, <3>2 DEF Settled
    <3>3. CASE t \notin DOMAIN s.unc
      <4>1. PICK e \in Returning(s, h) : << t, e.height >> \in G /\ t \in Txs
        BY <1>2, <3>3
      <4>2. Spends(G, s.tr[i].out, e.height)
        BY <2>3, <3>1, <4>1 DEF Spends
      <4>3. s.tr[i].spent
        BY <1>0, <3>1, <4>2 DEF Tracks, TrackedBy
      <4> QED BY <3>1, <4>3
    <3> QED BY <3>2, <3>3
  <2>4. ASSUME NEW t \in DOMAIN r.unc, NEW i \in r.unc[t].sel PROVE i \in DOMAIN r.tr /\ r.tr[i].out \in Ins[t]
    <3>1. i \in DOMAIN s.tr /\ s.tr[i].out \in Ins[t]
      BY <1>3, <2>4
    <3>2. s.tr[i].out \notin GoneOuts(s, h)
      BY <2>1, <3>1
    <3>3. ~(s.tr[i].height >= h)
      BY <3>1, <3>2 DEF GoneOuts, Gone
    <3>4. s.tr[i].height \in Nat
      <4> DEFINE x == s.tr[i]
      <4>1. x \in [out : Outer, height : 1 .. n, spent : BOOLEAN, at : 0 .. n]
        BY <1>0, <3>1 DEF TransfersOK
      <4> HIDE DEF x
      <4>2. x.height \in Nat
        BY <4>1
      <4> QED BY <4>2 DEF x
    <3>5. s.tr[i].height < h
      BY <1>0, <3>3, <3>4
    <3>6. i \in DOMAIN r.tr
      BY <1>1, <3>1, <3>5 DEF DetachEffect
    <3>7. r.tr[i].out = s.tr[i].out
      <4>1. i \in DOMAIN s.tr /\ UnspentOf(s.tr[i], r.tr[i], h, n)
        BY <1>0, <1>1, <3>6, UnspentFacts
      <4> QED BY <4>1 DEF UnspentOf
    <3> QED BY <3>1, <3>6, <3>7
  <2>5. \A t \in DOMAIN r.unc : Ins[t] \subseteq DOMAIN r.ki
    BY <2>1
  <2> QED BY <2>2, <2>3, <2>4, <2>5 DEF Settled
<1> QED BY <1>3, <1>4 DEF Grounded

-----------------------------------------------------------------------------
(* Operations that change marks and pending transactions only. *)

Remarked(s, r) ==
  /\ r.ki = s.ki /\ r.hist = s.hist /\ r.seen = s.seen
  /\ DOMAIN r.tr \subseteq DOMAIN s.tr /\ \A i \in DOMAIN s.tr \ DOMAIN r.tr : s.tr[i].at # 0
  /\ \A i \in DOMAIN r.tr :
       /\ r.tr[i].spent \in BOOLEAN /\ r.tr[i] = [s.tr[i] EXCEPT !.spent = r.tr[i].spent]
       /\ s.tr[i].at # 0 /\ s.tr[i].spent => r.tr[i].spent

MarkedBy(tr, m, which, flag) ==
  /\ DOMAIN m = DOMAIN tr
  /\ \A i \in DOMAIN tr : /\ m[i].spent = (IF i \in which THEN flag ELSE tr[i].spent) /\ m[i].spent \in BOOLEAN
                          /\ m[i] = [tr[i] EXCEPT !.spent = m[i].spent]
                          /\ m[i].out = tr[i].out /\ m[i].height = tr[i].height /\ m[i].at = tr[i].at
SameEntries(tr, m) ==
  \A i \in DOMAIN m : i \in DOMAIN tr /\ m[i].out = tr[i].out /\ m[i].height = tr[i].height /\ m[i].at = tr[i].at
KeepsTracks(s, r) == \A G : Tracks(s, G) => Tracks(r, G)

LEMMA MarkedFacts ==
  ASSUME NEW tr, NEW n, TransfersOK(tr, n), NEW which, NEW flag \in BOOLEAN, NEW m, m = Marked(tr, which, flag)
  PROVE  TransfersOK(m, n) /\ MarkedBy(tr, m, which, flag)
<1>1. DOMAIN m = DOMAIN tr /\ \A i \in DOMAIN tr : m[i] = IF i \in which THEN [tr[i] EXCEPT !.spent = flag] ELSE tr[i]
  BY DEF Marked
<1>2. ASSUME NEW i \in DOMAIN tr
      PROVE  /\ m[i].spent = (IF i \in which THEN flag ELSE tr[i].spent) /\ m[i].spent \in BOOLEAN
             /\ m[i] = [tr[i] EXCEPT !.spent = m[i].spent]
             /\ m[i].out = tr[i].out /\ m[i].height = tr[i].height /\ m[i].at = tr[i].at
             /\ m[i] \in [out : Outer, height : 1 .. n, spent : BOOLEAN, at : 0 .. n]
  <2> DEFINE x == tr[i]
             y == m[i]
  <2>1. y = (IF i \in which THEN [x EXCEPT !.spent = flag] ELSE x) /\ x \in [out : Outer, height : 1 .. n, spent : BOOLEAN, at : 0 .. n]
    BY <1>1 DEF TransfersOK
  <2> HIDE DEF x, y
  <2>2. /\ y.spent = (IF i \in which THEN flag ELSE x.spent) /\ y.spent \in BOOLEAN
        /\ y = [x EXCEPT !.spent = y.spent]
        /\ y.out = x.out /\ y.height = x.height /\ y.at = x.at
        /\ y \in [out : Outer, height : 1 .. n, spent : BOOLEAN, at : 0 .. n]
    <3>1. CASE i \in which
      BY <2>1, <3>1
    <3>2. CASE i \notin which
      BY <2>1, <3>2
    <3> QED BY <3>1, <3>2
  <2> QED BY <2>2 DEF x, y
<1>3. TransfersOK(m, n)
  BY <1>1, <1>2 DEF TransfersOK
<1>4. MarkedBy(tr, m, which, flag)
  BY <1>1, <1>2 DEF MarkedBy
<1> QED BY <1>3, <1>4

LEMMA RemarkedFacts ==
  ASSUME NEW s, NEW n, TransfersOK(s.tr, n), NEW r, Remarked(s, r)
  PROVE  TransfersOK(r.tr, n) /\ SameEntries(s.tr, r.tr) /\ KeepsTracks(s, r)
<1>1. ASSUME NEW i \in DOMAIN r.tr
      PROVE  /\ i \in DOMAIN s.tr /\ r.tr[i].out = s.tr[i].out /\ r.tr[i].height = s.tr[i].height
             /\ r.tr[i].at = s.tr[i].at /\ r.tr[i] \in [out : Outer, height : 1 .. n, spent : BOOLEAN, at : 0 .. n]
             /\ (s.tr[i].at # 0 /\ s.tr[i].spent => r.tr[i].spent)
  <2> DEFINE x == s.tr[i]
             y == r.tr[i]
             f == r.tr[i].spent
  <2>1. i \in DOMAIN s.tr /\ f \in BOOLEAN /\ y = [x EXCEPT !.spent = f] /\ (x.at # 0 /\ x.spent => f)
    BY DEF Remarked
  <2>2. x \in [out : Outer, height : 1 .. n, spent : BOOLEAN, at : 0 .. n] /\ f = y.spent
    BY <2>1 DEF TransfersOK
  <2> HIDE DEF x, y, f
  <2>3. y.out = x.out /\ y.height = x.height /\ y.at = x.at /\ y \in [out : Outer, height : 1 .. n, spent : BOOLEAN, at : 0 .. n]
    BY <2>1, <2>2
  <2> QED BY <2>1, <2>2, <2>3 DEF x, y
<1>2. TransfersOK(r.tr, n)
  BY <1>1 DEF TransfersOK, Remarked
<1>3. ASSUME NEW G, Tracks(s, G) PROVE Tracks(r, G)
  <2>1. ASSUME NEW i \in DOMAIN r.tr
        PROVE  TrackedBy(G, r.tr[i]) /\ r.tr[i].out \in DOMAIN r.ki /\ r.ki[r.tr[i].out] = i
    <3>1. TrackedBy(G, s.tr[i]) /\ s.tr[i].out \in DOMAIN s.ki /\ s.ki[s.tr[i].out] = i
      BY <1>1, <1>3 DEF Tracks
    <3> QED BY <1>1, <3>1 DEF TrackedBy, Remarked
  <2>2. ASSUME NEW o \in Forgotten(r) PROVE \E h : Spends(G, o, h)
    <3>1. o \in DOMAIN s.ki /\ \A i \in DOMAIN r.tr : r.tr[i].out # o
      BY DEF Forgotten, Outputs, Remarked
    <3>2. CASE o \in Forgotten(s)
      BY <1>3, <3>2 DEF Tracks
    <3>3. CASE o \notin Forgotten(s)
      <4>1. PICK i \in DOMAIN s.tr : s.tr[i].out = o
        BY <3>1, <3>3 DEF Forgotten, Outputs
      <4>2. s.tr[i].at # 0
        BY <1>1, <3>1, <4>1 DEF Remarked
      <4> QED BY <1>3, <4>1, <4>2 DEF Tracks, TrackedBy
    <3> QED BY <3>2, <3>3
  <2>3. \A o : o \in DOMAIN r.ki <=> \E h : Gets(G, o, h)
    BY <1>3 DEF Remarked, Tracks
  <2> QED BY <2>1, <2>2, <2>3 DEF Tracks
<1>4. SameEntries(s.tr, r.tr)
  BY <1>1 DEF SameEntries
<1>5. KeepsTracks(s, r)
  BY <1>3 DEF KeepsTracks
<1> QED BY <1>2, <1>4, <1>5

LEMMA RemarkedRecorded ==
  ASSUME NEW s, NEW n, TransfersOK(s.tr, n), NEW r, Remarked(s, r), NEW G, Recorded(s, G),
         \A u \in DOMAIN r.unc : u \in DOMAIN s.unc \/ \A e \in s.hist : e.tx # u
  PROVE  Recorded(r, G)
<1>1. \A i \in DOMAIN r.tr : i \in DOMAIN s.tr /\ r.tr[i].out = s.tr[i].out /\ r.tr[i].at = s.tr[i].at
  <2>1. SameEntries(s.tr, r.tr)
    BY RemarkedFacts
  <2> QED BY <2>1 DEF SameEntries
<1>2. r.hist = s.hist
  BY DEF Remarked
<1>3. \A e \in r.hist : << e.tx, e.height >> \in G /\ e.tx \notin DOMAIN r.unc /\ (Ins[e.tx] # {} => e.outgoing)
  BY <1>2 DEF Recorded
<1>4. \A i \in DOMAIN r.tr : r.tr[i].at # 0 =>
        \E e \in r.hist : e.height = r.tr[i].at /\ r.tr[i].out \in Ins[e.tx] /\ e.outgoing
  BY <1>1, <1>2 DEF Recorded
<1> QED BY <1>3, <1>4 DEF Recorded

-----------------------------------------------------------------------------
(* handle_unconfirmed_tx. *)

HandleEffect(s, found, r) ==
  /\ Remarked(s, r) /\ DOMAIN r.tr = DOMAIN s.tr
  /\ \A i \in DOMAIN s.tr :
       r.tr[i].spent = IF \E t \in NewPending(s, found) : i \in Selected(s, t) THEN TRUE ELSE s.tr[i].spent
  /\ DOMAIN r.unc = DOMAIN s.unc \cup NewPending(s, found) /\ \A u \in DOMAIN s.unc : r.unc[u] = s.unc[u]
  /\ \A t \in NewPending(s, found) :
       r.unc[t] = [sel |-> Selected(s, t), old |-> FALSE, outgoing |-> Selected(s, t) # {}]
  /\ r.due = s.due /\ r.free = s.free

LEMMA HandleEffects ==
  ASSUME NEW s, Shape(s), NEW n, TransfersOK(s.tr, n), NEW found, NEW r, r = HandleUnconfirmed(s, found)
  PROVE  HandleEffect(s, found, r)
<1> DEFINE N == NewPending(s, found)
           M == UNION { Selected(s, t) : t \in N }
           y == [t \in N |-> [sel |-> Selected(s, t), old |-> FALSE, outgoing |-> Selected(s, t) # {}]]
<1>1. /\ r.seen = s.seen /\ r.ki = s.ki /\ r.hist = s.hist /\ r.due = s.due /\ r.free = s.free
      /\ r.unc = Override(y, s.unc) /\ r.tr = Marked(s.tr, M, TRUE)
  BY HandleFields DEF HuUnc, HuTr
<1>2. N \cap DOMAIN s.unc = {}
  BY DEF NewPending, Pending
<1>3. \A i : i \in M <=> \E t \in N : i \in Selected(s, t)
  OBVIOUS
<1>4. DOMAIN y = N /\ \A t \in N : y[t] = [sel |-> Selected(s, t), old |-> FALSE, outgoing |-> Selected(s, t) # {}]
  OBVIOUS
<1> HIDE DEF N, M, y
<1>5. /\ DOMAIN r.tr = DOMAIN s.tr
      /\ \A i \in DOMAIN s.tr : /\ r.tr[i].spent = (IF i \in M THEN TRUE ELSE s.tr[i].spent) /\ r.tr[i].spent \in BOOLEAN
                                /\ r.tr[i] = [s.tr[i] EXCEPT !.spent = r.tr[i].spent]
  <2>1. MarkedBy(s.tr, r.tr, M, TRUE)
    BY <1>1, MarkedFacts
  <2> QED BY <2>1 DEF MarkedBy
<1>6. Remarked(s, r)
  BY <1>1, <1>5 DEF Remarked
<1>7. DOMAIN r.unc = DOMAIN s.unc \cup N /\ (\A u \in DOMAIN s.unc : r.unc[u] = s.unc[u]) /\ \A t \in N : r.unc[t] = y[t]
  BY <1>1, <1>2, <1>4 DEF Override
<1>8. \A i \in DOMAIN s.tr :
        r.tr[i].spent = IF \E t \in N : i \in Selected(s, t) THEN TRUE ELSE s.tr[i].spent
  <2> TAKE i \in DOMAIN s.tr
  <2>1. r.tr[i].spent = IF i \in M THEN TRUE ELSE s.tr[i].spent
    BY <1>5
  <2> QED BY <1>3, <2>1
<1>9. \A t \in N : r.unc[t] = [sel |-> Selected(s, t), old |-> FALSE, outgoing |-> Selected(s, t) # {}]
  BY <1>4, <1>7
<1>10. Remarked(s, r) /\ DOMAIN r.tr = DOMAIN s.tr /\ r.due = s.due /\ r.free = s.free
  BY <1>1, <1>5, <1>6
<1> QED BY <1>7, <1>8, <1>9, <1>10, Zenon DEF HandleEffect, N

LEMMA HandleTypes ==
  ASSUME NEW s, Shape(s), NEW n, TypesOK(s, n), NEW found, found \subseteq Txs \ Coinbase,
         NEW r, r = HandleUnconfirmed(s, found)
  PROVE  TypesOK(r, n)
<1>1. HandleEffect(s, found, r) /\ TransfersOK(s.tr, n)
  BY HandleEffects DEF TypesOK
<1>2. r.inc = HuInc(s, found)
  BY HandleFields
<1>3. r.inc \subseteq Txs
  BY <1>2 DEF HuInc, TypesOK
<1>4. TransfersOK(r.tr, n) /\ r.ki = s.ki /\ r.hist = s.hist
  <2>1. Remarked(s, r)
    BY <1>1 DEF HandleEffect
  <2>2. TransfersOK(r.tr, n)
    BY <1>1, <2>1, RemarkedFacts
  <2> QED BY <2>1, <2>2 DEF Remarked
<1>5. NewPending(s, found) \subseteq found
  BY DEF NewPending
<1>6. PendingOK(r.unc)
  <2>1. ASSUME NEW u \in DOMAIN r.unc
        PROVE  u \in Txs \ Coinbase /\ r.unc[u] \in [sel : {r.unc[u].sel}, old : BOOLEAN, outgoing : BOOLEAN]
    <3>1. CASE u \in DOMAIN s.unc
      BY <1>1, <3>1 DEF HandleEffect, TypesOK, PendingOK
    <3>2. CASE u \in NewPending(s, found)
      <4> DEFINE g == Selected(s, u) # {}
                 c == Selected(s, u)
      <4>1. r.unc[u] = [sel |-> c, old |-> FALSE, outgoing |-> g] /\ u \in Txs \ Coinbase
        BY <1>1, <1>5, <3>2 DEF HandleEffect
      <4>2. g \in BOOLEAN
        OBVIOUS
      <4> HIDE DEF g, c
      <4> QED BY <4>1, <4>2
    <3> QED BY <1>1, <3>1, <3>2 DEF HandleEffect
  <2> QED BY <2>1 DEF PendingOK
<1> QED BY <1>1, <1>3, <1>4, <1>6 DEF HandleEffect, TypesOK

\* Before the call every mark is explained by what is pending after it.
LEMMA HandleExact ==
  ASSUME NEW s, Shape(s), NEW n, TypesOK(s, n), NEW found, NEW r, r = HandleUnconfirmed(s, found), ~r.revived,
         NEW G, Valid(G), Tracks(s, G), Recorded(s, G),
         \A i \in DOMAIN s.tr : s.tr[i].spent /\ s.tr[i].at = 0 => s.tr[i].out \in Reserving(r.unc) \cup r.due
  PROVE  Exact(r, G)
<1> DEFINE N == NewPending(s, found)
<1>1. HandleEffect(s, found, r) /\ TransfersOK(s.tr, n)
  BY HandleEffects DEF TypesOK
<1>2. Remarked(s, r)
  BY <1>1 DEF HandleEffect
<1>3. \A i \in DOMAIN r.tr : i \in DOMAIN s.tr /\ r.tr[i].out = s.tr[i].out /\ r.tr[i].at = s.tr[i].at
  <2>1. SameEntries(s.tr, r.tr)
    BY <1>1, <1>2, RemarkedFacts
  <2> QED BY <2>1 DEF SameEntries
<1>4. Tracks(r, G)
  <2>1. KeepsTracks(s, r)
    BY <1>1, <1>2, RemarkedFacts
  <2> QED BY <2>1 DEF KeepsTracks
<1>5. \A u \in DOMAIN r.unc : u \in DOMAIN s.unc \/ \A e \in s.hist : e.tx # u
  BY <1>1 DEF HandleEffect, NewPending
<1>6. Recorded(r, G)
  BY <1>1, <1>2, <1>5, RemarkedRecorded
<1>7. r.revived = HuRevived(s, found)
  BY HandleFields
<1>8. \A t \in N : Ins[t] \cap Forgotten(s) = {}
  BY <1>7 DEF HuRevived
<1>9. ASSUME NEW i \in DOMAIN r.tr, r.tr[i].spent, r.tr[i].at = 0 PROVE r.tr[i].out \in Reserving(r.unc) \cup r.due
  <2>1. CASE \E t \in N : i \in Selected(s, t)
    <3>1. PICK t \in N : i \in Selected(s, t)
      BY <2>1
    <3>2. PICK o \in Known(s, t) : i = s.ki[o]
      BY <3>1 DEF Selected
    <3>3. o \in Ins[t] /\ o \in DOMAIN s.ki /\ o \notin Forgotten(s)
      BY <1>8, <3>2 DEF Known
    <3>4. s.tr[i].out = o
      BY <3>2, <3>3, OutputsFacts
    <3>5. t \in DOMAIN r.unc /\ r.unc[t] = [sel |-> Selected(s, t), old |-> FALSE, outgoing |-> Selected(s, t) # {}]
      BY <1>1 DEF HandleEffect
    <3>6. r.unc[t].outgoing
      <4> DEFINE c == Selected(s, t)
                 g == c # {}
      <4>1. r.unc[t] = [sel |-> c, old |-> FALSE, outgoing |-> g] /\ g
        BY <3>1, <3>5
      <4> HIDE DEF c, g
      <4> QED BY <4>1
    <3> QED BY <1>3, <3>3, <3>4, <3>5, <3>6 DEF Reserving
  <2>2. CASE ~\E t \in N : i \in Selected(s, t)
    <3>1. s.tr[i].spent /\ s.tr[i].at = 0 /\ i \in DOMAIN s.tr /\ s.tr[i].out = r.tr[i].out
      BY <1>1, <1>3, <1>9, <2>2 DEF HandleEffect
    <3> QED BY <3>1
  <2> QED BY <2>1, <2>2
<1> QED BY <1>4, <1>6, <1>9 DEF Exact, Explained

LEMMA HandleSettled ==
  ASSUME NEW s, Shape(s), NEW n, TypesOK(s, n), NEW found, NEW r, r = HandleUnconfirmed(s, found), ~r.revived,
         NEW G, Tracks(s, G), Settled(s), \A t \in NewPending(s, found) : Ins[t] \subseteq DOMAIN s.ki
  PROVE  Settled(r)
<1> DEFINE N == NewPending(s, found)
<1>1. HandleEffect(s, found, r) /\ TransfersOK(s.tr, n)
  BY HandleEffects DEF TypesOK
<1>2. \A i \in DOMAIN r.tr : i \in DOMAIN s.tr /\ r.tr[i].out = s.tr[i].out
  <2>1. Remarked(s, r)
    BY <1>1 DEF HandleEffect
  <2>2. SameEntries(s.tr, r.tr)
    BY <1>1, <2>1, RemarkedFacts
  <2> QED BY <2>2 DEF SameEntries
<1>3. \A i \in DOMAIN s.tr : i \in DOMAIN r.tr /\ (s.tr[i].spent => r.tr[i].spent)
  BY <1>1 DEF HandleEffect
<1>4. r.revived = HuRevived(s, found) /\ r.ki = s.ki
  BY HandleFields
<1>5. ASSUME NEW t \in DOMAIN r.unc
      PROVE  /\ Ins[t] \subseteq DOMAIN r.ki /\ (Ins[t] # {} => r.unc[t].outgoing)
             /\ \A i \in DOMAIN r.tr : r.tr[i].out \in Ins[t] => r.tr[i].spent
             /\ \A i \in r.unc[t].sel : i \in DOMAIN r.tr /\ r.tr[i].out \in Ins[t]
  <2>1. CASE t \in DOMAIN s.unc
    <3>1. r.unc[t] = s.unc[t]
      BY <1>1, <2>1 DEF HandleEffect
    <3> QED BY <1>2, <1>3, <1>4, <2>1, <3>1 DEF Settled
  <2>2. CASE t \in N
    <3>1. r.unc[t] = [sel |-> Selected(s, t), old |-> FALSE, outgoing |-> Selected(s, t) # {}]
      BY <1>1, <2>2 DEF HandleEffect
    <3>2. r.unc[t].sel = Selected(s, t) /\ (r.unc[t].outgoing <=> Selected(s, t) # {})
      <4> DEFINE c == Selected(s, t)
                 g == c # {}
      <4>1. r.unc[t] = [sel |-> c, old |-> FALSE, outgoing |-> g]
        BY <3>1
      <4> HIDE DEF c, g
      <4>2. r.unc[t].sel = c /\ r.unc[t].outgoing = g
        BY <4>1
      <4> QED BY <4>2 DEF c, g
    <3>3. Ins[t] \cap Forgotten(s) = {} /\ Ins[t] \subseteq DOMAIN s.ki
      BY <1>4, <2>2 DEF HuRevived
    <3>4. Known(s, t) = Ins[t] /\ Selected(s, t) = { s.ki[o] : o \in Ins[t] }
      BY <3>3 DEF Known, Selected
    <3>5. \A o \in Ins[t] : s.ki[o] \in DOMAIN s.tr /\ s.tr[s.ki[o]].out = o
      BY <3>3, OutputsFacts
    <3>6. \A i \in r.unc[t].sel : i \in DOMAIN r.tr /\ r.tr[i].out \in Ins[t]
      BY <1>2, <1>3, <3>2, <3>4, <3>5
    <3>7. ASSUME NEW i \in DOMAIN r.tr, r.tr[i].out \in Ins[t] PROVE r.tr[i].spent
      <4>1. i \in DOMAIN s.tr /\ s.ki[s.tr[i].out] = i /\ s.tr[i].out \in Ins[t]
        BY <1>2, <3>7 DEF Tracks
      <4>2. i \in Selected(s, t)
        BY <3>4, <4>1
      <4> QED BY <1>1, <2>2, <4>1, <4>2 DEF HandleEffect
    <3>8. Ins[t] \subseteq DOMAIN r.ki /\ (Ins[t] # {} => r.unc[t].outgoing)
      BY <1>4, <3>2, <3>3, <3>4
    <3> QED BY <3>6, <3>7, <3>8
  <2> QED BY <1>1, <2>1, <2>2 DEF HandleEffect
<1> QED BY <1>5 DEF Settled

-----------------------------------------------------------------------------
(* on_idle and truncate_wallet. *)

LEMMA RemarkedExact ==
  ASSUME NEW s, NEW n, TransfersOK(s.tr, n), NEW r, Remarked(s, r), NEW G, Exact(s, G),
         DOMAIN r.unc \subseteq DOMAIN s.unc, Explained(r)
  PROVE  Exact(r, G)
<1>1. Tracks(r, G)
  <2>1. KeepsTracks(s, r)
    BY RemarkedFacts
  <2> QED BY <2>1 DEF KeepsTracks, Exact
<1>2. Recorded(r, G)
  BY RemarkedRecorded DEF Exact
<1> QED BY <1>1, <1>2 DEF Exact

Finished(s) == Truncate([OnIdle(s) EXCEPT !.free = {}])

\* What on_idle does to the mark of a transfer.
IdleEffect(s, tr) ==
  /\ DOMAIN tr = DOMAIN s.tr
  /\ \A i \in DOMAIN tr :
       /\ tr[i].spent \in BOOLEAN /\ tr[i] = [s.tr[i] EXCEPT !.spent = tr[i].spent]
       /\ tr[i].out = s.tr[i].out /\ tr[i].at = s.tr[i].at
       /\ tr[i].at # 0 => tr[i].spent = s.tr[i].spent
       /\ tr[i].at = 0 /\ tr[i].spent => tr[i].out \in Reserving(Compliant(s))
       /\ s.tr[i].spent /\ ~tr[i].spent =>
            i \in SelectedBy(s, Outdated(s)) \/ tr[i].out \notin Reserving(Compliant(s))

LEMMA IdleFacts ==
  ASSUME NEW s, NEW n, TransfersOK(s.tr, n), NEW tr, tr = IdleTransfers(s)
  PROVE  TransfersOK(tr, n) /\ IdleEffect(s, tr)
<1> DEFINE m == Released(s)
           R == { i \in SelectedBy(s, Outdated(s)) : s.tr[i].at = 0 }
           A == Alive(m, Compliant(s))
<1>1. m = Marked(s.tr, R, FALSE)
  BY DEF Released
<1>2. tr = Marked(m, A, FALSE)
  BY DEF IdleTransfers
<1>3. \A i \in DOMAIN m : i \in A <=> m[i].at = 0 /\ m[i].out \notin Reserving(Compliant(s))
  BY DEF Alive
<1>4. \A i \in R : i \in SelectedBy(s, Outdated(s)) /\ s.tr[i].at = 0
  OBVIOUS
<1> HIDE DEF m, R, A
<1>5. /\ DOMAIN m = DOMAIN s.tr /\ TransfersOK(m, n)
      /\ \A i \in DOMAIN s.tr : /\ m[i].spent = (IF i \in R THEN FALSE ELSE s.tr[i].spent) /\ m[i].spent \in BOOLEAN
                                /\ m[i] = [s.tr[i] EXCEPT !.spent = m[i].spent]
                                /\ m[i].out = s.tr[i].out /\ m[i].height = s.tr[i].height /\ m[i].at = s.tr[i].at
  <2>1. TransfersOK(m, n) /\ MarkedBy(s.tr, m, R, FALSE)
    BY <1>1, MarkedFacts
  <2> QED BY <2>1 DEF MarkedBy
<1>6. /\ DOMAIN tr = DOMAIN m /\ TransfersOK(tr, n)
      /\ \A i \in DOMAIN m : /\ tr[i].spent = (IF i \in A THEN FALSE ELSE m[i].spent) /\ tr[i].spent \in BOOLEAN
                             /\ tr[i] = [m[i] EXCEPT !.spent = tr[i].spent]
                             /\ tr[i].out = m[i].out /\ tr[i].height = m[i].height /\ tr[i].at = m[i].at
  <2>1. TransfersOK(m, n)
    BY <1>5
  <2>2. TransfersOK(tr, n) /\ MarkedBy(m, tr, A, FALSE)
    BY <1>2, <2>1, MarkedFacts
  <2> QED BY <2>2 DEF MarkedBy
<1>7. ASSUME NEW i \in DOMAIN tr PROVE tr[i] = [s.tr[i] EXCEPT !.spent = tr[i].spent]
  <2> DEFINE x == s.tr[i]
             y == m[i]
             z == tr[i]
             f == m[i].spent
             g == tr[i].spent
  <2>1. y = [x EXCEPT !.spent = f] /\ z = [y EXCEPT !.spent = g] /\ x \in [out : Outer, height : 1 .. n, spent : BOOLEAN, at : 0 .. n]
    BY <1>5, <1>6 DEF TransfersOK
  <2> HIDE DEF x, y, z, f, g
  <2>2. z = [x EXCEPT !.spent = g]
    BY <2>1
  <2> QED BY <2>2 DEF x, z, g
<1>8. ASSUME NEW i \in DOMAIN tr
      PROVE  /\ tr[i].spent \in BOOLEAN
             /\ tr[i].out = s.tr[i].out /\ tr[i].at = s.tr[i].at
             /\ tr[i].at # 0 => tr[i].spent = s.tr[i].spent
             /\ tr[i].at = 0 /\ tr[i].spent => tr[i].out \in Reserving(Compliant(s))
             /\ s.tr[i].spent /\ ~tr[i].spent =>
                  i \in SelectedBy(s, Outdated(s)) \/ tr[i].out \notin Reserving(Compliant(s))
  <2>1. i \in DOMAIN m /\ i \in DOMAIN s.tr
    BY <1>5, <1>6
  <2>2. tr[i].spent \in BOOLEAN /\ tr[i].out = s.tr[i].out /\ tr[i].at = s.tr[i].at /\ m[i].out = tr[i].out /\ m[i].at = tr[i].at
    BY <1>5, <1>6, <2>1
  <2>3. tr[i].spent = (IF i \in A THEN FALSE ELSE m[i].spent) /\ m[i].spent = (IF i \in R THEN FALSE ELSE s.tr[i].spent)
    BY <1>5, <1>6, <2>1
  <2>4. i \in A <=> tr[i].at = 0 /\ tr[i].out \notin Reserving(Compliant(s))
    BY <1>3, <2>1, <2>2
  <2>5. i \in R => tr[i].at = 0 /\ i \in SelectedBy(s, Outdated(s))
    BY <1>4, <2>2
  <2> QED BY <2>2, <2>3, <2>4, <2>5
<1>9. IdleEffect(s, tr)
  BY <1>5, <1>6, <1>7, <1>8 DEF IdleEffect
<1> QED BY <1>6, <1>9

FinishEffect(s, r) ==
  /\ \A i \in DOMAIN s.tr : i \in DOMAIN r.tr \/
       (s.tr[i].at # 0 /\ s.tr[i].at + ConciseDepth < s.ids.size - 1)
  /\ \A i \in DOMAIN r.tr : s.tr[i].spent /\ ~r.tr[i].spent =>
       (i \in SelectedBy(s, Outdated(s)) /\ s.tr[i].at = 0) \/ r.tr[i].out \notin Reserving(r.unc)
  /\ DOMAIN r.unc = DOMAIN s.unc \ Outdated(s) /\ \A u \in DOMAIN r.unc : r.unc[u] = s.unc[u]

LEMMA FinishEffects ==
  ASSUME NEW s, Shape(s), NEW n, TransfersOK(s.tr, n), NEW r, r = Finished(s)
  PROVE  Remarked(s, r) /\ Explained(r) /\ FinishEffect(s, r)
<1> DEFINE tr == IdleTransfers(s)
           B == Buriable(tr, s.ids.size)
<1>1. /\ Shape(r) /\ r.seen = s.seen /\ r.ki = s.ki /\ r.hist = s.hist /\ r.due = {} /\ r.unc = Compliant(s)
      /\ r.tr = [i \in DOMAIN tr \ B |-> tr[i]]
  BY FinishFields DEF Finished
<1>2. \A i \in B : i \in DOMAIN tr /\ tr[i].at # 0 /\ tr[i].at + ConciseDepth < s.ids.size - 1
  BY DEF Buriable
<1> HIDE DEF tr, B
<1>3. /\ DOMAIN tr = DOMAIN s.tr /\ TransfersOK(tr, n)
      /\ \A i \in DOMAIN tr :
              /\ tr[i].spent \in BOOLEAN /\ tr[i] = [s.tr[i] EXCEPT !.spent = tr[i].spent]
              /\ tr[i].out = s.tr[i].out /\ tr[i].at = s.tr[i].at
              /\ tr[i].at # 0 => tr[i].spent = s.tr[i].spent
              /\ tr[i].at = 0 /\ tr[i].spent => tr[i].out \in Reserving(Compliant(s))
              /\ s.tr[i].spent /\ ~tr[i].spent =>
                   i \in SelectedBy(s, Outdated(s)) \/ tr[i].out \notin Reserving(Compliant(s))
  <2>1. IdleEffect(s, tr) /\ TransfersOK(tr, n)
    BY IdleFacts DEF tr
  <2> QED BY <2>1 DEF IdleEffect
<1>4. DOMAIN r.tr = DOMAIN s.tr \ B /\ \A i \in DOMAIN r.tr : r.tr[i] = tr[i]
  BY <1>1, <1>3
<1>5. Remarked(s, r)
  <2>1. \A i \in DOMAIN s.tr \ DOMAIN r.tr : s.tr[i].at # 0
    BY <1>2, <1>3, <1>4
  <2>2. \A i \in DOMAIN r.tr : i \in DOMAIN tr /\ r.tr[i] = tr[i]
    BY <1>3, <1>4
  <2>3. ASSUME NEW i \in DOMAIN r.tr
        PROVE  /\ r.tr[i].spent \in BOOLEAN /\ r.tr[i] = [s.tr[i] EXCEPT !.spent = r.tr[i].spent]
               /\ s.tr[i].at # 0 /\ s.tr[i].spent => r.tr[i].spent
    <3>1. r.tr[i] = tr[i] /\ i \in DOMAIN tr
      BY <2>2
    <3> QED BY <1>3, <3>1
  <2> QED BY <1>1, <1>4, <2>1, <2>3 DEF Remarked
<1>6. Explained(r)
  <2> SUFFICES ASSUME NEW i \in DOMAIN r.tr, r.tr[i].spent, r.tr[i].at = 0
               PROVE  r.tr[i].out \in Reserving(r.unc) \cup r.due
    BY DEF Explained
  <2>1. i \in DOMAIN tr /\ r.tr[i] = tr[i]
    BY <1>3, <1>4
  <2>2. tr[i].at = 0 /\ tr[i].spent => tr[i].out \in Reserving(Compliant(s))
    BY <1>3, <2>1
  <2> QED BY <1>1, <2>1, <2>2
<1>7. \A i \in DOMAIN s.tr : i \in DOMAIN r.tr \/ (s.tr[i].at # 0 /\ s.tr[i].at + ConciseDepth < s.ids.size - 1)
  BY <1>2, <1>3, <1>4
<1>8. \A i \in DOMAIN r.tr : s.tr[i].spent /\ ~r.tr[i].spent =>
              (i \in SelectedBy(s, Outdated(s)) /\ s.tr[i].at = 0) \/ r.tr[i].out \notin Reserving(r.unc)
  <2> TAKE i \in DOMAIN r.tr
  <2> DEFINE x == s.tr[i]
             y == tr[i]
  <2>1. i \in DOMAIN tr /\ r.tr[i] = y
    BY <1>3, <1>4
  <2>2. y.at = x.at /\ y.at # 0 => y.spent = x.spent
    BY <1>3, <2>1
  <2>3. x.spent /\ ~y.spent => i \in SelectedBy(s, Outdated(s)) \/ y.out \notin Reserving(Compliant(s))
    BY <1>3, <2>1
  <2>4. y.at = x.at
    BY <1>3, <2>1
  <2>5. r.unc = Compliant(s)
    BY <1>1
  <2> HIDE DEF x, y
  <2>6. x.spent /\ ~y.spent => (i \in SelectedBy(s, Outdated(s)) /\ x.at = 0) \/ y.out \notin Reserving(r.unc)
    BY <2>2, <2>3, <2>4, <2>5
  <2> QED BY <2>1, <2>6 DEF x, y
<1>9. DOMAIN r.unc = DOMAIN s.unc \ Outdated(s) /\ \A u \in DOMAIN r.unc : r.unc[u] = s.unc[u]
  BY <1>1 DEF Compliant, Restrict, Pending
<1>10. FinishEffect(s, r)
  BY <1>7, <1>8, <1>9 DEF FinishEffect
<1> QED BY <1>5, <1>6, <1>10

LEMMA FinishSettled ==
  ASSUME NEW s, ChainOK(s), RecordsOK(s), ~s.revived, Settled(s), NEW r, r = Finished(s),
         ~\E i \in SelectedBy(s, Outdated(s)) : s.tr[i].at = 0 /\ s.tr[i].out \in SpendsOf(Pending(s) \ Outdated(s))
  PROVE  Settled(r)
<1> DEFINE n == Len(s.seen)
           G == On(s.seen)
<1>1. Shape(s) /\ TransfersOK(s.tr, n) /\ Exact(s, G) /\ s.seen \in Seq(Blocks) /\ s.ids.size = n + 1 /\ n \in Nat
  BY DEF ChainOK, Chain, IdsOK, RecordsOK, TypesOK
<1>2. Valid(G) /\ Tracks(s, G)
  BY <1>1 DEF Exact
<1>3. /\ Remarked(s, r)
      /\ \A i \in DOMAIN s.tr : i \in DOMAIN r.tr \/ (s.tr[i].at # 0 /\ s.tr[i].at + ConciseDepth < s.ids.size - 1)
      /\ \A i \in DOMAIN r.tr : s.tr[i].spent /\ ~r.tr[i].spent =>
              (i \in SelectedBy(s, Outdated(s)) /\ s.tr[i].at = 0) \/ r.tr[i].out \notin Reserving(r.unc)
      /\ DOMAIN r.unc = DOMAIN s.unc \ Outdated(s) /\ \A u \in DOMAIN r.unc : r.unc[u] = s.unc[u]
  <2> HIDE DEF n, G
  <2>1. Remarked(s, r) /\ FinishEffect(s, r)
    BY <1>1, FinishEffects
  <2> QED BY <2>1 DEF FinishEffect
<1>4. (\A i \in DOMAIN r.tr : i \in DOMAIN s.tr /\ r.tr[i].out = s.tr[i].out) /\ r.ki = s.ki
  <2> HIDE DEF n, G
  <2>1. TransfersOK(s.tr, n) /\ Remarked(s, r)
    BY <1>1, <1>3
  <2>2. SameEntries(s.tr, r.tr)
    BY <2>1, RemarkedFacts
  <2> QED BY <2>1, <2>2 DEF SameEntries, Remarked
<1>5. ASSUME NEW t \in DOMAIN r.unc
      PROVE  /\ Ins[t] \subseteq DOMAIN r.ki /\ (Ins[t] # {} => r.unc[t].outgoing)
             /\ \A i \in DOMAIN r.tr : r.tr[i].out \in Ins[t] => r.tr[i].spent
             /\ \A i \in r.unc[t].sel : i \in DOMAIN r.tr /\ r.tr[i].out \in Ins[t]
  <2>1. t \in DOMAIN s.unc /\ t \notin Outdated(s) /\ r.unc[t] = s.unc[t]
    BY <1>3
  <2>2. Ins[t] \subseteq DOMAIN r.ki /\ (Ins[t] # {} => r.unc[t].outgoing)
    BY <1>4, <2>1 DEF Settled
  <2>3. ASSUME NEW i \in DOMAIN r.tr, r.tr[i].out \in Ins[t] PROVE r.tr[i].spent
    <3>1. i \in DOMAIN s.tr /\ s.tr[i].out \in Ins[t] /\ s.tr[i].spent
      BY <1>4, <2>1, <2>3 DEF Settled
    <3>2. r.tr[i].out \in Reserving(r.unc)
      BY <2>2, <2>3 DEF Reserving
    <3>3. s.tr[i].out \in SpendsOf(Pending(s) \ Outdated(s))
      BY <2>1, <3>1 DEF SpendsOf, Pending
    <3> QED BY <1>3, <3>1, <3>2, <3>3
  <2>4. ASSUME NEW i \in r.unc[t].sel PROVE i \in DOMAIN r.tr /\ r.tr[i].out \in Ins[t]
    <3>1. i \in DOMAIN s.tr /\ s.tr[i].out \in Ins[t]
      BY <2>1, <2>4 DEF Settled
    <3>2. i \in DOMAIN r.tr
      <4> SUFFICES ASSUME i \notin DOMAIN r.tr PROVE FALSE
        OBVIOUS
      <4> DEFINE a == s.tr[i].at
      <4>1. a # 0 /\ a + ConciseDepth < s.ids.size - 1
        BY <1>3, <3>1
      <4>2. Spends(G, s.tr[i].out, a)
        BY <1>2, <3>1, <4>1 DEF Tracks, TrackedBy
      <4>3. SpentAt(s.seen, s.tr[i].out) = a
        BY <1>1, <1>2, <4>2, SpentAtFacts
      <4> HIDE DEF a
      <4>4. a + ConciseDepth < Len(s.seen)
        BY <1>1, <4>1
      <4>5. Buried(s.seen, t)
        BY <3>1, <4>1, <4>3, <4>4 DEF Buried
      <4> QED BY <2>1, <4>5 DEF Outdated, Pending
    <3> QED BY <1>4, <3>1, <3>2
  <2> QED BY <2>2, <2>3, <2>4
<1> QED BY <1>5 DEF Settled

\* scan_not_compliant_unconfirmed_txs that throws: of the outdated transactions, T are
\* removed, and some of what T and the one at fault selected is released.
Interrupted(s, T, I) ==
  [s EXCEPT !.unc = Restrict(@, Pending(s) \ T), !.tr = Marked(@, I, FALSE), !.due = @ \cup SpendsOf(T)]

LEMMA InterruptedRecords ==
  ASSUME NEW s, ChainOK(s), RecordsOK(s), NEW T, NEW I, \A i \in I : s.tr[i].at = 0, NEW r, r = Interrupted(s, T, I)
  PROVE  RecordsOK(r) /\ r.revived = s.revived /\ Shrunk(s, r) /\ r.hist = s.hist
<1> DEFINE n == Len(s.seen)
           G == On(s.seen)
           u == Restrict(s.unc, Pending(s) \ T)
           m == Marked(s.tr, I, FALSE)
           d == s.due \cup SpendsOf(T)
<1>1. Shape(s) /\ TypesOK(s, n) /\ TransfersOK(s.tr, n)
  BY DEF ChainOK, RecordsOK, TypesOK
<1>2. r = [s EXCEPT !.unc = u, !.tr = m, !.due = d]
  BY DEF Interrupted
<1>3. DOMAIN u = DOMAIN s.unc \ T /\ \A t \in DOMAIN u : u[t] = s.unc[t]
  BY DEF Restrict, Pending
<1> HIDE DEF n, G, m
<1>4. /\ DOMAIN m = DOMAIN s.tr /\ TransfersOK(m, n)
      /\ \A i \in DOMAIN s.tr : /\ m[i].spent = (IF i \in I THEN FALSE ELSE s.tr[i].spent) /\ m[i].spent \in BOOLEAN
                                /\ m[i] = [s.tr[i] EXCEPT !.spent = m[i].spent]
                                /\ m[i].out = s.tr[i].out /\ m[i].at = s.tr[i].at
  <2>1. TransfersOK(m, n) /\ MarkedBy(s.tr, m, I, FALSE)
    BY <1>1, MarkedFacts DEF m
  <2> QED BY <2>1 DEF MarkedBy
<1> HIDE DEF u, d
<1>5. /\ r.unc = u /\ r.tr = m /\ r.due = d /\ r.seen = s.seen /\ r.ki = s.ki /\ r.hist = s.hist
      /\ r.inc = s.inc /\ r.free = s.free /\ r.revived = s.revived
  BY <1>1, <1>2 DEF Shape
<1>6. PendingOK(u)
  BY <1>1, <1>3 DEF TypesOK, PendingOK
<1>7. TypesOK(r, n)
  BY <1>1, <1>4, <1>5, <1>6 DEF TypesOK
<1>8. Remarked(s, r)
  BY <1>4, <1>5 DEF Remarked
<1>9. ASSUME Exact(s, G) PROVE Exact(r, G)
  <2>1. Explained(r)
    <3> SUFFICES ASSUME NEW i \in DOMAIN r.tr, r.tr[i].spent, r.tr[i].at = 0
                 PROVE  r.tr[i].out \in Reserving(r.unc) \cup r.due
      BY DEF Explained
    <3>1. i \in DOMAIN s.tr /\ s.tr[i].spent /\ s.tr[i].at = 0 /\ r.tr[i].out = s.tr[i].out
      BY <1>4, <1>5
    <3>2. s.tr[i].out \in Reserving(s.unc) \cup s.due
      BY <1>9, <3>1 DEF Exact, Explained
    <3>3. CASE s.tr[i].out \in s.due
      BY <1>5, <3>1, <3>3 DEF d
    <3>4. CASE s.tr[i].out \in Reserving(s.unc)
      <4>1. PICK t \in DOMAIN s.unc : s.unc[t].outgoing /\ s.tr[i].out \in Ins[t]
        BY <3>4 DEF Reserving
      <4>2. CASE t \in T
        BY <1>5, <3>1, <4>1, <4>2 DEF d, SpendsOf
      <4>3. CASE t \notin T
        <5>1. t \in DOMAIN r.unc /\ r.unc[t] = s.unc[t]
          BY <1>3, <1>5, <4>1, <4>3
        <5> QED BY <3>1, <4>1, <5>1 DEF Reserving
      <4> QED BY <4>2, <4>3
    <3> QED BY <3>2, <3>3, <3>4
  <2>2. DOMAIN r.unc \subseteq DOMAIN s.unc
    BY <1>3, <1>5
  <2> QED BY <1>1, <1>8, <1>9, <2>1, <2>2, RemarkedExact
<1>10. RecordsOK(r)
  BY <1>5, <1>7, <1>9 DEF RecordsOK, n, G
<1>11. Shrunk(s, r)
  BY <1>3, <1>5 DEF Shrunk
<1> QED BY <1>5, <1>10, <1>11

LEMMA FinishedRecords ==
  ASSUME NEW s, ChainOK(s), RecordsOK(s), NEW r, r = Finished(s)
  PROVE  RecordsOK(r) /\ r.revived = s.revived /\ Shrunk(s, r) /\ r.hist = s.hist
<1> DEFINE n == Len(s.seen)
<1>1. Shape(s) /\ TypesOK(s, n) /\ TransfersOK(s.tr, n)
  BY DEF ChainOK, RecordsOK, TypesOK
<1> HIDE DEF n
<1>2. Remarked(s, r) /\ Explained(r) /\ DOMAIN r.unc \subseteq DOMAIN s.unc /\ \A u \in DOMAIN r.unc : r.unc[u] = s.unc[u]
  <2>1. Remarked(s, r) /\ Explained(r) /\ FinishEffect(s, r)
    BY <1>1, FinishEffects
  <2> QED BY <2>1 DEF FinishEffect
<1>3. /\ r.seen = s.seen /\ r.ki = s.ki /\ r.hist = s.hist /\ r.free = {} /\ r.inc = s.inc /\ r.revived = s.revived
  BY <1>1, FinishFields DEF Finished
<1>4. TransfersOK(r.tr, n)
  BY <1>1, <1>2, RemarkedFacts
<1>5. PendingOK(r.unc)
  BY <1>1, <1>2 DEF TypesOK, PendingOK
<1>6. TypesOK(r, n)
  BY <1>1, <1>3, <1>4, <1>5 DEF TypesOK
<1>7. \A G : Exact(s, G) => Exact(r, G)
  BY <1>1, <1>2, RemarkedExact
<1>8. RecordsOK(r)
  BY <1>3, <1>6, <1>7 DEF RecordsOK, n
<1> QED BY <1>2, <1>3, <1>8 DEF Shrunk

-----------------------------------------------------------------------------
(* The invariant of the records.  S are the transactions that were sent, l is *)
(* whether the marks of pending transactions got loose.                        *)

OwnIn(s, S) == \A t \in Own : t \in DOMAIN s.unc \/ (\E e \in s.hist : e.tx = t) => t \in S
WalletOK(s, S, l) == RecordsOK(s) /\ OwnIn(s, S) /\ (s.revived => l) /\ (~l => Settled(s))
AuxOK == aux \in [trouble : 0 .. MaxTrouble, loose : BOOLEAN]
\* Blocks and the pool hold only transactions of this account that were sent.
DaemonOK ==
  /\ pool \subseteq Txs \ Coinbase /\ sent \subseteq Own /\ pool \cap Own \subseteq sent
  /\ TxsOn(Path[dtop]) \cap Own \subseteq sent
  /\ \A i \in 1 .. Len(job.resp) : TxsOn(Path[job.resp[i]]) \cap Own \subseteq sent
RecordsInv == AuxOK /\ DaemonOK /\ WalletOK(w, sent, aux.loose) /\ WalletOK(file, sent, aux.loose)

LEMMA WalletGrows ==
  ASSUME NEW s, NEW S, NEW l \in BOOLEAN, WalletOK(s, S, l), NEW S2, S \subseteq S2, NEW m \in BOOLEAN, l => m
  PROVE  WalletOK(s, S2, m)
BY DEF WalletOK, OwnIn

LEMMA EmptyExact ==
  ASSUME NEW s, s.tr = << >>, s.ki = << >>, s.hist = {}
  PROVE  Exact(s, On(<< >>))
<1>1. On(<< >>) = {}
  BY OnEmpty
<1>2. DOMAIN s.tr = {} /\ DOMAIN s.ki = {}
  OBVIOUS
<1>3. (\A o, h : ~Gets({}, o, h)) /\ \A o, h : ~Spends({}, o, h)
  BY DEF Gets, Spends
<1>4. Valid({})
  BY <1>3 DEF Valid
<1>5. Tracks(s, {})
  BY <1>2, <1>3 DEF Tracks, Forgotten
<1>6. Recorded(s, {}) /\ Explained(s)
  BY <1>2 DEF Recorded, Explained
<1> QED BY <1>1, <1>4, <1>5, <1>6 DEF Exact

LEMMA EmptyTypes ==
  ASSUME NEW s, s.tr = << >>, s.ki = << >>, s.hist = {}, PendingOK(s.unc), s.inc = {}, s.free \subseteq Nat \X Outer,
         s.seen = << >>
  PROVE  TypesOK(s, Len(s.seen))
<1>1. DOMAIN s.tr = {} /\ DOMAIN s.ki = {}
  OBVIOUS
<1>2. TransfersOK(s.tr, Len(s.seen))
  BY <1>1 DEF TransfersOK
<1> QED BY <1>1, <1>2 DEF TypesOK, HistOK

LEMMA FreshOK ==
  ASSUME NEW S, NEW l
  PROVE  WalletOK(Fresh, S, l)
<1> DEFINE s == Fresh
<1>1. /\ s.tr = << >> /\ s.ki = << >> /\ s.hist = {} /\ s.unc = << >> /\ s.inc = {} /\ s.free = {} /\ s.seen = << >>
      /\ ~s.revived
  BY FreshFields
<1> HIDE DEF s
<1>2. DOMAIN s.unc = {} /\ DOMAIN s.tr = {}
  BY <1>1
<1>3. PendingOK(s.unc)
  BY <1>2 DEF PendingOK
<1>4. TypesOK(s, Len(s.seen))
  BY <1>1, <1>3, EmptyTypes
<1>5. RecordsOK(s)
  BY <1>1, <1>4, EmptyExact DEF RecordsOK
<1>6. Settled(s) /\ OwnIn(s, S)
  BY <1>1, <1>2 DEF Settled, OwnIn
<1>7. WalletOK(s, S, l)
  BY <1>1, <1>5, <1>6 DEF WalletOK
<1> QED BY <1>7 DEF s

\* reset_all of a wallet in state x that was in state v before: the marks stay tight only
\* when no pending transaction spends anything that was known.
LEMMA ResetOK ==
  ASSUME NEW v, NEW x, PendingOK(x.unc), x.free \subseteq Nat \X Outer, NEW S, NEW m \in BOOLEAN,
         \A t \in Own : t \in DOMAIN x.unc => t \in S,
         ~m => Grounded(v, x) /\ DOMAIN v.ki \cap SpendsOf(DOMAIN x.unc) = {}
  PROVE  WalletOK(FullReset(x), S, m)
<1> DEFINE r == FullReset(x)
<1>1. /\ r.tr = << >> /\ r.ki = << >> /\ r.hist = {} /\ r.unc = x.unc /\ r.inc = {} /\ r.free = x.free
      /\ r.seen = << >> /\ ~r.revived
  BY FullResetFields
<1> HIDE DEF r
<1>2. TypesOK(r, Len(r.seen))
  BY <1>1, EmptyTypes
<1>3. RecordsOK(r)
  BY <1>1, <1>2, EmptyExact DEF RecordsOK
<1>4. OwnIn(r, S)
  BY <1>1 DEF OwnIn
<1>5. ASSUME ~m PROVE Settled(r)
  <2>1. \A t \in DOMAIN x.unc : Ins[t] = {} /\ x.unc[t].sel = {}
    <3> TAKE t \in DOMAIN x.unc
    <3>1. Ins[t] = {}
      BY <1>5 DEF Grounded, SpendsOf
    <3> QED BY <1>5, <3>1 DEF Grounded
  <2>2. DOMAIN r.tr = {}
    BY <1>1
  <2> QED BY <1>1, <2>1, <2>2 DEF Settled
<1>6. WalletOK(r, S, m)
  BY <1>1, <1>3, <1>4, <1>5 DEF WalletOK
<1> QED BY <1>6 DEF r

LEMMA LoosenedFacts ==
  ASSUME AuxOK, NEW s, NEW s2, s2.revived \in BOOLEAN, NEW a, a = LoosenedBy(s, s2)
  PROVE  /\ a \in [trouble : 0 .. MaxTrouble, loose : BOOLEAN]
         /\ aux.loose => a.loose
         /\ s2.revived => a.loose
         /\ ~a.loose => ~aux.loose /\ (DOMAIN s.ki \ DOMAIN s2.ki) \cap SpendsOf(DOMAIN s2.unc) = {}
<1> DEFINE l == \/ aux.loose \/ s2.revived
                \/ (DOMAIN s.ki \ DOMAIN s2.ki) \cap SpendsOf(DOMAIN s2.unc) # {}
<1>1. l \in BOOLEAN /\ a = [aux EXCEPT !.loose = l]
  BY DEF AuxOK, LoosenedBy, Pending
<1>2. (aux.loose => l) /\ (s2.revived => l) /\ (~l => ~aux.loose /\ (DOMAIN s.ki \ DOMAIN s2.ki) \cap SpendsOf(DOMAIN s2.unc) = {})
  OBVIOUS
<1> HIDE DEF l
<1>3. a \in [trouble : 0 .. MaxTrouble, loose : BOOLEAN] /\ a.loose = l
  BY <1>1 DEF AuxOK
<1> QED BY <1>2, <1>3

LEMMA GroundedShrinks ==
  ASSUME NEW v, NEW s, Grounded(v, s), NEW x, Shrunk(s, x)
  PROVE  Grounded(v, x)
BY DEF Grounded, Shrunk

LEMMA SettledGrounded ==
  ASSUME NEW s, Settled(s)
  PROVE  Grounded(s, s)
BY DEF Settled, Grounded

LEMMA TroubledFacts ==
  ASSUME AuxOK, Trouble, aux' = Troubled
  PROVE  AuxOK' /\ aux'.loose = aux.loose
<1> DEFINE k == aux.trouble + 1
<1>1. MaxTrouble \in Nat /\ aux.trouble \in 0 .. MaxTrouble /\ aux.trouble < MaxTrouble
  BY SizesAssumption DEF AuxOK, Trouble
<1>2. k \in 0 .. MaxTrouble
  BY <1>1
<1>3. aux' = [aux EXCEPT !.trouble = k]
  BY DEF Troubled
<1> HIDE DEF k
<1> QED BY <1>2, <1>3 DEF AuxOK

-----------------------------------------------------------------------------
(* The records through the steps of a refresh. *)

LEMMA ResetRecords ==
  ASSUME AuxOK, NEW x, PendingOK(x.unc), x.free \subseteq Nat \X Outer, OwnIn(x, sent),
         ~aux.loose => Grounded(w, x), ResetAndPull(x)
  PROVE  WalletOK(w', sent, aux'.loose) /\ AuxOK' /\ (aux.loose => aux'.loose)
<1> DEFINE r == FullReset(x)
<1>1. w' = r /\ aux' = LoosenedBy(w, r)
  BY DEF ResetAndPull
<1>2. r.ki = << >> /\ r.unc = x.unc /\ ~r.revived /\ r.revived \in BOOLEAN
  BY FullResetFields DEF Shape
<1> HIDE DEF r
<1>3. /\ aux' \in [trouble : 0 .. MaxTrouble, loose : BOOLEAN] /\ (aux.loose => aux'.loose)
      /\ ~aux'.loose => ~aux.loose /\ (DOMAIN w.ki \ DOMAIN r.ki) \cap SpendsOf(DOMAIN r.unc) = {}
  BY <1>1, <1>2, LoosenedFacts
<1>4. ~aux'.loose => Grounded(w, x) /\ DOMAIN w.ki \cap SpendsOf(DOMAIN x.unc) = {}
  BY <1>2, <1>3
<1>5. \A t \in Own : t \in DOMAIN x.unc => t \in sent
  BY DEF OwnIn
<1>6. aux'.loose \in BOOLEAN
  BY <1>3
<1> DEFINE m == aux'.loose
<1> HIDE DEF m
<1>7. WalletOK(FullReset(x), sent, m)
  BY <1>4, <1>5, <1>6, ResetOK DEF m
<1> QED BY <1>1, <1>3, <1>7 DEF m, r, AuxOK

\* A block is processed on top of s, which is w or w without the blocks that were detached.
LEMMA AttachRecords ==
  ASSUME AuxOK, NEW s, ChainOK(s), RecordsOK(s), OwnIn(s, sent),
         NEW b \in Blocks \ {Genesis}, b = Block, Path[Parent[b]] = s.seen, ToSet(TxsOf[b]) \cap Own \subseteq sent,
         ~aux.loose => Grounded(w, s),
         ~aux.loose /\ ~s.revived /\ (DOMAIN w.ki \ DOMAIN s.ki) \cap SpendsOf(DOMAIN s.unc) = {} => Settled(s),
         Attach(s)
  PROVE  WalletOK(w', sent, aux'.loose) /\ AuxOK' /\ (aux.loose => aux'.loose)
<1> DEFINE x == ProcessBlock(s, b, Height(b))
<1>1. IF x.resync THEN ResetAndPull(x) ELSE w' = x /\ aux' = LoosenedBy(w, s)
  BY DEF Attach
<1>2. /\ Shrunk(s, x) /\ (Settled(s) => Settled(x)) /\ x.revived = s.revived
      /\ \A e \in x.hist : e \in s.hist \/ e.tx \in ToSet(TxsOf[b])
      /\ PendingOK(x.unc) /\ x.free \subseteq Nat \X Outer
      /\ (~x.resync => RecordsOK(x))
  BY ProcessBlockRecords
<1> HIDE DEF x
<1>3. OwnIn(x, sent)
  BY <1>2 DEF OwnIn, Shrunk
<1>4. CASE x.resync
  <2>1. ~aux.loose => Grounded(w, x)
    BY <1>2, GroundedShrinks
  <2>2. ResetAndPull(x)
    BY <1>1, <1>4
  <2> QED BY <1>2, <1>3, <2>1, <2>2, ResetRecords
<1>5. CASE ~x.resync
  <2>1. w' = x /\ aux' = LoosenedBy(w, s)
    BY <1>1, <1>5
  <2>2. s.revived \in BOOLEAN
    BY DEF ChainOK, Shape
  <2>3. /\ aux' \in [trouble : 0 .. MaxTrouble, loose : BOOLEAN] /\ (aux.loose => aux'.loose)
        /\ (s.revived => aux'.loose)
        /\ ~aux'.loose => ~aux.loose /\ (DOMAIN w.ki \ DOMAIN s.ki) \cap SpendsOf(DOMAIN s.unc) = {}
    BY <2>1, <2>2, LoosenedFacts
  <2>4. ~aux'.loose => Settled(x)
    BY <1>2, <2>3
  <2> QED BY <1>2, <1>3, <1>5, <2>1, <2>3, <2>4 DEF WalletOK, AuxOK
<1> QED BY <1>4, <1>5

LEMMA BlockSent ==
  ASSUME DaemonOK, JobType, Handling
  PROVE  ToSet(TxsOf[Block]) \cap Own \subseteq sent
<1> DEFINE b == Block
           p == Path[b]
<1>1. job.resp \in Seq(Blocks) /\ job.resp # << >>
  BY DEF JobType, Handling
<1>2. b \in Blocks /\ b = job.resp[1] /\ 1 \in 1 .. Len(job.resp)
  BY <1>1 DEF Block
<1>3. TxsOn(p) \cap Own \subseteq sent
  BY <1>2 DEF DaemonOK
<1> HIDE DEF b
<1>4. CASE b = Genesis
  <2>1. ToSet(TxsOf[b]) = {}
    BY <1>4, TxsAssumption DEF ToSet
  <2> QED BY <2>1 DEF b
<1>5. CASE b # Genesis
  <2>1. p = Append(Path[Parent[b]], b) /\ Path[Parent[b]] \in Seq(Blocks)
    BY <1>2, <1>5, PathOfChild
  <2> HIDE DEF p
  <2> DEFINE q == Path[Parent[b]]
             l == Len(q)
  <2>a. p = Append(q, b) /\ q \in Seq(Blocks) /\ l \in Nat
    BY <2>1
  <2> HIDE DEF q
  <2>2. Len(p) \in 1 .. Len(p) /\ p[Len(p)] = b
    <3>1. Len(p) = l + 1 /\ p[l + 1] = b
      BY <1>2, <2>a
    <3> QED BY <2>a, <3>1
  <2>3. ToSet(TxsOf[b]) \subseteq TxsOn(p)
    BY <2>2 DEF TxsOn, TxsAt
  <2> QED BY <1>3, <2>3 DEF b
<1> QED BY <1>4, <1>5

\* The blocks of an answer that are still to be handled are among those of before.
LEMMA AnswerShrinks ==
  ASSUME JobType, DaemonOK, job'.resp = job.resp \/ job'.resp = << >> \/ (job.resp # << >> /\ job'.resp = Tail(job.resp))
  PROVE  \A i \in 1 .. Len(job'.resp) : TxsOn(Path[job'.resp[i]]) \cap Own \subseteq sent
<1> DEFINE r == job.resp
           q == job'.resp
<1>1. r \in Seq(Blocks) /\ \A i \in 1 .. Len(r) : TxsOn(Path[r[i]]) \cap Own \subseteq sent
  BY DEF JobType, DaemonOK
<1>2. q = r \/ q = << >> \/ (r # << >> /\ q = Tail(r))
  OBVIOUS
<1> HIDE DEF r, q
<1>3. \A i \in 1 .. Len(q) : \E j \in 1 .. Len(r) : q[i] = r[j]
  <2>1. CASE q = r
    BY <2>1
  <2>2. CASE q = << >>
    BY <2>2
  <2>3. CASE r # << >> /\ q = Tail(r)
    <3>1. Len(q) = Len(r) - 1 /\ Len(r) \in Nat /\ \A i \in 1 .. Len(q) : q[i] = r[i + 1]
      BY <1>1, <2>3
    <3>2. \A i \in 1 .. Len(q) : i + 1 \in 1 .. Len(r)
      BY <3>1
    <3> QED BY <3>1, <3>2
  <2> QED BY <1>2, <2>1, <2>2, <2>3
<1>4. \A i \in 1 .. Len(q) : TxsOn(Path[q[i]]) \cap Own \subseteq sent
  BY <1>1, <1>3
<1> QED BY <1>4 DEF q

LEMMA ResetJob ==
  ASSUME JobType, NEW s, ResetAndPull(s)
  PROVE  job'.resp = << >>
<1>1. CASE job' = Idle
  BY <1>1 DEF Idle
<1>2. CASE job' = [job EXCEPT !.at = "pull", !.resp = << >>, !.resets = @ + 1]
  BY <1>2 DEF JobType
<1> QED BY <1>1, <1>2 DEF ResetAndPull

LEMMA AttachJob ==
  ASSUME JobType, NEW s, Attach(s)
  PROVE  job'.resp = << >> \/ job'.resp = Tail(job.resp)
<1> DEFINE d == ProcessBlock(s, Block, Height(Block))
<1>1. CASE d.resync
  BY <1>1, ResetJob DEF Attach
<1>2. CASE ~d.resync
  <2>1. job' = [job EXCEPT !.resp = Tail(@), !.added = TRUE, !.matched = TRUE]
    BY <1>2 DEF Attach
  <2> QED BY <2>1 DEF JobType
<1> QED BY <1>1, <1>2

LEMMA AttachBlockRecords ==
  ASSUME ChainInv, RecordsInv, AttachBlock
  PROVE  RecordsInv'
<1>1. Handling /\ Attach(w) /\ Block \in Blocks \ {Genesis} /\ Path[Parent[Block]] = w.seen
  BY AttachBlockCases
<1>2. JobType /\ AuxOK /\ DaemonOK /\ ChainOK(w) /\ WalletOK(w, sent, aux.loose) /\ WalletOK(file, sent, aux.loose)
  BY DEF ChainInv, RecordsInv
<1>3. UNCHANGED << file, dtop, pool, sent >>
  BY DEF AttachBlock, daemonVars
<1>4. ToSet(TxsOf[Block]) \cap Own \subseteq sent
  BY <1>1, <1>2, BlockSent
<1>5. RecordsOK(w) /\ OwnIn(w, sent) /\ (~aux.loose => Grounded(w, w) /\ Settled(w))
  BY <1>2, SettledGrounded DEF WalletOK
<1> DEFINE b == Block
<1>6. b = Block /\ b \in Blocks \ {Genesis} /\ Path[Parent[b]] = w.seen /\ ToSet(TxsOf[b]) \cap Own \subseteq sent
  BY <1>1, <1>4
<1> HIDE DEF b
<1>7. WalletOK(w', sent, aux'.loose) /\ AuxOK' /\ (aux.loose => aux'.loose)
  BY <1>1, <1>2, <1>5, <1>6, AttachRecords
<1>8. job'.resp = << >> \/ (job.resp # << >> /\ job'.resp = Tail(job.resp))
  BY <1>1, <1>2, AttachJob DEF Handling
<1>9. DaemonOK'
  <2>1. \A i \in 1 .. Len(job'.resp) : TxsOn(Path[job'.resp[i]]) \cap Own \subseteq sent
    BY <1>2, <1>8, AnswerShrinks
  <2> QED BY <1>2, <1>3, <2>1 DEF DaemonOK
<1>10. WalletOK(file, sent, aux'.loose)
  <2>1. aux.loose \in BOOLEAN /\ aux'.loose \in BOOLEAN
    BY <1>2, <1>7 DEF AuxOK
  <2> DEFINE m == aux'.loose
  <2>2. m \in BOOLEAN /\ (aux.loose => m)
    BY <1>7, <2>1
  <2> HIDE DEF m
  <2>3. WalletOK(file, sent, m)
    BY <1>2, <2>1, <2>2, WalletGrows
  <2> QED BY <2>3 DEF m
<1> QED BY <1>3, <1>7, <1>9, <1>10 DEF RecordsInv

LEMMA ReorganizeRecords ==
  ASSUME ChainInv, RecordsInv, Reorganize
  PROVE  RecordsInv'
<1>1. /\ Handling /\ Block \in Blocks \ {Genesis}
      /\ \/ ResetAndPull(w)
         \/ \E h \in 1 .. w.ids.size :
              /\ ChainOK(DetachBlockchain(w, h)) /\ Path[Parent[Block]] = DetachBlockchain(w, h).seen
              /\ Attach(DetachBlockchain(w, h))
  BY ReorganizeCases
<1>2. JobType /\ AuxOK /\ DaemonOK /\ ChainOK(w) /\ WalletOK(w, sent, aux.loose) /\ WalletOK(file, sent, aux.loose)
  BY DEF ChainInv, RecordsInv
<1>3. UNCHANGED << file, dtop, pool, sent >>
  BY DEF Reorganize, daemonVars
<1>4. ToSet(TxsOf[Block]) \cap Own \subseteq sent
  BY <1>1, <1>2, BlockSent
<1>5. RecordsOK(w) /\ OwnIn(w, sent) /\ (w.revived => aux.loose) /\ (~aux.loose => Grounded(w, w) /\ Settled(w))
  BY <1>2, SettledGrounded DEF WalletOK
<1>6. /\ WalletOK(w', sent, aux'.loose) /\ AuxOK' /\ (aux.loose => aux'.loose)
      /\ job'.resp = << >> \/ (job.resp # << >> /\ job'.resp = Tail(job.resp))
  <2>1. CASE ResetAndPull(w)
    <3>1. PendingOK(w.unc) /\ w.free \subseteq Nat \X Outer
      BY <1>5 DEF RecordsOK, TypesOK
    <3>2. WalletOK(w', sent, aux'.loose) /\ AuxOK' /\ (aux.loose => aux'.loose)
      BY <1>2, <1>5, <2>1, <3>1, ResetRecords
    <3> QED BY <1>2, <2>1, <3>2, ResetJob
  <2>2. ASSUME NEW h \in 1 .. w.ids.size, ChainOK(DetachBlockchain(w, h)),
               Path[Parent[Block]] = DetachBlockchain(w, h).seen, Attach(DetachBlockchain(w, h))
        PROVE  /\ WalletOK(w', sent, aux'.loose) /\ AuxOK' /\ (aux.loose => aux'.loose)
               /\ job'.resp = << >> \/ (job.resp # << >> /\ job'.resp = Tail(job.resp))
    <3> DEFINE s == DetachBlockchain(w, h)
               b == Block
               n == Len(w.seen)
    <3>1. ChainOK(s) /\ Path[Parent[b]] = s.seen /\ Attach(s) /\ b = Block /\ b \in Blocks \ {Genesis}
          /\ ToSet(TxsOf[b]) \cap Own \subseteq sent /\ s = DetachBlockchain(w, h)
      BY <1>1, <1>4, <2>2
    <3>2. Shape(w) /\ n \in Nat /\ h \in 1 .. n + 1 /\ h \in Nat /\ TypesOK(w, n) /\ TransfersOK(w.tr, n)
      BY <1>2, <1>5 DEF ChainOK, Chain, IdsOK, RecordsOK, TypesOK
    <3>3. ~w.revived => Exact(w, On(w.seen))
      BY <1>5 DEF RecordsOK
    <3> HIDE DEF s, b, n
    <3>4. RecordsOK(s) /\ (w.revived => s.revived)
      BY <1>2, <1>5, <3>1, DetachRecords
    <3>5. OwnIn(s, sent)
      <4>1. DetachEffect(w, h, s)
        BY <3>1, <3>2, DetachEffects
      <4>2. \A e \in Returning(w, h) : e \in w.hist
        BY DEF Returning, Back
      <4> QED BY <1>5, <4>1, <4>2 DEF DetachEffect, OwnIn
    <3>6. ASSUME ~aux.loose
          PROVE  /\ Grounded(w, s)
                 /\ (DOMAIN w.ki \ DOMAIN s.ki) \cap SpendsOf(DOMAIN s.unc) = {} => Settled(s)
      <4>1. Settled(w) /\ Exact(w, On(w.seen))
        BY <1>5, <3>3, <3>6
      <4> QED BY <3>1, <3>2, <4>1, DetachSettled
    <3>7. WalletOK(w', sent, aux'.loose) /\ AuxOK' /\ (aux.loose => aux'.loose)
      BY <1>2, <3>1, <3>4, <3>5, <3>6, AttachRecords
    <3>8. job'.resp = << >> \/ (job.resp # << >> /\ job'.resp = Tail(job.resp))
      BY <1>1, <1>2, <3>1, AttachJob DEF Handling
    <3> QED BY <3>7, <3>8
  <2> QED BY <1>1, <2>1, <2>2
<1>7. DaemonOK'
  <2>1. \A i \in 1 .. Len(job'.resp) : TxsOn(Path[job'.resp[i]]) \cap Own \subseteq sent
    BY <1>2, <1>6, AnswerShrinks
  <2> QED BY <1>2, <1>3, <2>1 DEF DaemonOK
<1>8. WalletOK(file, sent, aux'.loose)
  <2>1. aux.loose \in BOOLEAN /\ aux'.loose \in BOOLEAN
    BY <1>2, <1>6 DEF AuxOK
  <2> DEFINE m == aux'.loose
  <2>2. m \in BOOLEAN /\ (aux.loose => m)
    BY <1>6, <2>1
  <2> HIDE DEF m
  <2>3. WalletOK(file, sent, m)
    BY <1>2, <2>1, <2>2, WalletGrows
  <2> QED BY <2>3 DEF m
<1> QED BY <1>3, <1>6, <1>7, <1>8 DEF RecordsInv

\* Steps that leave the wallet and the daemon alone.
LEMMA QuietRecords ==
  ASSUME RecordsInv, JobType, w' = w, UNCHANGED << file, dtop, pool, sent >>,
         aux' = aux \/ (Trouble /\ aux' = Troubled),
         job'.resp = job.resp \/ job'.resp = << >> \/ (job.resp # << >> /\ job'.resp = Tail(job.resp))
  PROVE  RecordsInv'
<1>1. AuxOK' /\ aux'.loose = aux.loose
  BY TroubledFacts DEF RecordsInv, AuxOK
<1>2. \A i \in 1 .. Len(job'.resp) : TxsOn(Path[job'.resp[i]]) \cap Own \subseteq sent
  BY AnswerShrinks DEF RecordsInv
<1>3. DaemonOK'
  BY <1>2 DEF RecordsInv, DaemonOK
<1> QED BY <1>1, <1>3 DEF RecordsInv

\* The blocks of an answer are on the daemon's chain.
LEMMA PullBlocksRecords ==
  ASSUME ChainInv, RecordsInv, PullBlocks
  PROVE  RecordsInv'
<1> DEFINE p == Path[dtop]
           r == job'.resp
<1>1. JobType /\ DaemonOK /\ dtop \in Blocks /\ w' = w /\ aux' = aux /\ UNCHANGED << file, dtop, pool, sent >>
  BY DEF ChainInv, RecordsInv, PullBlocks, daemonVars
<1>2. \A i \in 1 .. Len(r) : r[i] = Genesis \/ \E h \in 1 .. Len(p) : r[i] = p[h]
  BY PullBlocksChain
<1>3. Chain(p) /\ p \in Seq(Blocks) /\ Len(p) \in Nat
  <2>1. Chain(p)
    BY <1>1, PathIsChain
  <2> QED BY <2>1 DEF Chain
<1>4. TxsOn(p) \cap Own \subseteq sent
  BY <1>1 DEF DaemonOK
<1> HIDE DEF p, r
<1>5. TxsOn(Path[Genesis]) = {}
  <2> DEFINE g == Path[Genesis]
  <2>1. g = << >>
    BY PathOfGenesis
  <2> HIDE DEF g
  <2>2. TxsOn(g) = {}
    BY <2>1 DEF TxsOn
  <2> QED BY <2>2 DEF g
<1>6. \A h \in 1 .. Len(p) : TxsOn(Path[p[h]]) \cap Own \subseteq sent
  <2> TAKE h \in 1 .. Len(p)
  <2> DEFINE q == Path[p[h]]
  <2>1. q = Prefix(p, h) /\ h \in 0 .. Len(p)
    BY <1>3, ChainEntry
  <2> HIDE DEF q
  <2>2. Len(q) = h /\ \A i \in 1 .. h : q[i] = p[i]
    BY <1>3, <2>1, PrefixFacts
  <2>3. TxsOn(q) \subseteq TxsOn(p)
    BY <1>3, <2>2 DEF TxsOn, TxsAt
  <2> QED BY <1>4, <2>3 DEF q
<1>7. \A i \in 1 .. Len(r) : TxsOn(Path[r[i]]) \cap Own \subseteq sent
  BY <1>2, <1>5, <1>6
<1>8. DaemonOK'
  BY <1>1, <1>7 DEF DaemonOK, r
<1> QED BY <1>1, <1>8 DEF RecordsInv, AuxOK

\* The end of a refresh.
LEMMA FinishRefreshCases ==
  ASSUME FinishRefresh
  PROVE  /\ job' = Idle /\ UNCHANGED << file, dtop, pool, sent >>
         /\ \/ /\ w' = Finished(w)
               /\ aux' = [aux EXCEPT !.loose = @ \/ \E i \in SelectedBy(w, Outdated(w)) :
                            w.tr[i].at = 0 /\ w.tr[i].out \in SpendsOf(Pending(w) \ Outdated(w))]
            \/ /\ aux' = aux /\ \E t \in Outdated(w) : ~(w.unc[t].sel \subseteq DOMAIN w.tr)
               /\ \E T, J : w' = Interrupted(w, T, { i \in SelectedBy(w, T) \cup J : w.tr[i].at = 0 })
            \/ w' = w /\ aux' = aux
<1> DEFINE stale == { t \in Outdated(w) : ~(w.unc[t].sel \subseteq DOMAIN w.tr) }
<1>1. job' = Idle /\ UNCHANGED << file, dtop, pool, sent >>
  BY DEF FinishRefresh, daemonVars
<1>2. CASE job.fetched /\ stale = {}
  BY <1>1, <1>2 DEF FinishRefresh, Finished
<1>3. CASE job.fetched /\ stale # {}
  <2>1. aux' = aux
    BY <1>3 DEF FinishRefresh
  <2>2. \E T, J : w' = Interrupted(w, T, { i \in SelectedBy(w, T) \cup J : w.tr[i].at = 0 })
    BY <1>3 DEF FinishRefresh, Interrupted
  <2> QED BY <1>1, <1>3, <2>1, <2>2
<1>4. CASE ~job.fetched
  BY <1>1, <1>4 DEF FinishRefresh
<1> QED BY <1>2, <1>3, <1>4

LEMMA FinishRefreshRecords ==
  ASSUME ChainInv, RecordsInv, FinishRefresh
  PROVE  RecordsInv'
<1>1. /\ AuxOK /\ DaemonOK /\ JobType /\ ChainOK(w) /\ aux.loose \in BOOLEAN
      /\ WalletOK(w, sent, aux.loose) /\ WalletOK(file, sent, aux.loose)
  BY DEF ChainInv, RecordsInv, AuxOK
<1>2. job'.resp = << >> /\ UNCHANGED << file, dtop, pool, sent >>
  BY FinishRefreshCases DEF Idle
<1>3. DaemonOK'
  <2>1. \A i \in 1 .. Len(job'.resp) : TxsOn(Path[job'.resp[i]]) \cap Own \subseteq sent
    BY <1>1, <1>2, AnswerShrinks
  <2> QED BY <1>1, <1>2, <2>1 DEF DaemonOK
<1>4. RecordsOK(w) /\ OwnIn(w, sent) /\ (w.revived => aux.loose) /\ (~aux.loose => Settled(w))
  BY <1>1 DEF WalletOK
<1>5. ASSUME NEW r, RecordsOK(r), r.revived = w.revived, Shrunk(w, r), r.hist = w.hist PROVE OwnIn(r, sent)
  BY <1>4, <1>5 DEF OwnIn, Shrunk
<1>6. CASE /\ w' = Finished(w)
           /\ aux' = [aux EXCEPT !.loose = @ \/ \E i \in SelectedBy(w, Outdated(w)) :
                        w.tr[i].at = 0 /\ w.tr[i].out \in SpendsOf(Pending(w) \ Outdated(w))]
  <2> DEFINE r == Finished(w)
             shared == \E i \in SelectedBy(w, Outdated(w)) :
                         w.tr[i].at = 0 /\ w.tr[i].out \in SpendsOf(Pending(w) \ Outdated(w))
             m == aux.loose \/ shared
  <2>1. m \in BOOLEAN /\ aux' = [aux EXCEPT !.loose = m]
    BY <1>6
  <2>2. (aux.loose => m) /\ (~m => ~aux.loose /\ ~shared)
    OBVIOUS
  <2>3. RecordsOK(r) /\ r.revived = w.revived /\ Shrunk(w, r) /\ r.hist = w.hist
    BY <1>1, <1>4, FinishedRecords
  <2>4. ~m => Settled(r)
    BY <1>1, <1>4, <2>2, FinishSettled
  <2> HIDE DEF m, r, shared
  <2>5. aux'.loose = m /\ AuxOK'
    BY <1>1, <2>1 DEF AuxOK
  <2>6. OwnIn(r, sent)
    BY <1>5, <2>3
  <2>7. WalletOK(r, sent, m)
    BY <1>1, <1>4, <2>1, <2>2, <2>3, <2>4, <2>6 DEF WalletOK
  <2>8. WalletOK(file, sent, m)
    BY <1>1, <2>1, <2>2, WalletGrows
  <2>9. w' = r
    BY <1>6 DEF r
  <2> QED BY <1>2, <1>3, <2>5, <2>7, <2>8, <2>9 DEF RecordsInv
<1>7. ASSUME aux' = aux, NEW t \in Outdated(w), ~(w.unc[t].sel \subseteq DOMAIN w.tr), NEW T, NEW J,
             w' = Interrupted(w, T, { i \in SelectedBy(w, T) \cup J : w.tr[i].at = 0 })
      PROVE  RecordsInv'
  <2> DEFINE I == { i \in SelectedBy(w, T) \cup J : w.tr[i].at = 0 }
             r == Interrupted(w, T, I)
  <2>1. aux.loose
    <3> SUFFICES ASSUME ~aux.loose PROVE FALSE
      BY <1>1
    <3>1. t \in DOMAIN w.unc
      BY <1>7 DEF Outdated, Pending
    <3> QED BY <1>4, <1>7, <3>1 DEF Settled
  <2>2. \A i \in I : w.tr[i].at = 0
    OBVIOUS
  <2>3. w' = r
    BY <1>7
  <2> HIDE DEF I
  <2>4. RecordsOK(r) /\ r.revived = w.revived /\ Shrunk(w, r) /\ r.hist = w.hist
    BY <1>1, <1>4, <2>2, InterruptedRecords
  <2> HIDE DEF r
  <2>5. WalletOK(r, sent, aux.loose)
    BY <1>5, <2>1, <2>4 DEF WalletOK
  <2> QED BY <1>1, <1>2, <1>3, <1>7, <2>3, <2>5 DEF RecordsInv, AuxOK
<1>8. CASE w' = w /\ aux' = aux
  BY <1>1, <1>2, <1>3, <1>8 DEF RecordsInv, AuxOK
<1> QED BY <1>6, <1>7, <1>8, FinishRefreshCases

\* handle_unconfirmed_tx of transactions in a pool or just sent, for a wallet in state s;
\* before the call every mark is explained by what is pending after it.
LEMMA HandleOK ==
  ASSUME NEW s, ChainOK(s), TypesOK(s, Len(s.seen)), NEW found, found \subseteq Txs \ Coinbase,
         NEW x, x = HandleUnconfirmed(s, found),
         ~s.revived => Valid(On(s.seen)) /\ Tracks(s, On(s.seen)) /\ Recorded(s, On(s.seen)),
         ~x.revived => \A i \in DOMAIN s.tr : s.tr[i].spent /\ s.tr[i].at = 0 =>
                         s.tr[i].out \in Reserving(x.unc) \cup x.due,
         NEW S, OwnIn(s, S), found \cap Own \subseteq S, NEW m, x.revived => m,
         ~m => Settled(s) /\ \A t \in NewPending(s, found) : Ins[t] \subseteq DOMAIN s.ki
  PROVE  WalletOK(x, S, m) /\ x.seen = s.seen
<1> DEFINE n == Len(s.seen)
           G == On(s.seen)
<1>1. Shape(s) /\ TypesOK(s, n) /\ TransfersOK(s.tr, n)
  BY DEF ChainOK, TypesOK
<1>2. ~s.revived => Valid(G) /\ Tracks(s, G) /\ Recorded(s, G)
  OBVIOUS
<1>3. x.seen = s.seen /\ x.hist = s.hist /\ x.revived = HuRevived(s, found)
  BY <1>1, HandleFields
<1>4. x.revived \/ ~s.revived
  BY <1>3 DEF HuRevived
<1> HIDE DEF n, G
<1>5. TypesOK(x, n)
  BY <1>1, HandleTypes
<1>6. ASSUME ~x.revived PROVE Exact(x, G)
  <2>1. Valid(G) /\ Tracks(s, G) /\ Recorded(s, G)
    BY <1>2, <1>4, <1>6
  <2> QED BY <1>1, <1>6, <2>1, HandleExact
<1>7. HandleEffect(s, found, x)
  BY <1>1, HandleEffects
<1>8. OwnIn(x, S)
  <2>1. NewPending(s, found) \subseteq found
    BY DEF NewPending
  <2> QED BY <1>3, <1>7, <2>1 DEF OwnIn, HandleEffect
<1>9. ASSUME ~m PROVE Settled(x)
  <2>1. ~x.revived /\ Tracks(s, G)
    BY <1>2, <1>4, <1>9
  <2> QED BY <1>1, <1>9, <2>1, HandleSettled
<1>10. RecordsOK(x)
  BY <1>3, <1>5, <1>6 DEF RecordsOK, n, G
<1> QED BY <1>3, <1>8, <1>9, <1>10 DEF WalletOK

LEMMA ReservingGrows ==
  ASSUME NEW unc, NEW unc2, DOMAIN unc \subseteq DOMAIN unc2, \A t \in DOMAIN unc : unc2[t] = unc[t]
  PROVE  Reserving(unc) \subseteq Reserving(unc2)
BY DEF Reserving

LEMMA ScanTxPoolRecords ==
  ASSUME ChainInv, RecordsInv, ScanTxPool
  PROVE  RecordsInv'
<1>1. /\ AuxOK /\ DaemonOK /\ ChainOK(w) /\ aux.loose \in BOOLEAN
      /\ WalletOK(w, sent, aux.loose) /\ WalletOK(file, sent, aux.loose)
  BY DEF ChainInv, RecordsInv, AuxOK
<1>2. RecordsOK(w) /\ OwnIn(w, sent) /\ (w.revived => aux.loose) /\ (~aux.loose => Settled(w))
  BY <1>1 DEF WalletOK
<1>3. UNCHANGED << job, file, dtop, pool, sent >>
  BY DEF ScanTxPool, daemonVars
<1> DEFINE seen == w.inc \cap pool
<1>4. PICK T \in SUBSET pool :
        /\ w' = HandleUnconfirmed([w EXCEPT !.inc = seen \cap T], T \ seen)
        /\ aux' = [aux EXCEPT !.loose = @ \/ w'.revived \/
                     \E t \in Pending(w') \ Pending(w) : ~(Ins[t] \subseteq DOMAIN w.ki)]
  BY DEF ScanTxPool
<1> DEFINE i == seen \cap T
           found == T \ seen
           s == [w EXCEPT !.inc = i]
           x == HandleUnconfirmed(s, found)
           fresh == \E t \in Pending(x) \ Pending(w) : ~(Ins[t] \subseteq DOMAIN w.ki)
           m == aux.loose \/ x.revived \/ fresh
<1>5. w' = x
  BY <1>4
<1>6. found \subseteq Txs \ Coinbase /\ i \subseteq Txs /\ found \cap Own \subseteq sent
  BY <1>1, <1>4 DEF DaemonOK
<1> HIDE DEF i, found
<1>7. Shape(s) /\ s.ids = w.ids /\ s.seen = w.seen /\ s.resync = w.resync /\ s.revived = w.revived
      /\ SameRecords(w, s) /\ s.inc = i /\ s.free = w.free
  BY <1>1 DEF ChainOK, Shape, SameRecords
<1> HIDE DEF s
<1>8. ChainOK(s)
  BY <1>1, <1>7, SameChain
<1>9. TypesOK(s, Len(s.seen))
  BY <1>2, <1>6, <1>7 DEF RecordsOK, TypesOK, SameRecords
<1>10. (~s.revived => Exact(s, On(s.seen))) /\ (Settled(w) => Settled(s))
  BY <1>2, <1>7, SameExact DEF RecordsOK
<1>11. s.unc = w.unc /\ s.hist = w.hist /\ s.ki = w.ki /\ s.tr = w.tr /\ s.due = w.due
  BY <1>7 DEF SameRecords
<1>12. OwnIn(s, sent)
  BY <1>2, <1>11 DEF OwnIn
<1>13. HandleEffect(s, found, x)
  BY <1>7, <1>9, HandleEffects DEF TypesOK
<1>14. Shape(x) /\ x.revived \in BOOLEAN /\ (s.revived => x.revived)
  <2>1. Shape(x) /\ x.revived = HuRevived(s, found)
    BY <1>7, HandleFields
  <2> HIDE DEF x
  <2> QED BY <2>1 DEF HuRevived, Shape
<1> HIDE DEF x
<1>15. m \in BOOLEAN /\ (aux.loose => m) /\ (x.revived => m) /\ (~m => ~aux.loose /\ ~fresh)
  BY <1>1, <1>14
<1>16. aux' = [aux EXCEPT !.loose = m]
  BY <1>4, <1>5
<1>17. ASSUME ~m PROVE Settled(s) /\ \A t \in NewPending(s, found) : Ins[t] \subseteq DOMAIN s.ki
  <2>1. \A t \in NewPending(s, found) : t \in Pending(x) \ Pending(w)
    BY <1>11, <1>13 DEF HandleEffect, NewPending, Pending
  <2> QED BY <1>2, <1>10, <1>11, <1>15, <1>17, <2>1
<1>18. ASSUME ~x.revived, NEW j \in DOMAIN s.tr, s.tr[j].spent, s.tr[j].at = 0
       PROVE  s.tr[j].out \in Reserving(x.unc) \cup x.due
  <2>1. s.tr[j].out \in Reserving(s.unc) \cup s.due
    BY <1>10, <1>14, <1>18 DEF Exact, Explained
  <2>2. Reserving(s.unc) \subseteq Reserving(x.unc) /\ x.due = s.due
    BY <1>13, ReservingGrows DEF HandleEffect
  <2> QED BY <2>1, <2>2
<1> HIDE DEF m, fresh
<1>19. WalletOK(x, sent, m)
  <2>1. x = HandleUnconfirmed(s, found)
    BY DEF x
  <2>2. ~s.revived => Valid(On(s.seen)) /\ Tracks(s, On(s.seen)) /\ Recorded(s, On(s.seen))
    BY <1>10 DEF Exact
  <2> QED BY <1>6, <1>8, <1>9, <1>12, <1>15, <1>17, <1>18, <2>1, <2>2, HandleOK
<1>20. aux'.loose = m /\ AuxOK'
  BY <1>1, <1>15, <1>16 DEF AuxOK
<1>21. WalletOK(file, sent, m)
  BY <1>1, <1>15, WalletGrows
<1>22. DaemonOK'
  BY <1>1, <1>3 DEF DaemonOK
<1> QED BY <1>3, <1>5, <1>19, <1>20, <1>21, <1>22 DEF RecordsInv

-----------------------------------------------------------------------------
(* The other calls. *)

LEMMA FreeCleared ==
  ASSUME NEW s, ChainOK(s), NEW r, r = [s EXCEPT !.free = {}], NEW S, NEW m, WalletOK(s, S, m)
  PROVE  WalletOK(r, S, m)
<1>1. /\ r.free = {} /\ r.inc = s.inc /\ r.seen = s.seen /\ r.revived = s.revived /\ SameRecords(s, r)
  BY DEF ChainOK, Shape, SameRecords
<1>2. RecordsOK(s) /\ OwnIn(s, S) /\ (s.revived => m) /\ (~m => Settled(s))
  BY DEF WalletOK
<1>3. TypesOK(r, Len(r.seen))
  BY <1>1, <1>2 DEF RecordsOK, TypesOK, SameRecords
<1>4. RecordsOK(r) /\ (Settled(s) => Settled(r))
  BY <1>1, <1>2, <1>3, SameExact DEF RecordsOK
<1>5. OwnIn(r, S)
  BY <1>1, <1>2 DEF OwnIn, SameRecords
<1> QED BY <1>1, <1>2, <1>4, <1>5 DEF WalletOK

\* What a pending transaction selected, or its age, changes.
LEMMA RepackedOK ==
  ASSUME NEW s, ChainOK(s), NEW u, NEW r, r = [s EXCEPT !.unc = u], NEW S, NEW m, WalletOK(s, S, m),
         PendingOK(u), DOMAIN u = DOMAIN s.unc, \A t \in DOMAIN u : u[t].outgoing = s.unc[t].outgoing,
         ~m => \A t \in DOMAIN u : \A i \in u[t].sel : i \in DOMAIN s.tr /\ s.tr[i].out \in Ins[t]
  PROVE  WalletOK(r, S, m)
<1>1. /\ r.unc = u /\ r.tr = s.tr /\ r.ki = s.ki /\ r.hist = s.hist /\ r.due = s.due /\ r.free = s.free
      /\ r.inc = s.inc /\ r.seen = s.seen /\ r.revived = s.revived
  BY DEF ChainOK, Shape
<1>2. RecordsOK(s) /\ OwnIn(s, S) /\ (s.revived => m) /\ (~m => Settled(s))
  BY DEF WalletOK
<1>3. TypesOK(r, Len(r.seen))
  BY <1>1, <1>2 DEF RecordsOK, TypesOK
<1>4. Reserving(r.unc) = Reserving(s.unc)
  BY <1>1 DEF Reserving
<1>5. ASSUME NEW G, Exact(s, G) PROVE Exact(r, G)
  <2>1. Tracks(r, G)
    BY <1>1, <1>5 DEF Exact, Tracks, Forgotten, Outputs
  <2>2. Recorded(r, G)
    BY <1>1, <1>5 DEF Exact, Recorded
  <2>3. Explained(r)
    BY <1>1, <1>4, <1>5 DEF Exact, Explained
  <2> QED BY <1>5, <2>1, <2>2, <2>3 DEF Exact
<1>6. RecordsOK(r)
  BY <1>1, <1>2, <1>3, <1>5 DEF RecordsOK
<1>7. OwnIn(r, S)
  BY <1>1, <1>2 DEF OwnIn
<1>8. ASSUME ~m PROVE Settled(r)
  <2>1. \A t \in DOMAIN r.unc : Ins[t] \subseteq DOMAIN r.ki /\ (Ins[t] # {} => r.unc[t].outgoing)
    BY <1>1, <1>2, <1>8 DEF Settled
  <2>2. \A i \in DOMAIN r.tr : \A t \in DOMAIN r.unc : r.tr[i].out \in Ins[t] => r.tr[i].spent
    BY <1>1, <1>2, <1>8 DEF Settled
  <2>3. \A t \in DOMAIN r.unc : \A i \in r.unc[t].sel : i \in DOMAIN r.tr /\ r.tr[i].out \in Ins[t]
    BY <1>1, <1>8
  <2> QED BY <2>1, <2>2, <2>3 DEF Settled
<1> QED BY <1>1, <1>2, <1>6, <1>7, <1>8 DEF WalletOK

\* u is unc with another selection of t.
Repacked(unc, u, t, sel) ==
  /\ DOMAIN u = DOMAIN unc
  /\ \A v \in DOMAIN u : u[v].outgoing = unc[v].outgoing /\ u[v].sel = IF v = t THEN sel ELSE unc[v].sel
LEMMA PendingSelects ==
  ASSUME NEW unc, PendingOK(unc), NEW t, NEW sel, NEW u, u = [unc EXCEPT ![t].sel = sel]
  PROVE  PendingOK(u) /\ Repacked(unc, u, t, sel)
<1>1. DOMAIN u = DOMAIN unc /\ \A v \in DOMAIN unc : u[v] = IF v = t THEN [unc[v] EXCEPT !.sel = sel] ELSE unc[v]
  OBVIOUS
<1>2. ASSUME NEW v \in DOMAIN unc
      PROVE  /\ u[v] \in [sel : {u[v].sel}, old : BOOLEAN, outgoing : BOOLEAN]
             /\ u[v].outgoing = unc[v].outgoing /\ u[v].sel = IF v = t THEN sel ELSE unc[v].sel
  <2> DEFINE x == unc[v]
             y == u[v]
  <2>1. x \in [sel : {x.sel}, old : BOOLEAN, outgoing : BOOLEAN] /\ y = IF v = t THEN [x EXCEPT !.sel = sel] ELSE x
    BY <1>1 DEF PendingOK, Repacked
  <2> HIDE DEF x, y
  <2>2. CASE v = t
    BY <2>1, <2>2 DEF x, y
  <2>3. CASE v # t
    BY <2>1, <2>3 DEF x, y
  <2> QED BY <2>2, <2>3
<1> QED BY <1>1, <1>2 DEF PendingOK, Repacked

Aged(unc, u) ==
  DOMAIN u = DOMAIN unc /\ \A v \in DOMAIN u : u[v].outgoing = unc[v].outgoing /\ u[v].sel = unc[v].sel
LEMMA PendingAges ==
  ASSUME NEW unc, PendingOK(unc), NEW t, NEW u, u = [unc EXCEPT ![t].old = TRUE]
  PROVE  PendingOK(u) /\ Aged(unc, u)
<1>1. DOMAIN u = DOMAIN unc /\ \A v \in DOMAIN unc : u[v] = IF v = t THEN [unc[v] EXCEPT !.old = TRUE] ELSE unc[v]
  OBVIOUS
<1>2. ASSUME NEW v \in DOMAIN unc
      PROVE  /\ u[v] \in [sel : {u[v].sel}, old : BOOLEAN, outgoing : BOOLEAN]
             /\ u[v].outgoing = unc[v].outgoing /\ u[v].sel = unc[v].sel
  <2> DEFINE x == unc[v]
             y == u[v]
  <2>1. x \in [sel : {x.sel}, old : BOOLEAN, outgoing : BOOLEAN] /\ y = IF v = t THEN [x EXCEPT !.old = TRUE] ELSE x
    BY <1>1 DEF PendingOK
  <2> HIDE DEF x, y
  <2>2. CASE v = t
    BY <2>1, <2>2 DEF x, y
  <2>3. CASE v # t
    BY <2>1, <2>3 DEF x, y
  <2> QED BY <2>2, <2>3
<1> QED BY <1>1, <1>2 DEF PendingOK, Aged

LEMMA OutdateRecords ==
  ASSUME ChainInv, RecordsInv, NEW t \in Txs, Outdate(t)
  PROVE  RecordsInv'
<1>1. /\ AuxOK /\ DaemonOK /\ ChainOK(w) /\ WalletOK(w, sent, aux.loose) /\ WalletOK(file, sent, aux.loose)
  BY DEF ChainInv, RecordsInv
<1>2. UNCHANGED << job, file, dtop, pool, sent, aux >>
  BY DEF Outdate, daemonVars
<1> DEFINE u == [w.unc EXCEPT ![t].old = TRUE]
           r == [w EXCEPT !.unc = u]
<1>3. w' = r
  BY DEF Outdate
<1>4. PendingOK(w.unc)
  BY <1>1 DEF WalletOK, RecordsOK, TypesOK
<1>5. /\ PendingOK(u) /\ DOMAIN u = DOMAIN w.unc
      /\ \A v \in DOMAIN u : u[v].outgoing = w.unc[v].outgoing /\ u[v].sel = w.unc[v].sel
  <2>1. u = [w.unc EXCEPT ![t].old = TRUE]
    OBVIOUS
  <2> HIDE DEF u
  <2>2. PendingOK(u) /\ Aged(w.unc, u)
    BY <1>4, <2>1, PendingAges
  <2> QED BY <2>2 DEF Aged
<1>6. ~aux.loose => \A v \in DOMAIN u : \A i \in u[v].sel : i \in DOMAIN w.tr /\ w.tr[i].out \in Ins[v]
  BY <1>1, <1>5 DEF WalletOK, Settled
<1> HIDE DEF u
<1>7. WalletOK(r, sent, aux.loose)
  BY <1>1, <1>5, <1>6, RepackedOK
<1> HIDE DEF r
<1>8. DaemonOK'
  BY <1>1, <1>2 DEF DaemonOK
<1> QED BY <1>1, <1>2, <1>3, <1>7, <1>8 DEF RecordsInv, AuxOK

\* The entries a transfer takes from the cache are transfers, and their outputs are what
\* the transaction spends.
Pays(P, t) ==
  /\ P \subseteq FreeCache /\ \A e \in P : e[1] \in DOMAIN w.tr
  /\ { e[2] : e \in Picked(P) } = Ins[t] /\ \A e \in Picked(P) : w.tr[e[1]].out = e[2]

Outcome(P, t) ==
  \/ w' = [HandleUnconfirmed(Paying(P), {t}) EXCEPT !.unc[t].sel = Indices(P)] /\ aux' = aux
  \/ Trouble /\ aux' = Troubled /\ w' = [w EXCEPT !.free = {}]

LEMMA PaysCases ==
  ASSUME NEW t, Transfer(t)
  PROVE  \E P : Pays(P, t) /\ Outcome(P, t)
<1>1. PICK P \in SUBSET FreeCache :
        /\ \A e \in P : e[1] \in DOMAIN w.tr
        /\ { e[2] : e \in Picked(P) } = Ins[t] /\ \A e \in Picked(P) : w.tr[e[1]].out = e[2]
        /\ \/ w' = [HandleUnconfirmed(Paying(P), {t}) EXCEPT !.unc[t].sel = Indices(P)] /\ aux' = aux
           \/ Trouble /\ aux' = Troubled /\ w' = [w EXCEPT !.free = {}]
  BY TransferCases
<1>2. Pays(P, t)
  BY <1>1 DEF Pays
<1>3. Outcome(P, t)
  BY <1>1 DEF Outcome
<1> QED BY <1>2, <1>3

\* The wallet with the outputs marked.
Paid(P, t, s) ==
  /\ DOMAIN s.tr = DOMAIN w.tr
  /\ s.seen = w.seen /\ s.ki = w.ki /\ s.hist = w.hist /\ s.unc = w.unc /\ s.due = w.due /\ s.revived = w.revived
  /\ \A i \in DOMAIN w.tr : /\ s.tr[i].out = w.tr[i].out /\ s.tr[i].at = w.tr[i].at
                            /\ s.tr[i].spent = IF i \in Indices(P) THEN TRUE ELSE w.tr[i].spent
  /\ \A i \in Indices(P) : i \in DOMAIN s.tr /\ s.tr[i].out \in Ins[t]
  /\ \A o \in Ins[t] : \E i \in Indices(P) : s.tr[i].out = o

LEMMA PayingFacts ==
  ASSUME ChainOK(w), NEW S, NEW m, WalletOK(w, S, m), NEW P, NEW t, Pays(P, t), NEW s, s = Paying(P)
  PROVE  ChainOK(s) /\ TypesOK(s, Len(s.seen)) /\ Remarked(w, s) /\ Paid(P, t, s)
<1> DEFINE a == Marked(w.tr, Indices(P), TRUE)
           f == FreeCache \ P
           n == Len(w.seen)
<1>1. s = [w EXCEPT !.tr = a, !.free = f]
  BY DEF Paying
<1>2. Shape(w) /\ TypesOK(w, n) /\ TransfersOK(w.tr, n)
  BY DEF ChainOK, WalletOK, RecordsOK, TypesOK
<1>3. \A i \in Indices(P) : \E e \in Picked(P) : i = e[1]
  BY DEF Indices
<1>4. \A e \in Picked(P) : e[1] \in Indices(P)
  BY DEF Indices
<1>5. f \subseteq Nat \X Outer
  <2>1. FreeCache \subseteq Nat \X Outer
    <3>1. CASE w.free # {}
      BY <1>2, <3>1 DEF FreeCache, TypesOK
    <3>2. CASE w.free = {}
      <4>1. \A i \in DOMAIN w.tr : i \in Nat /\ w.tr[i].out \in Outer
        BY <1>2 DEF TransfersOK
      <4> QED BY <3>2, <4>1 DEF FreeCache
    <3> QED BY <3>1, <3>2
  <2> QED BY <2>1
<1> HIDE DEF a, f, n
<1>6. /\ DOMAIN a = DOMAIN w.tr /\ TransfersOK(a, n)
      /\ \A i \in DOMAIN w.tr : /\ a[i].spent = (IF i \in Indices(P) THEN TRUE ELSE w.tr[i].spent) /\ a[i].spent \in BOOLEAN
                                /\ a[i] = [w.tr[i] EXCEPT !.spent = a[i].spent]
                                /\ a[i].out = w.tr[i].out /\ a[i].at = w.tr[i].at
  <2>1. TransfersOK(a, n) /\ MarkedBy(w.tr, a, Indices(P), TRUE)
    BY <1>2, MarkedFacts DEF a
  <2> QED BY <2>1 DEF MarkedBy
<1>7. /\ Shape(s) /\ s.tr = a /\ s.free = f /\ s.seen = w.seen /\ s.ki = w.ki /\ s.hist = w.hist /\ s.unc = w.unc
      /\ s.due = w.due /\ s.revived = w.revived /\ s.inc = w.inc /\ s.ids = w.ids /\ s.resync = w.resync
  BY <1>1, <1>2 DEF Shape
<1>8. ChainOK(s)
  BY <1>7, SameChain
<1>9. TypesOK(s, Len(s.seen))
  BY <1>2, <1>5, <1>6, <1>7 DEF TypesOK, n
<1>10. Remarked(w, s)
  BY <1>6, <1>7 DEF Remarked
<1>11. \A e \in Picked(P) : e[1] \in DOMAIN w.tr /\ w.tr[e[1]].out = e[2] /\ e[2] \in Ins[t]
  BY DEF Pays, Picked
<1>12. \A i \in DOMAIN w.tr : i \in DOMAIN s.tr /\ s.tr[i].out = w.tr[i].out
  BY <1>6, <1>7
<1>13. \A i \in Indices(P) : i \in DOMAIN s.tr /\ s.tr[i].out \in Ins[t]
  <2> TAKE i \in Indices(P)
  <2>1. PICK e \in Picked(P) : i = e[1]
    BY <1>3
  <2>2. i \in DOMAIN w.tr /\ w.tr[i].out \in Ins[t]
    BY <1>11, <2>1
  <2> QED BY <1>12, <2>2
<1>14. \A o \in Ins[t] : \E i \in Indices(P) : s.tr[i].out = o
  <2> TAKE o \in Ins[t]
  <2>1. PICK e \in Picked(P) : e[2] = o
    BY DEF Pays
  <2> DEFINE i == e[1]
  <2>2. i \in Indices(P) /\ i \in DOMAIN w.tr /\ w.tr[i].out = o
    BY <1>4, <1>11, <2>1
  <2> HIDE DEF i
  <2>3. s.tr[i].out = o
    BY <1>12, <2>2
  <2> QED BY <2>2, <2>3
<1>15. Paid(P, t, s)
  BY <1>6, <1>7, <1>13, <1>14 DEF Paid
<1> QED BY <1>8, <1>9, <1>10, <1>15

SpentBy(x, I, t) == \A i \in I : i \in DOMAIN x.tr /\ x.tr[i].out \in Ins[t]

\* The outputs are marked, the transaction is sent and becomes pending.
LEMMA SentOK ==
  ASSUME ChainOK(w), NEW S, NEW m \in BOOLEAN, WalletOK(w, S, m), NEW t \in Own \ S, NEW P, Pays(P, t),
         NEW s, s = Paying(P), NEW x, x = HandleUnconfirmed(s, {t})
  PROVE  /\ WalletOK(x, S \cup {t}, m) /\ ChainOK(x)
         /\ SpentBy(x, Indices(P), t)
<1> DEFINE n == Len(w.seen)
           G == On(w.seen)
           I == Indices(P)
<1>1. RecordsOK(w) /\ OwnIn(w, S) /\ (w.revived => m) /\ (~m => Settled(w))
  BY DEF WalletOK
<1>2. /\ ChainOK(s) /\ TypesOK(s, Len(s.seen)) /\ Remarked(w, s) /\ DOMAIN s.tr = DOMAIN w.tr
      /\ s.seen = w.seen /\ s.ki = w.ki /\ s.hist = w.hist /\ s.unc = w.unc /\ s.due = w.due /\ s.revived = w.revived
      /\ \A i \in DOMAIN w.tr : /\ s.tr[i].out = w.tr[i].out /\ s.tr[i].at = w.tr[i].at
                                /\ s.tr[i].spent = IF i \in I THEN TRUE ELSE w.tr[i].spent
      /\ \A i \in I : i \in DOMAIN s.tr /\ s.tr[i].out \in Ins[t]
      /\ \A o \in Ins[t] : \E i \in I : s.tr[i].out = o
  <2>1. ChainOK(s) /\ TypesOK(s, Len(s.seen)) /\ Remarked(w, s) /\ Paid(P, t, s)
    BY PayingFacts
  <2> QED BY <2>1 DEF Paid
<1>3. ChainOK(x)
  BY <1>2, HandleChain
<1>4. t \notin DOMAIN s.unc /\ t \notin { e.tx : e \in s.hist }
  BY <1>1, <1>2 DEF OwnIn
<1>5. \A u : u \in NewPending(s, {t}) <=> u = t /\ Touches(s, t)
  BY <1>4 DEF NewPending, Pending
<1>6. Ins[t] \subseteq Outputs(s) /\ Ins[t] \cap Forgotten(s) = {}
  BY <1>2 DEF Outputs, Forgotten
<1>7. x.revived = s.revived
  <2>1. x.revived = HuRevived(s, {t}) /\ s.revived \in BOOLEAN
    BY <1>2, HandleFields DEF ChainOK, Shape
  <2> QED BY <1>5, <1>6, <2>1 DEF HuRevived
<1>8. TransfersOK(w.tr, n) /\ TransfersOK(s.tr, Len(s.seen)) /\ Shape(s)
  BY <1>1, <1>2 DEF RecordsOK, TypesOK, ChainOK
<1>9. HandleEffect(s, {t}, x)
  BY <1>8, HandleEffects
<1>10. ASSUME ~w.revived PROVE Valid(G) /\ Tracks(s, G) /\ Recorded(s, G) /\ Ins[t] \subseteq DOMAIN s.ki
  <2>1. Exact(w, G)
    BY <1>1, <1>10 DEF RecordsOK
  <2>2. Tracks(s, G)
    <3>1. KeepsTracks(w, s)
      BY <1>2, <1>8, RemarkedFacts
    <3> QED BY <2>1, <3>1 DEF KeepsTracks, Exact
  <2>3. Recorded(s, G)
    <3> HIDE DEF n, G
    <3>1. \A u \in DOMAIN s.unc : u \in DOMAIN w.unc
      BY <1>2
    <3> QED BY <1>2, <1>8, <2>1, <3>1, RemarkedRecorded DEF Exact
  <2>4. Ins[t] \subseteq DOMAIN s.ki
    BY <1>6, <2>2, OutputsFacts
  <2> QED BY <2>1, <2>2, <2>3, <2>4 DEF Exact
<1>11. ASSUME ~x.revived, NEW i \in DOMAIN s.tr, s.tr[i].spent, s.tr[i].at = 0
       PROVE  s.tr[i].out \in Reserving(x.unc) \cup x.due
  <2>1. CASE i \in I
    <3>1. s.tr[i].out \in Ins[t] /\ s.tr[i].out \in DOMAIN s.ki
      BY <1>2, <1>7, <1>10, <1>11, <2>1
    <3>2. s.tr[i].out \in Known(s, t)
      BY <3>1 DEF Known
    <3>3. Touches(s, t) /\ Selected(s, t) # {}
      BY <3>2 DEF Touches, Selected
    <3> DEFINE g == Selected(s, t) # {}
               c == Selected(s, t)
    <3>4. t \in DOMAIN x.unc /\ x.unc[t] = [sel |-> c, old |-> FALSE, outgoing |-> g] /\ g
      BY <1>5, <1>9, <3>3 DEF HandleEffect
    <3> HIDE DEF g, c
    <3>5. x.unc[t].outgoing
      BY <3>4
    <3> QED BY <3>1, <3>4, <3>5 DEF Reserving
  <2>2. CASE i \notin I
    <3>1. i \in DOMAIN w.tr /\ w.tr[i].spent /\ w.tr[i].at = 0 /\ w.tr[i].out = s.tr[i].out
      BY <1>2, <1>11, <2>2
    <3>2. w.tr[i].out \in Reserving(w.unc) \cup w.due
      BY <1>1, <1>2, <1>7, <1>11, <3>1 DEF RecordsOK, Exact, Explained
    <3>3. Reserving(s.unc) \subseteq Reserving(x.unc) /\ x.due = s.due
      BY <1>9, ReservingGrows DEF HandleEffect
    <3> QED BY <1>2, <3>1, <3>2, <3>3
  <2> QED BY <2>1, <2>2
<1>12. OwnIn(s, S \cup {t})
  BY <1>1, <1>2 DEF OwnIn
<1>13. {t} \subseteq Txs \ Coinbase /\ {t} \cap Own \subseteq S \cup {t}
  BY TxsAssumption
<1>14. ASSUME ~m PROVE Settled(s) /\ \A u \in NewPending(s, {t}) : Ins[u] \subseteq DOMAIN s.ki
  <2>1. Settled(w) /\ ~w.revived
    BY <1>1, <1>14
  <2>2. \A u \in DOMAIN s.unc : Ins[u] \subseteq DOMAIN s.ki /\ (Ins[u] # {} => s.unc[u].outgoing)
    BY <1>2, <2>1 DEF Settled
  <2>3. \A i \in DOMAIN s.tr : \A u \in DOMAIN s.unc : s.tr[i].out \in Ins[u] => s.tr[i].spent
    BY <1>2, <2>1 DEF Settled
  <2>4. \A u \in DOMAIN s.unc : \A i \in s.unc[u].sel : i \in DOMAIN s.tr /\ s.tr[i].out \in Ins[u]
    BY <1>2, <2>1 DEF Settled
  <2>5. \A u \in NewPending(s, {t}) : Ins[u] \subseteq DOMAIN s.ki
    BY <1>5, <1>10, <2>1
  <2> QED BY <2>2, <2>3, <2>4, <2>5 DEF Settled
<1>15. ~s.revived => Valid(On(s.seen)) /\ Tracks(s, On(s.seen)) /\ Recorded(s, On(s.seen))
  BY <1>2, <1>10
<1> DEFINE S2 == S \cup {t}
           found == {t}
<1>16. OwnIn(s, S2) /\ found \subseteq Txs \ Coinbase /\ found \cap Own \subseteq S2 /\ x = HandleUnconfirmed(s, found)
       /\ (x.revived => m) /\ (~m => Settled(s) /\ \A u \in NewPending(s, found) : Ins[u] \subseteq DOMAIN s.ki)
  BY <1>1, <1>2, <1>7, <1>12, <1>13, <1>14
<1> HIDE DEF S2, found
<1>17. WalletOK(x, S2, m)
  BY <1>2, <1>11, <1>15, <1>16, HandleOK
<1>18. SpentBy(x, I, t)
  <2>1. DOMAIN x.tr = DOMAIN s.tr /\ \A i \in DOMAIN x.tr : x.tr[i].out = s.tr[i].out
    <3>1. Remarked(s, x) /\ DOMAIN x.tr = DOMAIN s.tr
      BY <1>9 DEF HandleEffect
    <3>2. SameEntries(s.tr, x.tr)
      BY <1>8, <3>1, RemarkedFacts
    <3> QED BY <3>1, <3>2 DEF SameEntries
  <2> QED BY <1>2, <2>1 DEF SpentBy
<1> QED BY <1>3, <1>17, <1>18 DEF S2

LEMMA TransferRecords ==
  ASSUME ChainInv, RecordsInv, NEW t \in Txs, Transfer(t)
  PROVE  RecordsInv'
<1>1. /\ AuxOK /\ DaemonOK /\ ChainOK(w) /\ aux.loose \in BOOLEAN
      /\ WalletOK(w, sent, aux.loose) /\ WalletOK(file, sent, aux.loose)
  BY DEF ChainInv, RecordsInv, AuxOK
<1>2. t \in Own \ sent /\ pool' = pool \cup {t} /\ sent' = sent \cup {t} /\ UNCHANGED << job, file, dtop >>
  BY TransferCases
<1>3. PICK P : /\ Pays(P, t)
               /\ \/ w' = [HandleUnconfirmed(Paying(P), {t}) EXCEPT !.unc[t].sel = Indices(P)] /\ aux' = aux
                  \/ Trouble /\ aux' = Troubled /\ w' = [w EXCEPT !.free = {}]
  BY PaysCases DEF Outcome
<1>4. t \in Txs \ Coinbase
  BY <1>2, TxsAssumption
<1>5. DaemonOK'
  BY <1>1, <1>2, <1>4 DEF DaemonOK
<1>6. AuxOK' /\ aux'.loose = aux.loose
  BY <1>1, <1>3, TroubledFacts DEF AuxOK
<1> DEFINE m == aux.loose
           S == sent
           S2 == sent \cup {t}
<1>7. m \in BOOLEAN /\ WalletOK(w, S, m) /\ WalletOK(file, S, m) /\ t \in Own \ S /\ S2 = S \cup {t} /\ S \subseteq S2
  BY <1>1, <1>2
<1>8. m = aux'.loose /\ S2 = sent'
  BY <1>2, <1>6
<1> HIDE DEF m, S, S2
<1>9. WalletOK(file, S2, m)
  BY <1>7, WalletGrows
<1>10. WalletOK(w', S2, m)
  <2>1. CASE w' = [w EXCEPT !.free = {}]
    <3> DEFINE r == [w EXCEPT !.free = {}]
    <3>1. r = [w EXCEPT !.free = {}] /\ w' = r
      BY <2>1
    <3> HIDE DEF r
    <3>2. WalletOK(r, S, m)
      BY <1>1, <1>7, <3>1, FreeCleared
    <3>3. WalletOK(r, S2, m)
      BY <1>7, <3>2, WalletGrows
    <3> QED BY <3>1, <3>3
  <2>2. CASE w' = [HandleUnconfirmed(Paying(P), {t}) EXCEPT !.unc[t].sel = Indices(P)]
    <3> DEFINE s == Paying(P)
               x == HandleUnconfirmed(s, {t})
               sel == Indices(P)
               u == [x.unc EXCEPT ![t].sel = sel]
               r == [x EXCEPT !.unc = u]
    <3>1. w' = r
      BY <2>2
    <3> HIDE DEF u, r
    <3>2. WalletOK(x, S2, m) /\ ChainOK(x) /\ SpentBy(x, sel, t)
      <4>1. s = Paying(P) /\ x = HandleUnconfirmed(s, {t}) /\ sel = Indices(P)
        OBVIOUS
      <4> HIDE DEF s, x, sel
      <4>2. Pays(P, t)
        BY <1>3
      <4> QED BY <1>1, <1>7, <4>1, <4>2, SentOK
    <3> HIDE DEF s, x, sel
    <3> USE DEF u, r
    <3>3. PendingOK(x.unc) /\ (~m => Settled(x))
      BY <3>2 DEF WalletOK, RecordsOK, TypesOK
    <3>4. /\ PendingOK(u) /\ DOMAIN u = DOMAIN x.unc
          /\ \A v \in DOMAIN u : u[v].outgoing = x.unc[v].outgoing /\ u[v].sel = IF v = t THEN sel ELSE x.unc[v].sel
      <4>1. u = [x.unc EXCEPT ![t].sel = sel]
        OBVIOUS
      <4> HIDE DEF u
      <4>2. PendingOK(u) /\ Repacked(x.unc, u, t, sel)
        BY <3>3, <4>1, PendingSelects
      <4> QED BY <4>2 DEF Repacked
    <3> HIDE DEF u
    <3>5. ASSUME ~m, NEW v \in DOMAIN u, NEW i \in u[v].sel PROVE i \in DOMAIN x.tr /\ x.tr[i].out \in Ins[v]
      <4>1. CASE v = t
        BY <3>2, <3>4, <3>5, <4>1 DEF SpentBy
      <4>2. CASE v # t
        BY <3>3, <3>4, <3>5, <4>2 DEF Settled
      <4> QED BY <4>1, <4>2
    <3>6. WalletOK(r, S2, m)
      BY <3>2, <3>4, <3>5, RepackedOK
    <3> QED BY <3>1, <3>6
  <2> QED BY <1>3, <2>1, <2>2
<1> QED BY <1>2, <1>5, <1>6, <1>8, <1>9, <1>10 DEF RecordsInv

LEMMA SwitchRecords ==
  ASSUME ChainInv, RecordsInv, NEW b \in Blocks, Switch(b)
  PROVE  RecordsInv'
<1> DEFINE old == TxsOn(Path[dtop])
           new == TxsOn(Path[b])
<1>1. AuxOK /\ DaemonOK /\ dtop \in Blocks
  BY DEF ChainInv, RecordsInv
<1>2. /\ UNCHANGED << w, job, file, sent, aux >> /\ dtop' = b /\ pool' \subseteq pool \cup (old \ Coinbase)
      /\ new \cap Own \subseteq sent
  BY DEF Switch
<1>3. old \subseteq Txs
  <2> DEFINE p == Path[dtop]
  <2>1. p \in Seq(Blocks)
    BY <1>1, PathIsChain DEF Chain
  <2> HIDE DEF p
  <2>2. \A h \in 1 .. Len(p) : TxsAt(p, h) \subseteq Txs
    BY <2>1, OnFacts DEF Placed
  <2> QED BY <2>2 DEF TxsOn, p
<1>4. old \cap Own \subseteq sent
  BY <1>1 DEF DaemonOK
<1>5. (TxsOn(Path[dtop]) \cap Own \subseteq sent)'
  BY <1>2
<1> HIDE DEF old, new
<1>6. pool' \subseteq Txs \ Coinbase /\ pool' \cap Own \subseteq sent
  BY <1>1, <1>2, <1>3, <1>4 DEF DaemonOK
<1>7. DaemonOK'
  BY <1>1, <1>2, <1>5, <1>6 DEF DaemonOK
<1> QED BY <1>2, <1>7 DEF RecordsInv, AuxOK

\* The pool takes or loses a transaction.
LEMMA PoolRecords ==
  ASSUME RecordsInv, NEW t \in Txs, Arrive(t) \/ PoolDrops(t)
  PROVE  RecordsInv'
<1>1. UNCHANGED << w, job, file, dtop, sent >>
  BY DEF Arrive, PoolDrops
<1>2. AuxOK' /\ aux'.loose = aux.loose
  BY TroubledFacts DEF RecordsInv, AuxOK, Arrive, PoolDrops
<1>3. pool' \subseteq Txs \ Coinbase /\ pool' \cap Own \subseteq sent
  <2>1. CASE Arrive(t)
    <3>1. t \in (Txs \ (Coinbase \cup Own)) \cup sent /\ pool' = pool \cup {t}
      BY <2>1 DEF Arrive
    <3> QED BY <3>1, TxsAssumption DEF RecordsInv, DaemonOK
  <2>2. CASE PoolDrops(t)
    BY <2>2 DEF PoolDrops, RecordsInv, DaemonOK
  <2> QED BY <2>1, <2>2
<1>4. DaemonOK'
  BY <1>1, <1>3 DEF RecordsInv, DaemonOK
<1> QED BY <1>1, <1>2, <1>4 DEF RecordsInv

LEMMA TransferFailsRecords ==
  ASSUME ChainInv, RecordsInv, TransferFails
  PROVE  RecordsInv'
<1>1. ChainOK(w) /\ AuxOK /\ DaemonOK /\ WalletOK(w, sent, aux.loose) /\ WalletOK(file, sent, aux.loose)
  BY DEF ChainInv, RecordsInv
<1> DEFINE r == [w EXCEPT !.free = {}]
<1>2. w' = r /\ UNCHANGED << job, file, dtop, pool, sent, aux >>
  BY DEF TransferFails, daemonVars
<1>3. WalletOK(r, sent, aux.loose)
  BY <1>1, FreeCleared
<1> HIDE DEF r
<1>4. DaemonOK'
  BY <1>1, <1>2 DEF DaemonOK
<1> QED BY <1>1, <1>2, <1>3, <1>4 DEF RecordsInv, AuxOK

LEMMA StoreRecords ==
  ASSUME ChainInv, RecordsInv, Store
  PROVE  RecordsInv'
<1>1. ChainOK(w) /\ AuxOK /\ DaemonOK /\ WalletOK(w, sent, aux.loose) /\ WalletOK(file, sent, aux.loose)
  BY DEF ChainInv, RecordsInv
<1> DEFINE r == [w EXCEPT !.free = {}]
<1>2. file' = r /\ UNCHANGED << job, w, dtop, pool, sent, aux >>
  BY DEF Store, daemonVars
<1>3. WalletOK(r, sent, aux.loose)
  BY <1>1, FreeCleared
<1> HIDE DEF r
<1>4. DaemonOK'
  BY <1>1, <1>2 DEF DaemonOK
<1> QED BY <1>1, <1>2, <1>3, <1>4 DEF RecordsInv, AuxOK

LEMMA RestartRecords ==
  ASSUME ChainInv, RecordsInv, Restart
  PROVE  RecordsInv'
<1>1. JobType /\ AuxOK /\ DaemonOK /\ WalletOK(file, sent, aux.loose)
  BY DEF ChainInv, RecordsInv
<1>2. w' = file /\ job' = Idle /\ UNCHANGED << file, dtop, pool, sent >> /\ Trouble /\ aux' = Troubled
  BY DEF Restart, daemonVars
<1>3. AuxOK' /\ aux'.loose = aux.loose
  BY <1>1, <1>2, TroubledFacts
<1>4. job'.resp = << >>
  BY <1>2 DEF Idle
<1>5. DaemonOK'
  <2>1. \A i \in 1 .. Len(job'.resp) : TxsOn(Path[job'.resp[i]]) \cap Own \subseteq sent
    BY <1>1, <1>4, AnswerShrinks
  <2> QED BY <1>1, <1>2, <2>1 DEF DaemonOK
<1> QED BY <1>1, <1>2, <1>3, <1>5 DEF RecordsInv

-----------------------------------------------------------------------------
(* The theorems. *)

LEMMA RecordsInvInit == Init => RecordsInv
<1> SUFFICES ASSUME Init PROVE RecordsInv
  OBVIOUS
<1>1. /\ w = Fresh /\ file = Fresh /\ job = Idle /\ dtop = Genesis /\ pool = {} /\ sent = {}
      /\ aux = [trouble |-> 0, loose |-> FALSE]
  BY DEF Init
<1>2. AuxOK
  BY <1>1, SizesAssumption DEF AuxOK
<1>3. job.resp = << >>
  BY <1>1 DEF Idle
<1>4. TxsOn(Path[dtop]) = {}
  <2> DEFINE g == Path[dtop]
  <2>1. g = << >>
    BY <1>1, PathOfGenesis
  <2> HIDE DEF g
  <2>2. TxsOn(g) = {}
    BY <2>1 DEF TxsOn
  <2> QED BY <2>2 DEF g
<1>5. DaemonOK
  BY <1>1, <1>3, <1>4 DEF DaemonOK
<1>6. WalletOK(w, sent, aux.loose) /\ WalletOK(file, sent, aux.loose)
  BY <1>1, FreshOK
<1> QED BY <1>2, <1>5, <1>6 DEF RecordsInv

LEMMA RecordsInvStep == ChainInv /\ RecordsInv /\ [Next]_vars => RecordsInv'
<1> SUFFICES ASSUME ChainInv, RecordsInv, [Next]_vars PROVE RecordsInv'
  OBVIOUS
<1> DEFINE G == RecordsInv'
<1>0. JobType
  BY DEF ChainInv
<1>1. ASSUME NEW b \in Blocks, Switch(b) PROVE G
  BY <1>1, SwitchRecords
<1>2. ASSUME NEW t \in Txs, Arrive(t) PROVE G
  BY <1>2, PoolRecords
<1>3. ASSUME NEW t \in Txs, PoolDrops(t) PROVE G
  BY <1>3, PoolRecords
<1>4. ASSUME NEW t \in Txs, Transfer(t) PROVE G
  BY <1>4, TransferRecords
<1>5. ASSUME NEW t \in Txs, Outdate(t) PROVE G
  BY <1>5, OutdateRecords
<1>6. ASSUME BeginRefresh PROVE G
  <2>1. w' = w /\ UNCHANGED << file, dtop, pool, sent >> /\ aux' = aux /\ job'.resp = << >>
    BY <1>6 DEF BeginRefresh, daemonVars, Idle
  <2> QED BY <1>0, <2>1, QuietRecords
<1>7. ASSUME PullBlocks PROVE G
  BY <1>7, PullBlocksRecords
<1>8. ASSUME AttachBlock PROVE G
  BY <1>8, AttachBlockRecords
<1>9. ASSUME MatchBlock PROVE G
  <2>1. w' = w /\ UNCHANGED << file, dtop, pool, sent >> /\ aux' = aux
    BY <1>9 DEF MatchBlock, daemonVars
  <2>2. job.resp # << >> /\ job'.resp = Tail(job.resp)
    BY <1>0, <1>9 DEF MatchBlock, Handling, JobType
  <2> QED BY <1>0, <2>1, <2>2, QuietRecords
<1>10. ASSUME Reorganize PROVE G
  BY <1>10, ReorganizeRecords
<1>11. ASSUME PullEnds PROVE G
  <2>1. w' = w /\ UNCHANGED << file, dtop, pool, sent >> /\ aux' = aux /\ job'.resp = job.resp
    BY <1>0, <1>11 DEF PullEnds, daemonVars, JobType
  <2> QED BY <1>0, <2>1, QuietRecords
<1>12. ASSUME FinishRefresh PROVE G
  BY <1>12, FinishRefreshRecords
<1>13. ASSUME PullFails PROVE G
  <2>1. w' = w /\ UNCHANGED << file, dtop, pool, sent >> /\ Trouble /\ aux' = Troubled /\ job'.resp = << >>
    BY <1>13 DEF PullFails, daemonVars, Idle
  <2> QED BY <1>0, <2>1, QuietRecords
<1>14. ASSUME PullStopped PROVE G
  <2>1. w' = w /\ UNCHANGED << file, dtop, pool, sent >> /\ Trouble /\ aux' = Troubled /\ job'.resp = << >>
    BY <1>0, <1>14 DEF PullStopped, daemonVars, JobType
  <2> QED BY <1>0, <2>1, QuietRecords
<1>15. ASSUME ScanTxPool PROVE G
  BY <1>15, ScanTxPoolRecords
<1>16. ASSUME TransferFails PROVE G
  BY <1>16, TransferFailsRecords
<1>17. ASSUME Store PROVE G
  BY <1>17, StoreRecords
<1>18. ASSUME Restart PROVE G
  BY <1>18, RestartRecords
<1>19. ASSUME UNCHANGED vars PROVE G
  BY <1>19 DEF vars, RecordsInv, AuxOK, DaemonOK
<1> QED
  <2> SUFFICES G
    OBVIOUS
  <2> HIDE DEF G
  <2> QED BY <1>1, <1>2, <1>3, <1>4, <1>5, <1>6, <1>7, <1>8, <1>9, <1>10, <1>11, <1>12, <1>13, <1>14,
             <1>15, <1>16, <1>17, <1>18, <1>19, Zenon DEF Next, RefreshStep

LEMMA WalletInductive == Spec => [](ChainInv /\ RecordsInv)
<1> DEFINE I == ChainInv /\ RecordsInv
<1>1. Init => I
  BY ChainInvInit, RecordsInvInit
<1>2. I /\ [Next]_vars => I'
  BY ChainInvStep, RecordsInvStep
<1> HIDE DEF I
<1>3. Spec => []I
  BY <1>1, <1>2, PTL DEF Spec
<1> QED BY <1>3 DEF I

LEMMA RecordTypes ==
  ASSUME NEW s, ChainOK(s), RecordsOK(s)
  PROVE  RecordOK(s)
<1> DEFINE n == Len(s.seen)
<1>1. /\ s.ids.size = n + 1 /\ n \in Nat /\ DOMAIN s.ids.recent \subseteq 1 .. n /\ DOMAIN s.ids.tens \subseteq 1 .. n
      /\ ~s.resync
  <2>1. s.seen \in Seq(Blocks) /\ IdsOK(s.ids, s.seen) /\ ~s.resync
    BY DEF ChainOK, Chain
  <2>2. DOMAIN s.ids.recent \subseteq 1 .. n
    BY <2>1 DEF IdsOK
  <2>3. DOMAIN s.ids.tens \subseteq 1 .. n
    BY <2>1 DEF IdsOK, Grid
  <2> QED BY <2>1, <2>2, <2>3 DEF IdsOK
<1>2. TypesOK(s, n)
  BY DEF RecordsOK
<1> DEFINE k == s.ids.size - 1
<1>3. k = n /\ s.ids.size \in Nat \ {0}
  BY <1>1
<1> HIDE DEF n, k
<1>4. \A e \in s.hist : e.height \in 1 .. n
  BY <1>2 DEF TypesOK, HistOK
<1>5. \A i \in DOMAIN s.tr : i \in Nat /\ s.tr[i] \in [out : Outer, height : 1 .. n, spent : BOOLEAN, at : 0 .. n]
  BY <1>2 DEF TypesOK, TransfersOK
<1>6. DOMAIN s.ki \subseteq Outer /\ DOMAIN s.unc \subseteq Txs \ Coinbase /\ s.inc \subseteq Txs /\ s.free \subseteq Nat \X Outer
  BY <1>2 DEF TypesOK, PendingOK
<1> QED BY <1>1, <1>3, <1>4, <1>5, <1>6 DEF RecordOK, k

LEMMA InvTypes == ChainInv /\ RecordsInv => TypeOK
<1> SUFFICES ASSUME ChainInv, RecordsInv PROVE TypeOK
  OBVIOUS
<1>1. ChainOK(w) /\ ChainOK(file) /\ JobType /\ dtop \in Blocks /\ RecordsOK(w) /\ RecordsOK(file)
  BY DEF ChainInv, RecordsInv, WalletOK
<1>2. RecordOK(w) /\ RecordOK(file)
  BY <1>1, RecordTypes
<1>3. job.at \in {"idle", "pull", "blocks", "finish"} /\ ToSet(job.resp) \subseteq Blocks
  BY <1>1 DEF JobType, ToSet
<1>4. pool \subseteq Txs \ Coinbase /\ sent \subseteq Own
  BY DEF RecordsInv, DaemonOK
<1>5. aux.trouble \in 0 .. MaxTrouble /\ aux.loose \in BOOLEAN
  BY DEF RecordsInv, AuxOK
<1> QED BY <1>1, <1>2, <1>3, <1>4, <1>5 DEF TypeOK

LEMMA InvTransfers == ChainInv /\ RecordsInv => TransfersExact
<1> SUFFICES ASSUME ChainInv, RecordsInv, ~w.revived PROVE TransfersExact
  BY DEF TransfersExact
<1> DEFINE p == w.seen
           G == On(p)
<1>1. p \in Seq(Blocks) /\ Exact(w, G)
  BY DEF ChainInv, RecordsInv, ChainOK, Chain, WalletOK, RecordsOK
<1>2. Valid(G) /\ Tracks(w, G)
  BY <1>1 DEF Exact
<1>3. ASSUME NEW o
      PROVE  /\ o \in Received(p) <=> \E h : Gets(G, o, h)
             /\ \A h : Gets(G, o, h) => ReceivedAt(p, o) = h
             /\ \A h : Spends(G, o, h) => SpentAt(p, o) = h
             /\ (\A h : ~Spends(G, o, h)) => SpentAt(p, o) = 0
  BY <1>1, <1>2, SpentAtFacts
<1>4. \A o : o \in DOMAIN w.ki <=> o \in Received(p)
  BY <1>2, <1>3 DEF Tracks
<1>5. \A o, h : Spends(G, o, h) => h # 0
  <2>1. Placed(G, Len(p)) /\ Len(p) \in Nat
    BY <1>1, OnFacts
  <2> HIDE DEF G
  <2> QED BY <2>1 DEF Spends, Placed
<1>6. ASSUME NEW i \in DOMAIN w.tr
      PROVE  LET r == w.tr[i]
             IN  /\ r.out \in Received(p) /\ r.height = ReceivedAt(p, r.out)
                 /\ r.at = SpentAt(p, r.out) /\ (r.at # 0 => r.spent)
                 /\ w.ki[r.out] = i
  <2> DEFINE r == w.tr[i]
  <2>1. TrackedBy(G, r) /\ w.ki[r.out] = i
    BY <1>2 DEF Tracks
  <2> HIDE DEF r, G, p
  <2>2. r.out \in Received(p) /\ r.height = ReceivedAt(p, r.out)
    BY <1>3, <2>1 DEF TrackedBy
  <2>3. r.at = SpentAt(p, r.out) /\ (r.at # 0 => r.spent)
    BY <1>3, <2>1 DEF TrackedBy
  <2> QED BY <2>1, <2>2, <2>3 DEF r
<1>7. \A o \in Received(p) \ Outputs(w) : SpentAt(p, o) # 0
  <2> TAKE o \in Received(p) \ Outputs(w)
  <2>1. o \in Forgotten(w)
    BY <1>4 DEF Forgotten
  <2>2. PICK h : Spends(G, o, h)
    BY <1>2, <2>1 DEF Tracks
  <2> QED BY <1>3, <1>5, <2>2
<1>8. DOMAIN w.ki = Received(p)
  BY <1>4
<1> QED BY <1>6, <1>7, <1>8 DEF TransfersExact, p

LEMMA InvExplained == ChainInv /\ RecordsInv => MarkExplained
BY DEF RecordsInv, WalletOK, RecordsOK, Exact, Explained, MarkExplained

LEMMA InvReserved == ChainInv /\ RecordsInv => Reserved
BY DEF RecordsInv, WalletOK, Settled, Reserved, SpendsOf, Pending

LEMMA InvSelection == ChainInv /\ RecordsInv => SelectionValid
BY DEF RecordsInv, WalletOK, Settled, SelectionValid, Pending

\* For every tree of blocks with valid transactions and any sizes: what a wallet holds,
\* and what it has saved, is well formed after any sequence of calls (wallet2_base_state).
THEOREM WalletTypes == Spec => []TypeOK
<1>1. ChainInv /\ RecordsInv => TypeOK
  BY InvTypes
<1> QED BY <1>1, WalletInductive, PTL

\* For every tree of blocks with valid transactions: whatever the wallet detached,
\* scanned again, truncated or loaded, its transfers are those a scan of its chain would
\* find, truncated spends apart (process_new_transaction, detach_blockchain,
\* truncate_wallet), as long as no forgotten output came back to life.
THEOREM WalletTransfersExact == Spec => []TransfersExact
<1>1. ChainInv /\ RecordsInv => TransfersExact
  BY InvTransfers
<1> QED BY <1>1, WalletInductive, PTL

\* Under the same condition, a transfer that is marked as spent without a height is
\* explained by a pending outgoing transaction or is released by the next on_idle:
\* detach_blockchain, a lost answer to a transfer or an interrupted on_idle leave no
\* money marked for ever.
THEOREM WalletMarkExplained == Spec => []MarkExplained
<1>1. ChainInv /\ RecordsInv => MarkExplained
  BY InvExplained
<1> QED BY <1>1, WalletInductive, PTL

\* Whatever the pool, the daemon and the file do, an output that a pending transaction
\* spends is marked, so that transfer does not select it, until one of the named events
\* loosens the marks (handle_unconfirmed_tx, on_idle).
THEOREM WalletReserved == Spec => []Reserved
<1>1. ChainInv /\ RecordsInv => Reserved
  BY InvReserved
<1> QED BY <1>1, WalletInductive, PTL

\* Until then the indices a pending transaction selected stay those of its inputs: what
\* scan_not_compliant_unconfirmed_txs releases is what the transaction reserved, and
\* truncate_wallet never takes it away.
THEOREM WalletSelectionValid == Spec => []SelectionValid
<1>1. ChainInv /\ RecordsInv => SelectionValid
  BY InvSelection
<1> QED BY <1>1, WalletInductive, PTL
=============================================================================
