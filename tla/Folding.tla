------------------------------ MODULE Folding ------------------------------
(***************************************************************************)
(* What FoldLeft computes.  The chain of ChainNode is replayed with it: a  *)
(* block is the fold of its transactions and the accounts are the fold of  *)
(* the blocks.  The module is instantiated once for each operator that is  *)
(* folded (INSTANCE Folding WITH Op <- Move), so that a theorem below says *)
(* of FoldLeft(Move, base, s) what it says here of every operator Op.      *)
(*                                                                         *)
(* FoldLeft is a recursive function over the subsets of the indices of the *)
(* sequence.  That the equation which defines it has a solution, and what  *)
(* that solution is for 1 .. n, is shown by induction: the least number    *)
(* for which a claim fails does not exist.                                 *)
(***************************************************************************)
EXTENDS Integers, Sequences, SequencesExt, WellFoundedInduction, TLAPS

CONSTANT Op(_, _)

Fold(base, s) == FoldLeft(Op, base, s)

(* g solves the equation that FoldLeft is defined by, for the indices S.   *)
Solves(g, base, s, S) ==
    g = [T \in SUBSET S |->
            IF T = {} THEN base ELSE Op(g[T \ {Max(T)}], s[Max(T)])]

(* s and r begin with the same k elements.                                 *)
Agree(s, r, k) == \A i \in 1 .. k : s[i] = r[i]

Solution(base, s, S) == CHOOSE g : Solves(g, base, s, S)

(* Every nonempty set of naturals has a least element.                     *)
LEMMA Least ==
    ASSUME NEW T \in SUBSET Nat, T # {}
    PROVE  \E x \in T : \A y \in T : x <= y
<1>. DEFINE R == OpToRel(<, Nat)
<1>1. PICK x \in T : \A y \in T : ~(<<y, x>> \in R)
  <2>1. IsWellFoundedOn(R, Nat)
    BY NatLessThanWellFounded
  <2>. HIDE DEF R
  <2>. QED
    BY <2>1, WFMin
<1>2. \A y \in T : ~(y < x)
  BY <1>1 DEF OpToRel
<1>. QED
  BY <1>2

(* The greatest index of 1 .. n, or of a part of it that holds n, is n.    *)
LEMMA Greatest ==
    ASSUME NEW n \in Nat \ {0}, NEW T \in SUBSET (1 .. n), n \in T
    PROVE  Max(T) = n
<1>1. n \in T /\ \A y \in T : n >= y
  OBVIOUS
<1>2. ASSUME NEW x \in T, \A y \in T : x >= y
      PROVE  x = n
  BY <1>2
<1>. QED
  BY <1>1, <1>2 DEF Max

(* FoldLeft is the solution of its equation, at the whole domain.          *)
LEMMA FoldIs ==
    \A base, s : Fold(base, s) = Solution(base, s, DOMAIN s)[DOMAIN s]
BY Zenon DEF Fold, FoldLeft, MapThenFoldSet, Solution, Solves

(* A solution for 1 .. n is one step away from a solution for 1 .. n + 1.  *)
LEMMA SolvesNext ==
    ASSUME NEW base, NEW s, NEW n \in Nat, NEW g, Solves(g, base, s, 1 .. n)
    PROVE  \E h : Solves(h, base, s, 1 .. n + 1)
<1>. DEFINE Rhs(f, T) == IF T = {} THEN base
                         ELSE Op(f[T \ {Max(T)}], s[Max(T)])
            h == [T \in SUBSET (1 .. n + 1) |->
                     IF n + 1 \in T THEN Op(g[T \ {n + 1}], s[n + 1]) ELSE g[T]]
<1>1. \A T \in SUBSET (1 .. n) : g[T] = Rhs(g, T)
  <2>1. g = [T \in SUBSET (1 .. n) |-> Rhs(g, T)]
    BY Zenon DEF Solves
  <2>. HIDE DEF Rhs
  <2>. QED
    BY Zenon, <2>1
<1>2. \A T \in SUBSET (1 .. n) : T \in SUBSET (1 .. n + 1) /\ h[T] = g[T]
  <2>1. \A T \in SUBSET (1 .. n) : T \in SUBSET (1 .. n + 1) /\ n + 1 \notin T
    OBVIOUS
  <2>. QED
    BY Zenon, <2>1
<1>3. ASSUME NEW T \in SUBSET (1 .. n + 1)
      PROVE  h[T] = Rhs(h, T)
  <2>1. CASE n + 1 \in T
    <3>1. Max(T) = n + 1
      BY <2>1, Greatest
    <3>2. T \ {n + 1} \in SUBSET (1 .. n)
      OBVIOUS
    <3>3. h[T] = Op(g[T \ {n + 1}], s[n + 1])
      BY <2>1
    <3>4. h[T \ {n + 1}] = g[T \ {n + 1}]
      BY <1>2, <3>2
    <3>. HIDE DEF h
    <3>. QED
      BY Zenon, <3>1, <3>3, <3>4, <2>1
  <2>2. CASE n + 1 \notin T
    <3>1. T \in SUBSET (1 .. n) /\ T \ {Max(T)} \in SUBSET (1 .. n)
      <4>. DEFINE x == Max(T)
      <4>. HIDE DEF x
      <4>1. \A i \in T : i \in 1 .. n + 1 /\ i # n + 1
        BY <2>2
      <4>2. \A i \in T : i \in 1 .. n
        BY <4>1
      <4>3. T \in SUBSET (1 .. n) /\ T \ {x} \in SUBSET (1 .. n)
        BY Zenon, <4>2
      <4>. QED
        BY <4>3 DEF x
    <3>2. h[T] = g[T] /\ h[T \ {Max(T)}] = g[T \ {Max(T)}]
      BY Zenon, <1>2, <3>1
    <3>. HIDE DEF h
    <3>. QED
      BY Zenon, <1>1, <3>1, <3>2
  <2>. QED
    BY <2>1, <2>2
<1>4. h = [T \in SUBSET (1 .. n + 1) |-> Rhs(h, T)]
  <2>. DEFINE S == SUBSET (1 .. n + 1)
              F(T) == IF n + 1 \in T THEN Op(g[T \ {n + 1}], s[n + 1]) ELSE g[T]
  <2>1. h = [T \in S |-> F(T)] /\ \A T \in S : h[T] = Rhs(h, T)
    BY Zenon, <1>3
  <2>2. \A T \in S : F(T) = Rhs(h, T)
    <3>. HIDE DEF Rhs, F, S
    <3>1. ASSUME NEW T \in S PROVE F(T) = h[T]
      <4>. HIDE DEF h
      <4>. QED
        BY Zenon, <2>1
    <3>. HIDE DEF h
    <3>. QED
      BY Zenon, <2>1, <3>1
  <2>. HIDE DEF Rhs, F, S, h
  <2>3. h = [T \in S |-> Rhs(h, T)]
    BY <2>1, <2>2
  <2>. QED
    BY <2>3 DEF S
<1>. QED
  BY Zenon, <1>4 DEF Solves

(* The equation has a solution for every 1 .. n.                           *)
LEMMA SolutionExists ==
    ASSUME NEW base, NEW s, NEW n \in Nat
    PROVE  Solves(Solution(base, s, 1 .. n), base, s, 1 .. n)
<1>. DEFINE Bad == {k \in Nat : ~\E g : Solves(g, base, s, 1 .. k)}
<1>1. ASSUME n \in Bad
      PROVE  FALSE
  <2>1. PICK k \in Bad : \A j \in Bad : k <= j
    BY <1>1, Least
  <2>2. CASE k = 0
    <3>. DEFINE g == [T \in SUBSET (1 .. 0) |-> base]
    <3>1. \A T \in SUBSET (1 .. 0) : T = {}
      OBVIOUS
    <3>2. g = [T \in SUBSET (1 .. 0) |->
                 IF T = {} THEN base ELSE Op(g[T \ {Max(T)}], s[Max(T)])]
      BY <3>1
    <3>. QED
      BY Zenon, <3>2, <2>1, <2>2 DEF Solves
  <2>3. CASE k # 0
    <3>1. k - 1 \in Nat /\ k - 1 \notin Bad /\ (k - 1) + 1 = k
      BY <2>1, <2>3
    <3>2. PICK g : Solves(g, base, s, 1 .. k - 1)
      BY <3>1
    <3>. QED
      BY <3>1, <3>2, <2>1, SolvesNext
  <2>. QED
    BY <2>2, <2>3
<1>. QED
  BY <1>1 DEF Solution

(* What solutions are at 1 .. k: base for 0, and one more step of Op for   *)
(* each index after it.                                                    *)
LEMMA SolutionStep ==
    ASSUME NEW base, NEW s, NEW n \in Nat, NEW k \in 0 .. n,
           NEW g, Solves(g, base, s, 1 .. n)
    PROVE  /\ k = 0 => g[1 .. k] = base
           /\ k # 0 => g[1 .. k] = Op(g[1 .. k - 1], s[k])
<1>1. 1 .. k \in SUBSET (1 .. n) /\ (k = 0 => 1 .. k = {})
  OBVIOUS
<1>2. g[1 .. k] = IF 1 .. k = {} THEN base
                  ELSE Op(g[(1 .. k) \ {Max(1 .. k)}], s[Max(1 .. k)])
  <2>. DEFINE Rhs(T) == IF T = {} THEN base ELSE Op(g[T \ {Max(T)}], s[Max(T)])
  <2>1. g = [T \in SUBSET (1 .. n) |-> Rhs(T)]
    BY Zenon DEF Solves
  <2>2. g[1 .. k] = Rhs(1 .. k)
    <3>. HIDE DEF Rhs
    <3>. QED
      BY Zenon, <1>1, <2>1
  <2>. QED
    BY Zenon, <2>2
<1>3. k # 0 => /\ 1 .. k # {} /\ Max(1 .. k) = k
               /\ (1 .. k) \ {k} = 1 .. k - 1
  <2>1. k # 0 => k \in Nat \ {0} /\ k \in 1 .. k /\ 1 .. k \in SUBSET (1 .. k)
    OBVIOUS
  <2>2. k # 0 => Max(1 .. k) = k
    BY Zenon, <2>1, Greatest
  <2>3. k # 0 => (1 .. k) \ {k} = 1 .. k - 1
    OBVIOUS
  <2>. QED
    BY Zenon, <2>1, <2>2, <2>3
<1>. QED
  BY Zenon, <1>1, <1>2, <1>3

(* Two solutions agree at 1 .. k if the sequences do.                      *)
LEMMA SolutionsAgree ==
    ASSUME NEW base, NEW s, NEW r, NEW k \in Nat, NEW m \in Nat,
           k <= m, Agree(s, r, k),
           NEW g, Solves(g, base, s, 1 .. k),
           NEW h, Solves(h, base, r, 1 .. m)
    PROVE  g[1 .. k] = h[1 .. k]
<1>. DEFINE Bad == {j \in 0 .. k : g[1 .. j] # h[1 .. j]}
<1>1. ASSUME k \in Bad
      PROVE  FALSE
  <2>1. PICK j \in Bad : \A i \in Bad : j <= i
    <3>1. Bad \in SUBSET Nat /\ Bad # {}
      BY <1>1
    <3>. HIDE DEF Bad
    <3>. QED
      BY <3>1, Least
  <2>2. j \in 0 .. k /\ j \in 0 .. m
    BY <2>1
  <2>3. /\ j = 0 => g[1 .. j] = base
        /\ j # 0 => g[1 .. j] = Op(g[1 .. j - 1], s[j])
    BY SolutionStep, <2>2
  <2>6. /\ j = 0 => h[1 .. j] = base
        /\ j # 0 => h[1 .. j] = Op(h[1 .. j - 1], r[j])
    BY SolutionStep, <2>2
  <2>4. j # 0 => j - 1 \in 0 .. k /\ j - 1 \notin Bad /\ j \in 1 .. k
    BY <2>1
  <2>5. j # 0 => g[1 .. j - 1] = h[1 .. j - 1] /\ s[j] = r[j]
    BY <2>4 DEF Agree
  <2>. QED
    BY Zenon, <2>1, <2>3, <2>5, <2>6
<1>. QED
  BY <1>1

----------------------------------------------------------------------------
(* The laws of the fold                                                    *)

(* A fold over nothing is where it starts.                                 *)
THEOREM FoldEmpty ==
    ASSUME NEW base
    PROVE  Fold(base, <<>>) = base
<1>1. DOMAIN <<>> = 1 .. 0
  OBVIOUS
<1>2. Solves(Solution(base, <<>>, 1 .. 0), base, <<>>, 1 .. 0)
  BY SolutionExists
<1>3. Solution(base, <<>>, 1 .. 0)[1 .. 0] = base
  <2>. DEFINE e == <<>>
              z == 0
              g == Solution(base, e, 1 .. z)
  <2>1. z \in Nat /\ z \in 0 .. z
    OBVIOUS
  <2>2. Solves(g, base, e, 1 .. z)
    BY <1>2
  <2>. HIDE DEF g, z, e
  <2>3. z = 0 => g[1 .. z] = base
    BY <2>1, <2>2, SolutionStep
  <2>. QED
    BY Zenon, <2>3 DEF g, z, e
<1>. QED
  BY Zenon, FoldIs, <1>1, <1>3

(* The fold over one more element is one more step of Op.                  *)
THEOREM FoldPrefix ==
    ASSUME NEW S, NEW c \in Seq(S), NEW base, NEW n \in 0 .. Len(c) - 1
    PROVE  Fold(base, SubSeq(c, 1, n + 1)) =
               Op(Fold(base, SubSeq(c, 1, n)), c[n + 1])
<1>. DEFINE p == SubSeq(c, 1, n)
            q == SubSeq(c, 1, n + 1)
            N == n + 1
            g == Solution(base, p, 1 .. n)
            h == Solution(base, q, 1 .. N)
<1>1. /\ DOMAIN p = 1 .. n /\ DOMAIN q = 1 .. n + 1
      /\ \A i \in 1 .. n : p[i] = q[i]
      /\ q[n + 1] = c[n + 1]
  OBVIOUS
<1>2. /\ n \in Nat /\ N \in Nat /\ n <= N /\ n = N - 1
      /\ N # 0 /\ N \in 0 .. N
  OBVIOUS
<1>3. Fold(base, p) = g[1 .. n] /\ Fold(base, q) = h[1 .. N]
  <2>. HIDE DEF p, q
  <2>. QED
    BY Zenon, <1>1, FoldIs
<1>4. q[N] = c[n + 1] /\ \A i \in 1 .. n : p[i] = q[i]
  BY <1>1
<1>. HIDE DEF p, q, N
<1>5. Solves(g, base, p, 1 .. n) /\ Solves(h, base, q, 1 .. N)
  BY <1>2, SolutionExists
<1>. HIDE DEF g, h
<1>6. g[1 .. n] = h[1 .. n]
  <2>1. n \in Nat /\ N \in Nat /\ n <= N
    BY <1>2
  <2>2. Agree(p, q, n)
    BY <1>4 DEF Agree
  <2>. QED
    BY <2>1, <2>2, <1>5, SolutionsAgree
<1>7. h[1 .. N] = Op(h[1 .. N - 1], q[N])
  BY <1>2, <1>5, SolutionStep
<1>8. Fold(base, q) = Op(Fold(base, p), c[n + 1])
  BY Zenon, <1>2, <1>3, <1>4, <1>6, <1>7
<1>. QED
  BY Zenon, <1>8 DEF p, q, N

(* What Op keeps, a fold keeps.                                            *)
THEOREM FoldInvariant ==
    ASSUME NEW S, NEW A, NEW c \in Seq(S), NEW base \in A,
           \A a \in A : \A e \in S : Op(a, e) \in A
    PROVE  Fold(base, c) \in A
<1>. DEFINE Bad == {j \in 0 .. Len(c) : Fold(base, SubSeq(c, 1, j)) \notin A}
<1>1. ASSUME Len(c) \in Bad
      PROVE  FALSE
  <2>1. PICK j \in Bad : \A i \in Bad : j <= i
    <3>1. Bad \in SUBSET Nat /\ Bad # {}
      BY <1>1
    <3>. HIDE DEF Bad
    <3>. QED
      BY <3>1, Least
  <2>2. j # 0
    <3>1. SubSeq(c, 1, 0) = <<>>
      OBVIOUS
    <3>. QED
      BY <2>1, <3>1, FoldEmpty
  <2>3. /\ j - 1 \in 0 .. Len(c) - 1 /\ (j - 1) + 1 = j /\ c[j] \in S
        /\ j - 1 \in 0 .. Len(c) /\ j - 1 \notin Bad
    BY <2>1, <2>2
  <2>4. Fold(base, SubSeq(c, 1, j - 1)) \in A
    BY <2>3
  <2>5. Fold(base, SubSeq(c, 1, j)) = Op(Fold(base, SubSeq(c, 1, j - 1)), c[j])
    <3>1. Fold(base, SubSeq(c, 1, (j - 1) + 1)) =
            Op(Fold(base, SubSeq(c, 1, j - 1)), c[(j - 1) + 1])
      BY <2>3, FoldPrefix
    <3>. QED
      BY <2>3, <3>1
  <2>. QED
    BY <2>1, <2>3, <2>4, <2>5
<1>2. SubSeq(c, 1, Len(c)) = c /\ Len(c) \in 0 .. Len(c)
  OBVIOUS
<1>. QED
  BY <1>1, <1>2
============================================================================
