---------------------------- MODULE NatRecursion ----------------------------
(***************************************************************************)
(* Recursive functions on the naturals, for proofs.  The induction         *)
(* theorems of the library take an operator as a parameter; these lemmas   *)
(* take sets and functions, and rest on the well-foundedness of < on Nat.  *)
(***************************************************************************)
EXTENDS Integers, TLAPS, WellFoundedInduction

\* Every nonempty set of naturals has a least element.
LEMMA LeastNatural ==
  ASSUME NEW T, T \subseteq Nat, T # {}
  PROVE  \E x \in T : \A y \in T : x <= y
<1> DEFINE R == {ss \in Nat \X Nat : ss[1] < ss[2]}
<1>1. IsWellFoundedOn(R, Nat)
  BY NatLessThanWellFounded DEF OpToRel
<1>2. \A x, y \in Nat : <<y, x>> \in R <=> y < x
  OBVIOUS
<1> HIDE DEF R
<1>3. PICK x \in T : \A y \in T : <<y, x>> \notin R
  BY <1>1, WFMin
<1>4. \A y \in T : ~(y < x)
  BY <1>2, <1>3, Zenon
<1>5. \A y \in T : x <= y
  BY <1>4, SMT
<1> QED
  BY <1>5

\* A set of naturals that holds 0 and the successor of each of its elements
\* holds every natural.
LEMMA SetInduction ==
  ASSUME NEW T, 0 \in T, \A n \in Nat : n \in T => n + 1 \in T
  PROVE  \A n \in Nat : n \in T
<1> DEFINE Missing == Nat \ T
<1>1. SUFFICES ASSUME Missing # {} PROVE FALSE
  OBVIOUS
<1>2. PICK m \in Missing : \A y \in Missing : m <= y
  BY <1>1, LeastNatural
<1>3. m \in Nat /\ m # 0 /\ m - 1 \in Nat
  BY <1>2
<1>4. m - 1 \in T
  BY <1>2, <1>3
<1>5. (m - 1) + 1 \in T
  BY <1>3, <1>4
<1> QED
  BY <1>2, <1>3, <1>5

\* The functions on 0..n given by a value at 0 and a step function, and
\* whether there is one.
IsPiece(f, n, S, g, a) ==
  /\ f \in [0..n -> S]
  /\ f[0] = a
  /\ \A i \in 1..n : f[i] = g[<<i, f[i - 1]>>]

HasPiece(n, S, g, a) == \E f : IsPiece(f, n, S, g, a)

\* The function on all the naturals they are the pieces of.
IsRecursion(f, S, g, a) ==
  /\ f \in [Nat -> S]
  /\ f[0] = a
  /\ \A i \in Nat \ {0} : f[i] = g[<<i, f[i - 1]>>]

HasRecursion(S, g, a) == \E f : IsRecursion(f, S, g, a)

\* A function on the naturals given by its value at 0 and by a step function
\* exists: it is built up to each n, and the pieces agree.
LEMMA RecursionUpTo ==
  ASSUME NEW S, NEW g \in [Nat \X S -> S], NEW a \in S
  PROVE  \A n \in Nat : HasPiece(n, S, g, a)
<1> DEFINE T == {n \in Nat : HasPiece(n, S, g, a)}
<1>1. 0 \in T
  <2> DEFINE f == [i \in 0..0 |-> a]
  <2>1. f \in [0..0 -> S] /\ f[0] = a
    OBVIOUS
  <2>2. \A i \in 1..0 : FALSE
    OBVIOUS
  <2> HIDE DEF f
  <2> QED
    BY <2>1, <2>2, Zenon DEF IsPiece, HasPiece
<1>2. ASSUME NEW n \in Nat, n \in T
      PROVE  n + 1 \in T
  <2>1. PICK f \in [0..n -> S] : IsPiece(f, n, S, g, a)
    BY <1>2 DEF IsPiece, HasPiece
  <2> DEFINE h == [i \in 0..(n + 1) |-> IF i <= n THEN f[i] ELSE g[<<n + 1, f[n]>>]]
  <2>2. f[n] \in S
    OBVIOUS
  <2>3. g[<<n + 1, f[n]>>] \in S
    BY <2>2
  <2>4. h \in [0..(n + 1) -> S]
    BY <2>3
  <2>5. h[0] = a
    BY <2>1 DEF IsPiece
  <2>6. ASSUME NEW i \in 1..(n + 1)
        PROVE  h[i] = g[<<i, h[i - 1]>>]
    <3>1. CASE i = n + 1
      <4>1. i \in 0..(n + 1) /\ ~(i <= n) /\ i - 1 = n /\ n \in 0..(n + 1)
        BY <3>1
      <4>2. h[i] = g[<<n + 1, f[n]>>] /\ h[i - 1] = f[n]
        BY <4>1
      <4> QED
        BY <3>1, <4>2, Zenon
    <3>2. CASE i # n + 1
      <4>1. i \in 1..n /\ i - 1 \in 0..n
        BY <3>2
      <4>2. h[i] = f[i] /\ h[i - 1] = f[i - 1]
        BY <4>1
      <4> QED
        BY <2>1, <4>1, <4>2 DEF IsPiece
    <3> QED
      BY <3>1, <3>2
  <2> HIDE DEF h
  <2> QED
    BY <2>4, <2>5, <2>6 DEF IsPiece, HasPiece
<1> HIDE DEF T
<1>3. \A n \in Nat : n \in T
  BY <1>1, <1>2, SetInduction
<1> QED
  BY <1>3 DEF T

LEMMA RecursiveFunctionExists ==
  ASSUME NEW S, NEW g \in [Nat \X S -> S], NEW a \in S
  PROVE  HasRecursion(S, g, a)
<1> DEFINE Piece(n) == CHOOSE f : IsPiece(f, n, S, g, a)
           F == [n \in Nat |-> Piece(n)[n]]
<1>1. \A n \in Nat : IsPiece(Piece(n), n, S, g, a)
  BY RecursionUpTo DEF HasPiece
<1> HIDE DEF Piece
<1>2. \A n \in Nat : F[n] = Piece(n)[n] /\ Piece(n)[n] \in S
  BY <1>1 DEF IsPiece
<1>3. F \in [Nat -> S]
  BY <1>2
<1>4. F[0] = a
  BY <1>1, <1>2 DEF IsPiece
<1>5. ASSUME NEW n \in Nat
      PROVE  \A i \in Nat : i <= n => Piece(n)[i] = Piece(n + 1)[i]
  <2> DEFINE T == {i \in Nat : i <= n => Piece(n)[i] = Piece(n + 1)[i]}
  <2>1. 0 \in T
    BY <1>1 DEF IsPiece
  <2>2. ASSUME NEW i \in Nat, i \in T
        PROVE  i + 1 \in T
    <3>1. SUFFICES ASSUME i + 1 <= n
                   PROVE  Piece(n)[i + 1] = Piece(n + 1)[i + 1]
      OBVIOUS
    <3>2. i + 1 \in 1..n /\ i + 1 \in 1..(n + 1) /\ (i + 1) - 1 = i
      BY <3>1
    <3>3. Piece(n)[i] = Piece(n + 1)[i]
      BY <2>2, <3>1
    <3>4. Piece(n)[i + 1] = g[<<i + 1, Piece(n)[(i + 1) - 1]>>]
      BY <1>1, <3>2 DEF IsPiece
    <3>5. Piece(n + 1)[i + 1] = g[<<i + 1, Piece(n + 1)[(i + 1) - 1]>>]
      BY <1>1, <3>2 DEF IsPiece
    <3> QED
      BY <3>2, <3>3, <3>4, <3>5
  <2> HIDE DEF T
  <2>3. \A i \in Nat : i \in T
    BY <2>1, <2>2, SetInduction
  <2> QED
    BY <2>3 DEF T
<1>6. ASSUME NEW i \in Nat \ {0}
      PROVE  F[i] = g[<<i, F[i - 1]>>]
  <2>1. i \in Nat /\ i - 1 \in Nat /\ i \in 1..i /\ (i - 1) + 1 = i /\ i - 1 <= i - 1
    OBVIOUS
  <2>2. Piece(i)[i] = g[<<i, Piece(i)[i - 1]>>]
    BY <1>1, <2>1 DEF IsPiece
  <2>3. Piece(i - 1)[i - 1] = Piece((i - 1) + 1)[i - 1]
    BY <1>5, <2>1
  <2> QED
    BY <1>2, <2>1, <2>2, <2>3
<1> HIDE DEF F
<1> QED
  BY <1>3, <1>4, <1>6 DEF IsRecursion, HasRecursion

=============================================================================
