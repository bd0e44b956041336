---------------------------- MODULE NumberProofs ----------------------------
(***************************************************************************)
(* Facts about numbers that the other proofs need: least and greatest      *)
(* elements, counting up to a number, and division.                        *)
(***************************************************************************)
EXTENDS Integers, FiniteSetsExt, WellFoundedInduction, TLAPS

----------------------------------------------------------------------------
(* Least and greatest numbers *)

(* A set of numbers that is not empty has a least one. *)
LEMMA LeastNumber ==
    ASSUME NEW T, T \subseteq Nat, T # {}
    PROVE  \E x \in T : \A y \in T : x <= y
  <1> DEFINE R == {ss \in Nat \X Nat : ss[1] < ss[2]}
  <1>1. R = OpToRel(<, Nat)
    BY DEF OpToRel
  <1>2. IsWellFoundedOn(R, Nat)
    BY <1>1, NatLessThanWellFounded
  <1>3. PICK x \in T : \A y \in T : ~ (<<y, x>> \in R)
    BY <1>2, WFMin
  <1>4. ASSUME NEW y \in T
        PROVE  x <= y
    <2>1. ~ (y < x)
      BY <1>3
    <2>2. QED
      BY <2>1
  <1>5. QED
    BY <1>3, <1>4

(* The Min of a set of numbers that is not empty is in it, and least. *)
LEMMA MinIsLeast ==
    ASSUME NEW T, T \subseteq Nat, T # {}
    PROVE  Min(T) \in T /\ \A y \in T : Min(T) <= y
  BY LeastNumber DEF Min

(* The Min of two numbers is one of them, and at most either. *)
LEMMA MinOfTwo ==
    ASSUME NEW a \in Nat, NEW b \in Nat
    PROVE  /\ Min({a, b}) \in {a, b} /\ Min({a, b}) \in Nat
           /\ Min({a, b}) <= a /\ Min({a, b}) <= b
  <1> DEFINE T == {a, b}
  <1>1. T \subseteq Nat /\ T # {} /\ a \in T /\ b \in T
    OBVIOUS
  <1> HIDE DEF T
  <1>2. Min(T) \in T /\ \A y \in T : Min(T) <= y
    BY <1>1, MinIsLeast
  <1>3. Min(T) \in Nat /\ Min(T) <= a /\ Min(T) <= b
    BY <1>1, <1>2
  <1>4. QED
    BY <1>2, <1>3 DEF T

(* The Max of a set of numbers that is bounded is its greatest. *)
LEMMA MaxIsGreatest ==
    ASSUME NEW k \in Nat, NEW S, S \subseteq 0 .. k, S # {}
    PROVE  Max(S) \in S /\ \A y \in S : y <= Max(S)
  <1> DEFINE T == {k - x : x \in S}
  <1>1. T \subseteq Nat /\ T # {}
    <2>1. \A x \in S : x \in Nat /\ x <= k /\ k - x \in Nat
      OBVIOUS
    <2>2. T \subseteq Nat
      BY <2>1
    <2>3. PICK x : x \in S
      OBVIOUS
    <2>4. k - x \in T
      BY <2>3
    <2>5. QED
      BY <2>2, <2>4
  <1>2. PICK t \in T : \A y \in T : t <= y
    BY <1>1, LeastNumber
  <1>3. PICK x \in S : t = k - x
    BY <1>2
  <1>4. \A y \in S : y <= x
    <2> SUFFICES ASSUME NEW y \in S
                 PROVE  y <= x
      OBVIOUS
    <2>1. k - x <= k - y
      BY <1>2, <1>3
    <2>2. QED
      BY <2>1
  <1>5. QED
    BY <1>4 DEF Max

(* What holds of 0, and of every number after one it holds of, holds up to *)
(* any number.                                                             *)
LEMMA CountingUp ==
    ASSUME NEW n \in Nat, NEW S, 0 \in S, \A k \in 0 .. n - 1 : k \in S => k + 1 \in S
    PROVE  0 .. n \subseteq S
  <1> DEFINE missing == (0 .. n) \ S
  <1> SUFFICES ASSUME missing # {}
               PROVE  FALSE
    OBVIOUS
  <1>1. PICK x \in missing : \A y \in missing : x <= y
    <2>1. missing \subseteq Nat
      OBVIOUS
    <2>2. QED
      BY <2>1, LeastNumber
  <1>2. x \in 1 .. n /\ x - 1 \in 0 .. n - 1
    BY <1>1
  <1>3. x - 1 \in S
    BY <1>1, <1>2
  <1>4. x - 1 + 1 = x
    BY <1>2
  <1>5. QED
    BY <1>1, <1>2, <1>3, <1>4

----------------------------------------------------------------------------
(* Division *)

(* A quotient and a remainder are told apart again. *)
LEMMA QuotientAndRemainder ==
    ASSUME NEW a \in Nat, NEW q \in Nat, NEW r \in 0 .. q - 1
    PROVE  (a * q + r) \div q = a /\ (a * q + r) % q = r
  OBVIOUS

(* They are what a number is made of. *)
LEMMA DivisionIsExact ==
    ASSUME NEW v \in Nat, NEW q \in Nat \ {0}
    PROVE  /\ v \div q \in Nat /\ v % q \in 0 .. q - 1
           /\ v = (v \div q) * q + (v % q)
  <1>1. v \div q \in Nat /\ v % q \in 0 .. q - 1
    OBVIOUS
  <1>2. v = (v \div q) * q + (v % q)
    <2>1. v = q * (v \div q) + (v % q)
      OBVIOUS
    <2>2. q * (v \div q) = (v \div q) * q
      BY <1>1
    <2>3. QED
      BY <1>1, <2>1, <2>2
  <1>3. QED
    BY <1>1, <1>2

(* A digit is worth less than one more of what comes before it. *)
LEMMA OneDigitMore ==
    ASSUME NEW a \in Nat, NEW b \in Nat, NEW p \in Nat, NEW d \in 0 .. b - 1, a < p
    PROVE  a * b + d < b * p
  <1>1. (a + 1) * b <= p * b
    OBVIOUS
  <1>2. (a + 1) * b = a * b + b /\ p * b = b * p
    OBVIOUS
  <1>3. a * b \in Nat /\ b * p \in Nat /\ p * b \in Nat
    OBVIOUS
  <1>4. QED
    BY <1>1, <1>2, <1>3

(* Dividing by a product is dividing twice. *)
LEMMA DivideTwice ==
    ASSUME NEW v \in Nat, NEW b \in Nat \ {0}, NEW q \in Nat \ {0}
    PROVE  v \div (b * q) = (v \div q) \div b
  <1> DEFINE a == v \div q
             c == a \div b
             r == (a % b) * q + (v % q)
  <1>1. a \in Nat /\ v % q \in 0 .. q - 1 /\ v = a * q + (v % q)
    BY DivisionIsExact
  <1>2. c \in Nat /\ a % b \in 0 .. b - 1 /\ a = c * b + (a % b)
    BY <1>1, DivisionIsExact
  <1> HIDE DEF a, c
  <1>3. v = c * (b * q) + r
    <2> DEFINE d == a % b
    <2> HIDE DEF d
    <2>1. a * q = c * b * q + d * q
      <3>1. d \in Nat /\ a = c * b + d
        BY <1>2 DEF d
      <3>2. QED
        BY <1>2, <3>1
    <2>2. c * b * q = c * (b * q)
      BY <1>2
    <2>3. QED
      BY <1>1, <1>2, <2>1, <2>2 DEF d
  <1>4. r \in 0 .. b * q - 1
    <2>1. (a % b) * q <= (b - 1) * q
      BY <1>2
    <2>2. (b - 1) * q = b * q - q
      OBVIOUS
    <2>3. (a % b) * q \in Nat /\ b * q \in Nat
      BY <1>2
    <2>4. QED
      BY <1>1, <2>1, <2>2, <2>3
  <1>5. QED
    <2>1. b * q \in Nat
      OBVIOUS
    <2>2. (c * (b * q) + r) \div (b * q) = c
      BY <1>2, <1>4, <2>1, QuotientAndRemainder
    <2>3. QED
      BY <1>3, <2>2 DEF a, c
=============================================================================
