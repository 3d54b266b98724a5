----------------------------- MODULE Induction ------------------------------
(***************************************************************************)
(* Induction without an operator as a parameter, which the theorems of the *)
(* library about it take.  What holds of the indices, of the parts of a    *)
(* set or of the values of a recursive function is stated as a set, or a   *)
(* relation, that holds all of them.  All of it rests on one fact: among   *)
(* the parts of a finite set, the proper part is a well-founded relation.  *)
(***************************************************************************)
EXTENDS Integers, Sequences, FiniteSetTheorems, WellFoundedInduction, TLAPS

(* A set of subsets of a finite set has a smallest.                        *)
LEMMA Smallest ==
  ASSUME NEW S, IsFiniteSet(S), NEW F \in SUBSET (SUBSET S), F # {}
  PROVE  \E x \in F : \A y \in F : y \subseteq x => y = x
<1>1. IsWellFoundedOn(StrictSubsetOrdering(S), SUBSET S)
  BY FS_StrictSubsetOrderingWellFounded, FS_FiniteSubsetsOfFinite, Zenon
<1>2. PICK x \in F : \A y \in F : ~(<<y, x>> \in StrictSubsetOrdering(S))
  BY <1>1, WFMin, Zenon
<1> QED BY <1>2 DEF StrictSubsetOrdering

(* A set of numbers has a least.                                           *)
LEMMA Least ==
  ASSUME NEW T \in SUBSET Nat, T # {}
  PROVE  \E m \in T : \A x \in T : m <= x
<1>1. PICK n \in T : TRUE
  OBVIOUS
<1> DEFINE All == 0 .. n
           Below == {0 .. x : x \in {y \in T : y <= n}}
<1>2. IsFiniteSet(All)
  BY <1>1, FS_Interval
<1>3. Below \in SUBSET (SUBSET All) /\ Below # {}
  BY <1>1
<1> HIDE DEF Below, All
<1>4. PICK b \in Below : \A y \in Below : y \subseteq b => y = b
  BY <1>2, <1>3, Smallest
<1>5. PICK m \in T : m <= n /\ b = 0 .. m
  BY <1>4 DEF Below
<1>6. ASSUME NEW x \in T, x < m PROVE FALSE
  <2>1. 0 .. x \in Below
    BY <1>1, <1>5, <1>6 DEF Below
  <2>2. 0 .. x \subseteq 0 .. m /\ m \in 0 .. m /\ m \notin 0 .. x
    BY <1>6
  <2> QED BY <1>4, <1>5, <2>1, <2>2
<1>7. \A x \in T : m <= x
  BY <1>6
<1> QED BY <1>7

(* What is in a set of parts of a finite set with nothing, and with an     *)
(* element more of each of its parts, is the whole.                        *)
LEMMA ByParts ==
  ASSUME NEW S, IsFiniteSet(S), NEW G \in SUBSET (SUBSET S), {} \in G,
         \A T \in G : \A x \in S \ T : T \cup {x} \in G
  PROVE  S \in G
<1> SUFFICES ASSUME S \notin G PROVE FALSE
  OBVIOUS
<1> DEFINE Rest == {S \ T : T \in G}
<1>1. Rest \in SUBSET (SUBSET S)
  OBVIOUS
<1>2. S \ {} \in Rest
  OBVIOUS
<1> HIDE DEF Rest
<1>3. PICK r \in Rest : \A y \in Rest : y \subseteq r => y = r
  BY <1>1, <1>2, Smallest
<1>4. PICK T \in G : r = S \ T
  BY <1>3 DEF Rest
<1>5. PICK z \in S : z \notin T
  BY <1>4
<1>6. S \ (T \cup {z}) \in Rest
  BY <1>4, <1>5 DEF Rest
<1> QED BY <1>3, <1>4, <1>5, <1>6

(* What is in a set of numbers with 0 and, up to n, with the next of each, *)
(* is all of them.                                                         *)
LEMMA Upwards ==
  ASSUME NEW n \in Nat, NEW G, 0 \in G, \A i \in 0 .. n - 1 : i \in G => i + 1 \in G
  PROVE  \A i \in 0 .. n : i \in G
<1> SUFFICES ASSUME NEW j \in 0 .. n, j \notin G PROVE FALSE
  OBVIOUS
<1> DEFINE B == {i \in 0 .. n : i \notin G}
           F == {0 .. i : i \in B}
           All == 0 .. n
<1>1. IsFiniteSet(All)
  BY FS_Interval
<1>2. F \in SUBSET (SUBSET All) /\ F # {}
  OBVIOUS
<1> HIDE DEF F, All
<1>3. PICK x \in F : \A y \in F : y \subseteq x => y = x
  BY <1>1, <1>2, Smallest
<1> USE DEF F
<1>4. PICK i \in B : x = 0 .. i
  BY <1>3
<1>5. i # 0
  OBVIOUS
<1>6. i - 1 \notin B
  <2> SUFFICES ASSUME i - 1 \in B PROVE FALSE
    OBVIOUS
  <2>1. 0 .. (i - 1) \subseteq 0 .. i /\ i \in 0 .. i /\ i \notin 0 .. (i - 1)
    OBVIOUS
  <2>2. 0 .. (i - 1) \in F
    OBVIOUS
  <2> QED BY <1>3, <1>4, <2>1, <2>2
<1> QED BY <1>5, <1>6

(* A function that is told by its value at 0 and by each of its steps.     *)
IsStep(step, n, B)       == \A i \in 1 .. n, c \in B : step[<<i, c>>] \in B
IsRecursive(f, b, step, n) == f[0] = b /\ \A i \in 1 .. n : f[i] = step[<<i, f[i - 1]>>]

(* Such a function exists, and its values are in B if every step stays in  *)
(* B.                                                                      *)
LEMMA Recursion ==
  ASSUME NEW n \in Nat, NEW B, NEW b \in B, NEW step, IsStep(step, n, B)
  PROVE  \E f \in [0 .. n -> B] : IsRecursive(f, b, step, n)
<1> USE DEF IsStep, IsRecursive
<1> DEFINE Is(f, k) == f \in [0 .. k -> B] /\ f[0] = b
                       /\ \A i \in 1 .. k : f[i] = step[<<i, f[i - 1]>>]
           G == {k \in 0 .. n : \E f : Is(f, k)}
<1>1. 0 \in G
  <2>1. Is([i \in 0 .. 0 |-> b], 0)
    OBVIOUS
  <2> HIDE DEF Is
  <2>2. \E f : Is(f, 0)
    BY <2>1, Zenon
  <2> QED BY <2>2
<1>2. ASSUME NEW k \in 0 .. n - 1, k \in G PROVE k + 1 \in G
  <2>1. PICK f : Is(f, k)
    BY <1>2
  <2> DEFINE g == [i \in 0 .. k + 1 |-> IF i = k + 1 THEN step[<<k + 1, f[k]>>] ELSE f[i]]
  <2>2. f[k] \in B /\ step[<<k + 1, f[k]>>] \in B
    BY <2>1
  <2>3. g \in [0 .. k + 1 -> B] /\ g[0] = b
    BY <2>1, <2>2
  <2>4. \A i \in 1 .. k + 1 : g[i] = step[<<i, g[i - 1]>>]
    <3> SUFFICES ASSUME NEW i \in 1 .. k + 1 PROVE g[i] = step[<<i, g[i - 1]>>]
      OBVIOUS
    <3>1. i - 1 \in 0 .. k /\ g[i - 1] = f[i - 1]
      OBVIOUS
    <3>2. CASE i = k + 1
      <4>1. g[i] = step[<<k + 1, f[k]>>] /\ i - 1 = k
        BY <3>2
      <4> QED BY <3>1, <3>2, <4>1
    <3>3. CASE i # k + 1
      <4>1. i \in 1 .. k /\ g[i] = f[i]
        BY <3>3
      <4> QED BY <2>1, <3>1, <4>1
    <3> QED BY <3>2, <3>3
  <2>5. Is(g, k + 1)
    BY <2>3, <2>4
  <2> HIDE DEF Is, g
  <2>6. \E h : Is(h, k + 1)
    BY <2>5, Zenon
  <2> QED BY <2>6
<1> HIDE DEF G
<1>3. n \in G
  BY <1>1, <1>2, Upwards
<1> QED BY <1>3 DEF G

-----------------------------------------------------------------------------
(* Sequences, element by element.                                          *)

(* With one more at its end.                                               *)
LEMMA Appended ==
  ASSUME NEW S, NEW c \in Seq(S), NEW x
  PROVE  /\ Len(Append(c, x)) = Len(c) + 1 /\ Append(c, x)[Len(c) + 1] = x
         /\ \A j \in 1 .. Len(c) : Append(c, x)[j] = c[j]
OBVIOUS

(* Without the first of its elements.                                      *)
LEMMA SubSeqOf ==
  ASSUME NEW S, NEW s \in Seq(S), NEW n \in 0 .. Len(s)
  PROVE  /\ SubSeq(s, n + 1, Len(s)) \in Seq(S)
         /\ Len(SubSeq(s, n + 1, Len(s))) = Len(s) - n
         /\ \A i \in 1 .. Len(s) - n : SubSeq(s, n + 1, Len(s))[i] = s[n + i]
OBVIOUS

(* Without the first: the same elements, one place earlier.                *)
LEMMA TailOf ==
  ASSUME NEW S, NEW s \in Seq(S), s # <<>>
  PROVE  /\ Tail(s) \in Seq(S) /\ Len(s) \in Nat \ {0} /\ Len(Tail(s)) = Len(s) - 1
         /\ Head(s) \in S /\ Head(s) = s[1]
         /\ \A i \in 1 .. Len(s) - 1 : Tail(s)[i] = s[i + 1]
OBVIOUS
=============================================================================
