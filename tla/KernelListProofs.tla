-------------------------- MODULE KernelListProofs --------------------------
(***************************************************************************)
(* What the list and timer operators of Kernel compute, for any tasks,     *)
(* priorities and delays, the inductive invariant of Kernel, which divides *)
(* the tasks among the lists, and what moving a task from one list to      *)
(* another does to it: lemmas for KernelStepProofs and KernelProofs.       *)
(***************************************************************************)
EXTENDS Kernel, FiniteSetTheorems, TLAPS

-----------------------------------------------------------------------------
(* Induction over the natural numbers, from the well-foundedness of strict *)
(* inclusion: intervals from 0 are included as their ends are ordered.     *)

(* Every non-empty set of natural numbers has a least element.             *)
LEMMA Least ==
  ASSUME NEW T, T \subseteq Nat, T # {}
  PROVE  \E x \in T : \A y \in T : x <= y
<1> DEFINE Upto == {0..n : n \in T}
           R == StrictSubsetOrdering(Nat)
           F == FiniteSubsetsOf(Nat)
<1>1. IsWellFoundedOn(R, F)
  BY FS_StrictSubsetOrderingWellFounded
<1>2. Upto \subseteq F /\ Upto # {}
  <2>1. \A n \in T : IsFiniteSet(0..n) /\ 0..n \subseteq Nat
    BY FS_Interval
  <2> QED
    BY <2>1, Zenon DEF FiniteSubsetsOf
<1> HIDE DEF F
<1>3. \E x \in Upto : \A y \in Upto : ~(<<y, x>> \in R)
  <2> HIDE DEF Upto, R
  <2> QED
    BY <1>1, <1>2, WFMin
<1>4. PICK n \in T : \A y \in Upto : ~(<<y, 0..n>> \in R)
  BY <1>3
<1>5. \A m \in T : n <= m
  <2> SUFFICES ASSUME NEW m \in T, ~(n <= m) PROVE FALSE
    OBVIOUS
  <2>1. 0..m \subseteq 0..n /\ 0..m # 0..n
    <3>1. n \notin 0..m /\ n \in 0..n
      OBVIOUS
    <3>2. 0..m \subseteq 0..n
      OBVIOUS
    <3> QED
      BY <3>1, <3>2
  <2>2. 0..m \in SUBSET Nat /\ 0..n \in SUBSET Nat /\ 0..m \in Upto
    OBVIOUS
  <2>3. <<0..m, 0..n>> \in R
    BY <2>1, <2>2 DEF StrictSubsetOrdering
  <2> QED
    BY <2>2, <2>3, <1>4, Zenon
<1> QED
  BY <1>5

(* The least element of a set, as FiniteSetsExt defines it.                *)
LEMMA MinLeast ==
  ASSUME NEW T, T \subseteq Nat, T # {}
  PROVE  Min(T) \in T /\ \A y \in T : Min(T) <= y
<1>1. \E x \in T : \A y \in T : x <= y
  BY Least, Zenon
<1> QED
  BY <1>1, Zenon DEF Min

(* Induction, with a set of numbers in the place of a predicate.           *)
LEMMA Induction ==
  ASSUME NEW S, 0 \in S, \A n \in Nat : n \in S => n + 1 \in S
  PROVE  Nat \subseteq S
<1> DEFINE T == {n \in Nat : n \notin S}
<1> SUFFICES ASSUME T # {} PROVE FALSE
  OBVIOUS
<1>1. PICK x \in T : \A y \in T : x <= y
  <2> T \subseteq Nat
    OBVIOUS
  <2> HIDE DEF T
  <2> QED
    BY Least, Zenon
<1>2. x # 0 /\ x \in Nat /\ x - 1 \in Nat
  OBVIOUS
<1>3. (x - 1) + 1 \in S
  BY <1>1, <1>2
<1> QED
  BY <1>2, <1>3

(* f is the recursive function of the numbers up to N that starts with a   *)
(* and goes on with g, which takes the previous value and the number.      *)
Recurs(f, A, a, N, g) ==
  /\ f \in [0..N -> A] /\ f[0] = a
  /\ \A n \in 1..N : f[n] = g[<<f[n - 1], n>>]

(* Such a function exists.                                                 *)
LEMMA Recursion ==
  ASSUME NEW A, NEW a \in A, NEW N \in Nat, NEW g \in [A \X (1..N) -> A]
  PROVE  \E f : Recurs(f, A, a, N, g)
<1> DEFINE Good(f, k) == /\ f \in [0..k -> A] /\ f[0] = a
                         /\ \A n \in 1..k : f[n] = g[<<f[n - 1], n>>]
           S == {k \in Nat : k <= N => \E f : Good(f, k)}
<1>1. 0 \in S
  <2> DEFINE f == [n \in 0..0 |-> a]
  <2>1. Good(f, 0)
    OBVIOUS
  <2> QED
    BY <2>1, Zenon
<1>2. ASSUME NEW k \in Nat, k \in S
      PROVE  k + 1 \in S
  <2> SUFFICES ASSUME k + 1 <= N PROVE \E f : Good(f, k + 1)
    OBVIOUS
  <2>1. PICK f : Good(f, k)
    BY <1>2
  <2> DEFINE h == [n \in 0..(k + 1) |-> IF n = k + 1 THEN g[<<f[k], k + 1>>] ELSE f[n]]
  <2>2. f[k] \in A /\ k + 1 \in 1..N
    BY <2>1
  <2>3. h \in [0..(k + 1) -> A] /\ h[0] = a
    BY <2>1, <2>2
  <2>4. ASSUME NEW n \in 1..(k + 1)
        PROVE  h[n] = g[<<h[n - 1], n>>]
    <3>1. CASE n = k + 1
      <4>1. h[n] = g[<<f[k], k + 1>>] /\ h[n - 1] = f[k]
        BY <3>1
      <4> QED
        BY <3>1, <4>1, Zenon
    <3>2. CASE n # k + 1
      <4>1. n \in 1..k /\ h[n] = f[n] /\ h[n - 1] = f[n - 1]
        BY <3>2
      <4> QED
        BY <2>1, <4>1
    <3> QED
      BY <3>1, <3>2
  <2> HIDE DEF h
  <2> QED
    BY <2>3, <2>4
<1>3. N \in S
  <2>1. 0 \in S /\ \A n \in Nat : n \in S => n + 1 \in S
    BY <1>1, <1>2, Zenon
  <2> HIDE DEF S
  <2> QED
    BY <2>1, Induction
<1> QED
  BY <1>3 DEF Recurs

-----------------------------------------------------------------------------
(* Lists. *)

(* A function on 1..n is a list of length n.                               *)
LEMMA FunctionIsList ==
  ASSUME NEW S, NEW n \in Nat, NEW f \in [1..n -> S]
  PROVE  f \in Seq(S) /\ Len(f) = n /\ DOMAIN f = 1..n
  OBVIOUS

(* The entries of a list, of a part of it and of two lists joined.         *)
LEMMA ListEntries ==
  ASSUME NEW S, NEW list \in Seq(S)
  PROVE  /\ Len(list) \in Nat /\ DOMAIN list = 1..Len(list)
         /\ list \in [1..Len(list) -> S]
         /\ \A i \in 1..Len(list) : list[i] \in S
         /\ <<>> \in Seq(S) /\ (Len(list) = 0 <=> list = <<>>)
  OBVIOUS

LEMMA ListPart ==
  ASSUME NEW S, NEW list \in Seq(S), NEW m \in Int, NEW n \in Int,
         \A i \in m..n : list[i] \in S
  PROVE  /\ SubSeq(list, m, n) \in Seq(S)
         /\ Len(SubSeq(list, m, n)) = (IF m <= n THEN n - m + 1 ELSE 0)
         /\ \A i \in 1..(n - m + 1) : SubSeq(list, m, n)[i] = list[m + i - 1]
  OBVIOUS

LEMMA ListJoin ==
  ASSUME NEW S, NEW one \in Seq(S), NEW two \in Seq(S)
  PROVE  /\ one \o two \in Seq(S) /\ Len(one \o two) = Len(one) + Len(two)
         /\ \A i \in 1..(Len(one) + Len(two)) :
              (one \o two)[i] = IF i <= Len(one) THEN one[i] ELSE two[i - Len(one)]
  OBVIOUS

(* What a list holds after an element is put at position i.                *)
LEMMA Inserted ==
  ASSUME NEW S, NEW s \in Seq(S), NEW e \in S, NEW i \in 1..(Len(s) + 1)
  PROVE  /\ InsertAt(s, i, e) \in Seq(S)
         /\ Len(InsertAt(s, i, e)) = Len(s) + 1
         /\ InsertAt(s, i, e)[i] = e
         /\ \A j \in 1..(i - 1) : InsertAt(s, i, e)[j] = s[j]
         /\ \A j \in i..Len(s) : InsertAt(s, i, e)[j + 1] = s[j]
<1> DEFINE a == SubSeq(s, 1, i - 1)
           b == SubSeq(s, i, Len(s))
<1>1. Len(s) \in Nat /\ \A j \in 1..Len(s) : s[j] \in S
  BY ListEntries
<1>2. /\ a \in Seq(S) /\ Len(a) = i - 1
      /\ \A j \in 1..(i - 1) : a[j] = s[j]
  BY <1>1, ListPart
<1>3. /\ b \in Seq(S) /\ Len(b) = Len(s) - i + 1
      /\ \A j \in 1..(Len(s) - i + 1) : b[j] = s[i + j - 1]
  BY <1>1, ListPart
<1>4. <<e>> \in Seq(S) /\ Len(<<e>>) = 1 /\ <<e>>[1] = e
  OBVIOUS
<1> HIDE DEF a, b
<1> DEFINE c == a \o <<e>>
<1>5. /\ c \in Seq(S) /\ Len(c) = i
      /\ \A j \in 1..i : c[j] = IF j < i THEN s[j] ELSE e
  <2>1. /\ c \in Seq(S) /\ Len(c) = Len(a) + Len(<<e>>)
        /\ \A j \in 1..(Len(a) + Len(<<e>>)) :
             c[j] = IF j <= Len(a) THEN a[j] ELSE <<e>>[j - Len(a)]
    BY <1>2, <1>4, ListJoin
  <2> HIDE DEF c
  <2>2. Len(a) = i - 1 /\ Len(a) + Len(<<e>>) = i
    BY <1>1, <1>2, <1>4
  <2>3. ASSUME NEW j \in 1..i PROVE c[j] = IF j < i THEN s[j] ELSE e
    <3>1. c[j] = IF j <= Len(a) THEN a[j] ELSE <<e>>[j - Len(a)]
      BY <2>1, <2>2, Zenon
    <3>2. CASE j < i
      BY <1>1, <1>2, <2>2, <3>1, <3>2
    <3>3. CASE j = i
      <4>1. ~(j <= Len(a)) /\ j - Len(a) = 1 /\ ~(j < i)
        BY <1>1, <2>2, <3>3
      <4> QED
        BY <1>4, <3>1, <4>1
    <3>4. j < i \/ j = i
      BY <1>1
    <3> QED
      BY <3>2, <3>3, <3>4
  <2> QED
    BY <2>1, <2>2, <2>3
<1> HIDE DEF c
<1>6. /\ c \o b \in Seq(S) /\ Len(c \o b) = Len(c) + Len(b)
      /\ \A j \in 1..(Len(c) + Len(b)) :
           (c \o b)[j] = IF j <= Len(c) THEN c[j] ELSE b[j - Len(c)]
  BY <1>3, <1>5, ListJoin
<1>7. InsertAt(s, i, e) = c \o b
  BY DEF InsertAt, a, b, c
<1>8. ASSUME NEW j \in i..Len(s)
      PROVE  (c \o b)[j + 1] = s[j]
  <2>1. j + 1 \in 1..(Len(c) + Len(b)) /\ ~(j + 1 <= Len(c))
    BY <1>1, <1>3, <1>5
  <2>2. (c \o b)[j + 1] = b[j + 1 - i]
    BY <1>5, <1>6, <2>1
  <2>3. j + 1 - i \in 1..(Len(s) - i + 1) /\ i + (j + 1 - i) - 1 = j
    BY <1>1
  <2> QED
    BY <1>3, <2>2, <2>3
<1>9. \A j \in 1..i : (c \o b)[j] = c[j]
  BY <1>1, <1>3, <1>5, <1>6
<1>10. (c \o b)[i] = e /\ \A j \in 1..(i - 1) : (c \o b)[j] = s[j]
  BY <1>1, <1>5, <1>9
<1>11. Len(c) + Len(b) = Len(s) + 1
  BY <1>1, <1>3, <1>5
<1> QED
  BY <1>6, <1>7, <1>8, <1>10, <1>11, Zenon

(* What a list holds after the element at position i is taken out.         *)
LEMMA Removed ==
  ASSUME NEW S, NEW s \in Seq(S), NEW i \in 1..Len(s)
  PROVE  /\ RemoveAt(s, i) \in Seq(S)
         /\ Len(RemoveAt(s, i)) = Len(s) - 1
         /\ \A j \in 1..(i - 1) : RemoveAt(s, i)[j] = s[j]
         /\ \A j \in (i + 1)..Len(s) : RemoveAt(s, i)[j - 1] = s[j]
<1> DEFINE a == SubSeq(s, 1, i - 1)
           b == SubSeq(s, i + 1, Len(s))
<1>1. Len(s) \in Nat /\ \A j \in 1..Len(s) : s[j] \in S
  BY ListEntries
<1>2. /\ a \in Seq(S) /\ Len(a) = i - 1
      /\ \A j \in 1..(i - 1) : a[j] = s[j]
  BY <1>1, ListPart
<1>3. /\ b \in Seq(S) /\ Len(b) = Len(s) - i
      /\ \A j \in 1..(Len(s) - i) : b[j] = s[i + j]
  <2>1. /\ b \in Seq(S)
        /\ Len(b) = IF i + 1 <= Len(s) THEN Len(s) - (i + 1) + 1 ELSE 0
        /\ \A j \in 1..(Len(s) - (i + 1) + 1) : b[j] = s[(i + 1) + j - 1]
    BY <1>1, ListPart
  <2> HIDE DEF b
  <2>2. Len(b) = Len(s) - i
    BY <1>1, <2>1
  <2>3. ASSUME NEW j \in 1..(Len(s) - i) PROVE b[j] = s[i + j]
    <3>1. j \in 1..(Len(s) - (i + 1) + 1) /\ (i + 1) + j - 1 = i + j
      BY <1>1
    <3> QED
      BY <2>1, <3>1, Zenon
  <2> QED
    BY <2>1, <2>2, <2>3, Zenon
<1> HIDE DEF a, b
<1>4. /\ a \o b \in Seq(S) /\ Len(a \o b) = Len(a) + Len(b)
      /\ \A j \in 1..(Len(a) + Len(b)) :
           (a \o b)[j] = IF j <= Len(a) THEN a[j] ELSE b[j - Len(a)]
  BY <1>2, <1>3, ListJoin, Zenon
<1>5. RemoveAt(s, i) = a \o b
  BY DEF RemoveAt, a, b
<1>6. Len(a) + Len(b) = Len(s) - 1
  BY <1>1, <1>2, <1>3
<1>7. \A j \in 1..(i - 1) : (a \o b)[j] = s[j]
  BY <1>1, <1>2, <1>4, <1>6
<1>8. ASSUME NEW j \in (i + 1)..Len(s)
      PROVE  (a \o b)[j - 1] = s[j]
  <2>1. j - 1 \in 1..(Len(a) + Len(b)) /\ ~(j - 1 <= Len(a))
    BY <1>1, <1>2, <1>6
  <2>2. (a \o b)[j - 1] = b[j - i]
    <3>1. j - 1 - (i - 1) = j - i
      BY <1>1
    <3> QED
      BY <1>2, <1>4, <2>1, <3>1
  <2>3. j - i \in 1..(Len(s) - i) /\ i + (j - i) = j
    BY <1>1
  <2> QED
    BY <1>3, <2>2, <2>3
<1> QED
  BY <1>4, <1>5, <1>6, <1>7, <1>8

(* Where AddPrioritized puts a task: behind those of its own or a higher   *)
(* priority, before the first one of a lower priority.                     *)
LEMMA Place ==
  ASSUME NEW list \in Seq(All), NEW t \in All
  PROVE  \E p \in 1..(Len(list) + 1) :
           /\ AddPrioritized(list, t) = InsertAt(list, p, t)
           /\ \A j \in 1..(p - 1) : Priority[list[j]] >= Priority[t]
           /\ p <= Len(list) => Priority[list[p]] < Priority[t]
<1> DEFINE lower == {i \in 1..Len(list) : Priority[list[i]] < Priority[t]}
<1>1. Len(list) \in Nat /\ \A j \in 1..Len(list) : Priority[list[j]] \in Nat
  BY KernelAssumption, ListEntries
<1>2. Priority[t] \in Nat
  BY KernelAssumption
<1>3. CASE lower = {}
  <2>1. AddPrioritized(list, t) = InsertAt(list, Len(list) + 1, t)
    BY <1>3 DEF AddPrioritized
  <2>2. \A j \in 1..Len(list) : Priority[list[j]] >= Priority[t]
    BY <1>1, <1>2, <1>3
  <2> QED
    BY <1>1, <2>1, <2>2
<1>4. CASE lower # {}
  <2> DEFINE p == Min(lower)
  <2>1. AddPrioritized(list, t) = InsertAt(list, p, t)
    BY <1>4 DEF AddPrioritized
  <2>2. lower \subseteq Nat
    OBVIOUS
  <2>3. p \in lower /\ \A j \in lower : p <= j
    <3> HIDE DEF lower
    <3> QED
      BY <1>4, <2>2, MinLeast, Zenon
  <2> HIDE DEF p
  <2>4. \A j \in 1..(p - 1) : Priority[list[j]] >= Priority[t]
    BY <1>1, <1>2, <2>3
  <2> QED
    BY <1>1, <2>1, <2>3, <2>4
<1> QED
  BY <1>3, <1>4

(* The lists of tasks: sorted by priority, each task at most once.         *)
Sorted(list) ==
  \A i, j \in 1..Len(list) : i < j => Priority[list[i]] >= Priority[list[j]]

Once(list) == \A i, j \in 1..Len(list) : list[i] = list[j] => i = j

TaskList(list) == list \in Seq(All) /\ Sorted(list) /\ Once(list)

(* The members of a list are its elements.                                 *)
LEMMA Members ==
  ASSUME NEW S, NEW list \in Seq(S)
  PROVE  /\ Range(list) = {list[i] : i \in 1..Len(list)}
         /\ Range(list) \subseteq S
         /\ Len(list) \in Nat
         /\ list = <<>> <=> Len(list) = 0
         /\ \A x : x \in Range(list) <=> \E i \in 1..Len(list) : list[i] = x
<1>1. DOMAIN list = 1..Len(list) /\ Len(list) \in Nat
  BY ListEntries
<1>2. \A i \in 1..Len(list) : list[i] \in S
  BY ListEntries
<1>3. Range(list) = {list[i] : i \in 1..Len(list)}
  BY <1>1 DEF Range
<1>4. list = <<>> <=> Len(list) = 0
  BY ListEntries
<1> QED
  BY <1>1, <1>2, <1>3, <1>4

(* A task that is added is a member, and nothing else changes.             *)
LEMMA Added ==
  ASSUME NEW list, TaskList(list), NEW t \in All, t \notin Range(list)
  PROVE  /\ TaskList(AddPrioritized(list, t))
         /\ Range(AddPrioritized(list, t)) = Range(list) \cup {t}
         /\ Len(AddPrioritized(list, t)) = Len(list) + 1
         /\ AddPrioritized(list, t)[1] =
              IF list = <<>> \/ Priority[list[1]] < Priority[t] THEN t ELSE list[1]
<1> DEFINE new == AddPrioritized(list, t)
<1>0. list \in Seq(All) /\ Sorted(list) /\ Once(list)
  BY DEF TaskList
<1>1. PICK p \in 1..(Len(list) + 1) :
           /\ new = InsertAt(list, p, t)
           /\ \A j \in 1..(p - 1) : Priority[list[j]] >= Priority[t]
           /\ p <= Len(list) => Priority[list[p]] < Priority[t]
  BY <1>0, Place
<1>2. /\ new \in Seq(All) /\ Len(new) = Len(list) + 1 /\ new[p] = t
      /\ \A j \in 1..(p - 1) : new[j] = list[j]
      /\ \A j \in p..Len(list) : new[j + 1] = list[j]
  <2> HIDE DEF new
  <2>1. new = InsertAt(list, p, t)
    BY <1>1
  <2> QED
    <3>1. /\ InsertAt(list, p, t) \in Seq(All) /\ Len(InsertAt(list, p, t)) = Len(list) + 1
          /\ InsertAt(list, p, t)[p] = t
          /\ \A j \in 1..(p - 1) : InsertAt(list, p, t)[j] = list[j]
          /\ \A j \in p..Len(list) : InsertAt(list, p, t)[j + 1] = list[j]
      BY ONLY <1>0, t \in All, p \in 1..(Len(list) + 1), Inserted
    <3> QED
      BY <2>1, <3>1, Zenon
<1>3. /\ Len(list) \in Nat /\ Priority[t] \in Nat
      /\ \A j \in 1..Len(list) : Priority[list[j]] \in Nat
  BY <1>0, KernelAssumption, ListEntries
<1>4. \A j \in p..Len(list) : Priority[list[j]] < Priority[t]
  <2> SUFFICES ASSUME NEW j \in p..Len(list) PROVE Priority[list[j]] < Priority[t]
    OBVIOUS
  <2>1. p \in 1..Len(list) /\ j \in 1..Len(list)
    BY <1>3
  <2>2. p < j => Priority[list[p]] >= Priority[list[j]]
    BY <1>0, <2>1 DEF Sorted
  <2> QED
    BY <1>1, <1>3, <2>1, <2>2
<1> HIDE DEF new
<1>10. /\ \A x \in 1..(p - 1) : x \in 1..Len(list) /\ new[x] = list[x]
       /\ \A x \in (p + 1)..(Len(list) + 1) :
            x - 1 \in 1..Len(list) /\ new[x] = list[x - 1]
  <2>1. \A x \in 1..(p - 1) : x \in 1..Len(list)
    BY <1>3
  <2>2. ASSUME NEW x \in (p + 1)..(Len(list) + 1)
        PROVE  x - 1 \in 1..Len(list) /\ new[x] = list[x - 1]
    <3>1. x - 1 \in p..Len(list) /\ (x - 1) + 1 = x
      BY <1>3
    <3> QED
      BY <1>2, <1>3, <3>1
  <2> QED
    BY <1>2, <2>1, <2>2
<1>5. Sorted(new)
  <2> SUFFICES ASSUME NEW i \in 1..Len(new), NEW j \in 1..Len(new), i < j
               PROVE  Priority[new[i]] >= Priority[new[j]]
    BY DEF Sorted
  <2>1. \A x, y \in 1..Len(list) : x < y => Priority[list[x]] >= Priority[list[y]]
    BY <1>0 DEF Sorted
  <2>2. CASE j < p
    <3>1. /\ i \in 1..Len(list) /\ new[i] = list[i]
          /\ j \in 1..Len(list) /\ new[j] = list[j]
      <4>1. i \in 1..(p - 1) /\ j \in 1..(p - 1)
        BY <1>2, <1>3, <2>2
      <4> QED
        BY <1>10, <4>1, Zenon
    <3> QED
      BY <2>1, <3>1
  <2>3. CASE j = p
    <3>1. i \in 1..(p - 1) /\ new[j] = t
      BY <1>2, <1>3, <2>3
    <3>2. new[i] = list[i] /\ Priority[list[i]] >= Priority[t]
      BY <1>1, <1>10, <3>1
    <3> QED
      BY <3>1, <3>2
  <2>4. CASE j > p /\ i = p
    <3>1. new[i] = t /\ new[j] = list[j - 1] /\ j - 1 \in p..Len(list)
      BY <1>2, <1>3, <2>4
    <3>2. Priority[new[j]] < Priority[t]
      BY <1>4, <3>1
    <3>3. Priority[new[j]] \in Nat
      BY <1>3, <3>1
    <3> QED
      BY <3>1, <3>2, <3>3, <1>3
  <2>5. CASE j > p /\ i < p
    <3>1. /\ i \in 1..Len(list) /\ new[i] = list[i]
          /\ j - 1 \in 1..Len(list) /\ new[j] = list[j - 1] /\ i < j - 1
      <4>1. i \in 1..(p - 1) /\ j \in (p + 1)..(Len(list) + 1) /\ i < j - 1
        BY <1>2, <1>3, <2>5
      <4> QED
        BY <1>10, <4>1, Zenon
    <3> QED
      BY <2>1, <3>1
  <2>6. CASE j > p /\ i > p
    <3>1. /\ i - 1 \in 1..Len(list) /\ new[i] = list[i - 1]
          /\ j - 1 \in 1..Len(list) /\ new[j] = list[j - 1] /\ i - 1 < j - 1
      <4>1. /\ i \in (p + 1)..(Len(list) + 1) /\ j \in (p + 1)..(Len(list) + 1)
            /\ i - 1 < j - 1
        BY <1>2, <1>3, <2>6
      <4> QED
        BY <1>10, <4>1, Zenon
    <3> QED
      BY <2>1, <3>1
  <2> QED
    BY <1>2, <1>3, <2>2, <2>3, <2>4, <2>5, <2>6
<1>6. \A j \in 1..Len(list) : list[j] # t
  BY <1>0, Members
<1>7. Once(new)
  <2> SUFFICES ASSUME NEW i \in 1..Len(new), NEW j \in 1..Len(new), new[i] = new[j]
               PROVE  i = j
    BY DEF Once
  <2>1. \A x, y \in 1..Len(list) : list[x] = list[y] => x = y
    BY <1>0 DEF Once
  <2>2. \A x \in 1..Len(new) : x # p => new[x] # t
    <3> SUFFICES ASSUME NEW x \in 1..Len(new), x # p PROVE new[x] # t
      OBVIOUS
    <3>1. x \in 1..(p - 1) \/ x \in (p + 1)..(Len(list) + 1)
      BY <1>2, <1>3
    <3> QED
      BY <1>6, <1>10, <3>1, Zenon
  <2>7. CASE i = p \/ j = p
    BY <1>2, <2>2, <2>7, Zenon
  <2>3. CASE i < p /\ j < p
    BY <1>10, <2>1, <2>3
  <2>4. CASE i > p /\ j > p
    <3>1. /\ i - 1 \in 1..Len(list) /\ new[i] = list[i - 1]
          /\ j - 1 \in 1..Len(list) /\ new[j] = list[j - 1]
      <4>1. i \in (p + 1)..(Len(list) + 1) /\ j \in (p + 1)..(Len(list) + 1)
        BY <1>2, <1>3, <2>4
      <4> QED
        BY <1>10, <4>1, Zenon
    <3>2. i - 1 = j - 1
      BY <2>1, <3>1
    <3> QED
      BY <3>2
  <2>5. CASE i < p /\ j > p
    <3>1. i \in 1..Len(list) /\ j - 1 \in 1..Len(list) /\ list[i] = list[j - 1]
      <4>1. i \in 1..(p - 1) /\ j \in (p + 1)..(Len(list) + 1)
        BY <1>2, <1>3, <2>5
      <4> QED
        BY <1>10, <4>1, Zenon
    <3> QED
      BY <2>1, <2>5, <3>1
  <2>6. CASE i > p /\ j < p
    <3>1. j \in 1..Len(list) /\ i - 1 \in 1..Len(list) /\ list[j] = list[i - 1]
      <4>1. j \in 1..(p - 1) /\ i \in (p + 1)..(Len(list) + 1)
        BY <1>2, <1>3, <2>6
      <4> QED
        BY <1>10, <4>1, Zenon
    <3> QED
      BY <2>1, <2>6, <3>1
  <2> QED
    BY <1>2, <1>3, <2>7, <2>3, <2>4, <2>5, <2>6
<1>8. Range(new) = Range(list) \cup {t}
  <2>1. \A x : x \in Range(new) <=> \E i \in 1..Len(new) : new[i] = x
    BY <1>2, Members
  <2>2. \A x : x \in Range(list) <=> \E i \in 1..Len(list) : list[i] = x
    BY <1>0, Members
  <2>3. ASSUME NEW x \in Range(new)
        PROVE  x \in Range(list) \cup {t}
    <3>1. PICK i \in 1..Len(new) : new[i] = x
      BY <2>1, <2>3
    <3>2. CASE i = p
      BY <1>2, <3>1, <3>2
    <3>3. CASE i < p
      BY <1>2, <1>10, <2>2, <3>1, <3>3
    <3>4. CASE i > p
      <4>1. i - 1 \in 1..Len(list) /\ list[i - 1] = x
        BY <1>2, <1>10, <3>1, <3>4
      <4> QED
        BY <2>2, <4>1
    <3> QED
      BY <1>2, <1>3, <3>2, <3>3, <3>4
  <2>4. t \in Range(new)
    BY <1>2, <1>3, <2>1
  <2>5. ASSUME NEW x \in Range(list)
        PROVE  x \in Range(new)
    <3>1. PICK i \in 1..Len(list) : list[i] = x
      BY <2>2, <2>5
    <3>2. CASE i < p
      <4>1. new[i] = x /\ i \in 1..Len(new)
        BY <1>2, <1>3, <3>1, <3>2
      <4> QED
        BY <4>1, <2>1
    <3>3. CASE ~(i < p)
      <4>1. new[i + 1] = x /\ i + 1 \in 1..Len(new)
        BY <1>2, <1>3, <3>1, <3>3
      <4> QED
        BY <4>1, <2>1
    <3> QED
      BY <3>2, <3>3
  <2> QED
    BY <2>3, <2>4, <2>5
<1>9. new[1] = IF list = <<>> \/ Priority[list[1]] < Priority[t] THEN t ELSE list[1]
  <2>1. list = <<>> <=> Len(list) = 0
    BY <1>0, Members
  <2>2. CASE p = 1
    <3>1. new[1] = t
      BY <1>2, <1>3, <2>2
    <3>2. Len(list) # 0 => Priority[list[1]] < Priority[t]
      BY <1>1, <1>3, <2>2
    <3> QED
      BY <3>1, <3>2, <2>1
  <2>3. CASE p # 1
    <3>1. new[1] = list[1] /\ Len(list) # 0
      BY <1>2, <1>3, <2>3
    <3>2. Priority[list[1]] >= Priority[t]
      BY <1>1, <2>3
    <3> QED
      BY <1>3, <3>1, <3>2, <2>1
  <2> QED
    BY <2>2, <2>3
<1> QED
  BY <1>2, <1>5, <1>7, <1>8, <1>9 DEF TaskList, new

(* AddPrioritized makes a list of tasks into one.                          *)
LEMMA AddedType ==
  ASSUME NEW list \in Seq(All), NEW t \in All
  PROVE  AddPrioritized(list, t) \in Seq(All)
<1>1. PICK p \in 1..(Len(list) + 1) : AddPrioritized(list, t) = InsertAt(list, p, t)
  BY Place
<1>2. InsertAt(list, p, t) \in Seq(All)
  BY Inserted
<1> QED
  BY <1>1, <1>2

(* Merge is one insertion after the other.                                 *)
LEMMA MergeDef ==
  ASSUME NEW list \in Seq(All), NEW joining \in Seq(All)
  PROVE  \E m : /\ m[0] = list
                /\ \A n \in 1..Len(joining) :
                     m[n] = AddPrioritized(m[n - 1], joining[n])
                /\ Merge(list, joining) = m[Len(joining)]
<1> DEFINE N == Len(joining)
           A == Seq(All)
           g == [p \in A \X (1..N) |-> AddPrioritized(p[1], joining[p[2]])]
           Step(m) == [n \in 0..N |->
                         IF n = 0 THEN list ELSE AddPrioritized(m[n - 1], joining[n])]
<1>1. N \in Nat /\ \A n \in 1..N : joining[n] \in All
  BY ListEntries
<1>2. g \in [A \X (1..N) -> A]
  <2> SUFFICES ASSUME NEW p \in A \X (1..N)
               PROVE  AddPrioritized(p[1], joining[p[2]]) \in A
    OBVIOUS
  <2>1. p[1] \in A /\ joining[p[2]] \in All
    BY <1>1
  <2> QED
    BY <2>1, AddedType, Zenon
<1>3. \E f : Recurs(f, A, list, N, g)
  <2> HIDE DEF g, N, A
  <2>1. list \in A
    BY DEF A
  <2> QED
    BY <1>1, <1>2, <2>1, Recursion, Zenon
<1>4. PICK f \in [0..N -> A] :
        f[0] = list /\ \A n \in 1..N : f[n] = g[<<f[n - 1], n>>]
  BY <1>3, Zenon DEF Recurs
<1>5. ASSUME NEW n \in 1..N
      PROVE  f[n] = AddPrioritized(f[n - 1], joining[n])
  <2>1. n - 1 \in 0..N
    BY <1>1
  <2>2. f[n - 1] \in A
    BY <1>4, <2>1
  <2>3. <<f[n - 1], n>> \in A \X (1..N)
    BY <2>2
  <2> QED
    BY <1>4, <2>3, Zenon
<1>6. f = Step(f)
  <2> DEFINE v == Step(f)
  <2>1. \A n \in 0..N : f[n] = v[n]
    BY <1>1, <1>4, <1>5
  <2>2. f = [n \in 0..N |-> f[n]] /\ v = [n \in 0..N |-> v[n]]
    BY <1>4
  <2> HIDE DEF v
  <2>3. f = v
    BY <2>1, <2>2
  <2> QED
    BY <2>3, Zenon DEF v
<1> DEFINE c == CHOOSE m : m = Step(m)
<1>7. c = Step(c)
  BY <1>6, Zenon
<1>8. Merge(list, joining) = c[N]
  BY DEF Merge
<1>9. c[0] = list /\ \A n \in 1..N : c[n] = AddPrioritized(c[n - 1], joining[n])
  <2> HIDE DEF c
  <2>1. 0 \in 0..N /\ \A n \in 1..N : n \in 0..N /\ n # 0
    BY <1>1
  <2> QED
    BY <1>7, <2>1
<1> QED
  BY <1>8, <1>9, Zenon

(* A merged list holds the tasks of both, sorted.                          *)
LEMMA Merged ==
  ASSUME NEW list, TaskList(list), NEW joining \in Seq(All), Once(joining),
         Range(list) \cap Range(joining) = {}
  PROVE  /\ TaskList(Merge(list, joining))
         /\ Range(Merge(list, joining)) = Range(list) \cup Range(joining)
<1>1. list \in Seq(All)
  BY DEF TaskList
<1>2. PICK m : /\ m[0] = list
               /\ \A n \in 1..Len(joining) :
                    m[n] = AddPrioritized(m[n - 1], joining[n])
               /\ Merge(list, joining) = m[Len(joining)]
  BY <1>1, MergeDef
<1> DEFINE First(n) == {joining[i] : i \in 1..n}
           S == {n \in Nat : n <= Len(joining) =>
                               TaskList(m[n]) /\ Range(m[n]) = Range(list) \cup First(n)}
<1>3. /\ Len(joining) \in Nat /\ Range(joining) = First(Len(joining))
      /\ \A i \in 1..Len(joining) : joining[i] \in All /\ joining[i] \in Range(joining)
  BY Members, ListEntries
<1>4. 0 \in S
  <2>1. First(0) = {}
    OBVIOUS
  <2> QED
    BY <1>2, <2>1
<1>5. ASSUME NEW n \in Nat, n \in S
      PROVE  n + 1 \in S
  <2> SUFFICES ASSUME n + 1 <= Len(joining)
               PROVE  TaskList(m[n + 1]) /\ Range(m[n + 1]) = Range(list) \cup First(n + 1)
    OBVIOUS
  <2> DEFINE t == joining[n + 1]
  <2>1. n + 1 \in 1..Len(joining) /\ (n + 1) - 1 = n
    BY <1>3
  <2>2. TaskList(m[n]) /\ Range(m[n]) = Range(list) \cup First(n)
    BY <1>3, <1>5
  <2>3. m[n + 1] = AddPrioritized(m[n], t)
    BY <1>2, <2>1
  <2>4. t \in All /\ t \notin Range(list)
    BY <1>3, <2>1
  <2>5. t \notin First(n)
    <3> SUFFICES ASSUME NEW i \in 1..n, joining[i] = t PROVE FALSE
      OBVIOUS
    <3>1. i \in 1..Len(joining) /\ i # n + 1
      BY <1>3
    <3> QED
      BY <2>1, <3>1 DEF Once
  <2>6. First(n + 1) = First(n) \cup {t}
    <3>1. 1..(n + 1) = (1..n) \cup {n + 1}
      OBVIOUS
    <3> QED
      BY <3>1
  <2> HIDE DEF First, t
  <2>7. t \notin Range(m[n])
    BY <2>2, <2>4, <2>5
  <2>8. /\ TaskList(AddPrioritized(m[n], t))
        /\ Range(AddPrioritized(m[n], t)) = Range(m[n]) \cup {t}
    BY <2>2, <2>4, <2>7, Added
  <2> QED
    BY <2>2, <2>3, <2>6, <2>8
<1>6. Len(joining) \in S
  <2>1. 0 \in S /\ \A n \in Nat : n \in S => n + 1 \in S
    BY <1>4, <1>5
  <2> HIDE DEF S
  <2> QED
    BY <1>3, <2>1, Induction
<1> QED
  BY <1>2, <1>3, <1>6

(* The first element of a list is taken out.                               *)
LEMMA TailList ==
  ASSUME NEW list, TaskList(list), list # <<>>
  PROVE  /\ TaskList(Tail(list)) /\ Head(list) = list[1]
         /\ Range(Tail(list)) = Range(list) \ {Head(list)}
<1>1. /\ list \in Seq(All) /\ Len(list) \in Nat \ {0}
      /\ \A i, j \in 1..Len(list) : i < j => Priority[list[i]] >= Priority[list[j]]
      /\ \A i, j \in 1..Len(list) : list[i] = list[j] => i = j
  BY ListEntries DEF TaskList, Sorted, Once
<1>2. /\ Tail(list) \in Seq(All) /\ Len(Tail(list)) = Len(list) - 1
      /\ \A i \in 1..Len(Tail(list)) : Tail(list)[i] = list[i + 1]
  BY <1>1
<1>3. Head(list) = list[1]
  BY <1>1
<1>4. \A i \in 1..Len(Tail(list)) : i + 1 \in 1..Len(list)
  BY <1>1, <1>2
<1>5. Sorted(Tail(list)) /\ Once(Tail(list))
  BY <1>1, <1>2, <1>4 DEF Sorted, Once
<1>6. /\ \A x : x \in Range(list) <=> \E i \in 1..Len(list) : list[i] = x
      /\ \A x : x \in Range(Tail(list)) <=> \E i \in 1..Len(Tail(list)) : Tail(list)[i] = x
  BY <1>1, <1>2, Members, Zenon
<1>7. ASSUME NEW x \in Range(Tail(list))
      PROVE  x \in Range(list) \ {Head(list)}
  <2>1. PICK i \in 1..Len(Tail(list)) : Tail(list)[i] = x
    BY <1>6, <1>7
  <2>2. x = list[i + 1] /\ i + 1 \in 1..Len(list) /\ 1 \in 1..Len(list) /\ i + 1 # 1
    BY <1>1, <1>2, <1>4, <2>1
  <2> QED
    BY <1>1, <1>3, <1>6, <2>2
<1>8. ASSUME NEW x \in Range(list) \ {Head(list)}
      PROVE  x \in Range(Tail(list))
  <2>1. PICK i \in 1..Len(list) : list[i] = x
    BY <1>6, <1>8
  <2>2. i # 1
    BY <1>3, <1>8, <2>1
  <2>3. i - 1 \in 1..Len(Tail(list)) /\ (i - 1) + 1 = i
    BY <1>1, <1>2, <2>2
  <2>4. Tail(list)[i - 1] = x
    BY <1>2, <2>1, <2>3
  <2> QED
    BY <1>6, <2>3, <2>4, Zenon
<1> QED
  BY <1>2, <1>3, <1>5, <1>7, <1>8 DEF TaskList

(* A task is taken out of a list.                                          *)
LEMMA TakenOut ==
  ASSUME NEW list, TaskList(list), NEW t \in Range(list)
  PROVE  /\ TaskList(RemoveFirst(list, t))
         /\ Range(RemoveFirst(list, t)) = Range(list) \ {t}
<1> DEFINE I == {i \in 1..Len(list) : list[i] = t}
           p == Min(I)
           new == RemoveAt(list, p)
<1>1. /\ list \in Seq(All) /\ Len(list) \in Nat
      /\ \A i, j \in 1..Len(list) : i < j => Priority[list[i]] >= Priority[list[j]]
      /\ \A i, j \in 1..Len(list) : list[i] = list[j] => i = j
  BY ListEntries DEF TaskList, Sorted, Once
<1>2. \E i \in 1..Len(list) : list[i] = t
  BY <1>1, Members
<1>3. p \in 1..Len(list) /\ list[p] = t
  <2>1. I \subseteq Nat /\ I # {}
    BY <1>2
  <2> HIDE DEF I
  <2>2. p \in I
    BY <2>1, MinLeast, Zenon
  <2> QED
    BY <2>2 DEF I
<1>4. RemoveFirst(list, t) = new
  BY DEF RemoveFirst
<1> HIDE DEF p
<1>5. /\ new \in Seq(All) /\ Len(new) = Len(list) - 1
      /\ \A j \in 1..(p - 1) : new[j] = list[j]
      /\ \A j \in (p + 1)..Len(list) : new[j - 1] = list[j]
  BY <1>1, <1>3, Removed, Zenon
<1> HIDE DEF new
<1>6. /\ \A j \in 1..(p - 1) : j \in 1..Len(list) /\ new[j] = list[j]
      /\ \A j \in p..(Len(list) - 1) : j + 1 \in 1..Len(list) /\ new[j] = list[j + 1]
  <2>1. \A j \in 1..(p - 1) : j \in 1..Len(list)
    BY <1>1, <1>3
  <2>2. ASSUME NEW j \in p..(Len(list) - 1)
        PROVE  j + 1 \in 1..Len(list) /\ new[j] = list[j + 1]
    <3>1. j + 1 \in (p + 1)..Len(list) /\ (j + 1) - 1 = j
      BY <1>1, <1>3
    <3> QED
      BY <1>1, <1>3, <1>5, <3>1
  <2> QED
    BY <1>5, <2>1, <2>2
<1> DEFINE old(j) == IF j < p THEN j ELSE j + 1
<1>7. \A j \in 1..Len(new) : old(j) \in 1..Len(list) /\ new[j] = list[old(j)] /\ old(j) # p
  BY <1>1, <1>3, <1>5, <1>6
<1>8. \A i, j \in 1..Len(new) : (i < j => old(i) < old(j)) /\ (old(i) = old(j) => i = j)
  BY <1>1, <1>3, <1>5
<1> HIDE DEF old
<1>9. Sorted(new) /\ Once(new)
  BY <1>1, <1>7, <1>8, Zenon DEF Sorted, Once
<1>10. /\ \A x : x \in Range(list) <=> \E i \in 1..Len(list) : list[i] = x
       /\ \A x : x \in Range(new) <=> \E i \in 1..Len(new) : new[i] = x
  BY <1>1, <1>5, Members
<1>11. ASSUME NEW x \in Range(new)
       PROVE  x \in Range(list) \ {t}
  <2>1. PICK j \in 1..Len(new) : new[j] = x
    BY <1>10
  <2>2. old(j) \in 1..Len(list) /\ x = list[old(j)] /\ old(j) # p
    BY <1>7, <2>1
  <2>3. x # t
    BY <1>1, <1>3, <2>2
  <2> QED
    BY <1>10, <2>2, <2>3
<1>12. ASSUME NEW x \in Range(list) \ {t}
       PROVE  x \in Range(new)
  <2>1. PICK i \in 1..Len(list) : list[i] = x
    BY <1>10
  <2>2. i # p
    BY <1>3, <2>1
  <2>3. CASE i < p
    <3>1. i \in 1..Len(new) /\ new[i] = x
      BY <1>3, <1>5, <2>1, <2>3
    <3> QED
      BY <1>10, <3>1
  <2>4. CASE i > p
    <3>1. i - 1 \in 1..Len(new) /\ new[i - 1] = x
      BY <1>3, <1>5, <2>1, <2>4
    <3> QED
      BY <1>10, <3>1
  <2> QED
    BY <1>3, <2>2, <2>3, <2>4
<1> QED
  BY <1>4, <1>5, <1>9, <1>11, <1>12 DEF TaskList

-----------------------------------------------------------------------------
(* The list of watchdog timers. *)

Timer == [dog : Dogs, func : {"sig_timeout", "sem_timeout", "polltimer"}, lag : Nat]

(* Lags are not negative and no timer is in the list twice.                *)
DogList(list) ==
  /\ list \in Seq(Timer)
  /\ \A i, j \in 1..Len(list) : list[i].dog = list[j].dog => i = j

(* Due adds up the lags.                                                   *)
LEMMA DueDef ==
  ASSUME NEW list \in Seq(Timer)
  PROVE  /\ Due(list, 0) = 0
         /\ \A i \in 0..Len(list) : Due(list, i) \in Nat
         /\ \A i \in 1..Len(list) : Due(list, i) = Due(list, i - 1) + list[i].lag
<1> DEFINE N == Len(list)
           g == [p \in Nat \X (1..N) |-> p[1] + list[p[2]].lag]
           Step(m) == [n \in 0..N |-> IF n = 0 THEN 0 ELSE m[n - 1] + list[n].lag]
<1>1. N \in Nat /\ \A n \in 1..N : list[n].lag \in Nat
  <2>1. N \in Nat /\ \A n \in 1..N : list[n] \in Timer
    BY ListEntries
  <2> QED
    BY <2>1 DEF Timer
<1>2. g \in [Nat \X (1..N) -> Nat]
  BY <1>1
<1>3. \E f : Recurs(f, Nat, 0, N, g)
  <2> HIDE DEF g, N
  <2> QED
    BY <1>1, <1>2, Recursion, Zenon
<1>4. PICK f \in [0..N -> Nat] :
        f[0] = 0 /\ \A n \in 1..N : f[n] = g[<<f[n - 1], n>>]
  BY <1>3, Zenon DEF Recurs
<1>5. ASSUME NEW n \in 1..N
      PROVE  f[n] = f[n - 1] + list[n].lag
  <2>1. n - 1 \in 0..N
    BY <1>1
  <2>2. f[n - 1] \in Nat
    BY <1>4, <2>1
  <2>3. <<f[n - 1], n>> \in Nat \X (1..N)
    BY <2>2
  <2> QED
    BY <1>4, <2>3, Zenon
<1>6. f = Step(f)
  <2> DEFINE v == Step(f)
  <2>1. \A n \in 0..N : f[n] = v[n]
    BY <1>1, <1>4, <1>5
  <2>2. f = [n \in 0..N |-> f[n]] /\ v = [n \in 0..N |-> v[n]]
    BY <1>4
  <2> HIDE DEF v
  <2>3. f = v
    BY <2>1, <2>2
  <2> QED
    BY <2>3, Zenon DEF v
<1> DEFINE c == CHOOSE m : m = Step(m)
<1>7. c = Step(c)
  BY <1>6, Zenon
<1>8. \A i \in 0..N : Due(list, i) = c[i]
  BY DEF Due
<1>9. c[0] = 0 /\ \A n \in 1..N : c[n] = c[n - 1] + list[n].lag
  <2> HIDE DEF c
  <2>1. 0 \in 0..N /\ \A n \in 1..N : n \in 0..N /\ n # 0
    BY <1>1
  <2> QED
    BY <1>7, <2>1
<1> HIDE DEF c
<1> DEFINE S == {n \in Nat : n <= N => c[n] \in Nat}
<1>10. \A n \in 0..N : c[n] \in Nat
  <2>1. 0 \in S
    BY <1>9
  <2>2. ASSUME NEW n \in Nat, n \in S PROVE n + 1 \in S
    <3> SUFFICES ASSUME n + 1 <= N PROVE c[n + 1] \in Nat
      OBVIOUS
    <3>1. n + 1 \in 1..N /\ (n + 1) - 1 = n
      BY <1>1
    <3>2. c[n + 1] = c[n] + list[n + 1].lag
      BY <1>9, <3>1
    <3> QED
      BY <1>1, <2>2, <3>1, <3>2
  <2>3. Nat \subseteq S
    <3> HIDE DEF S
    <3> QED
      BY <2>1, <2>2, Induction
  <2> QED
    BY <1>1, <2>3
<1>11. 0 \in 0..N /\ \A i \in 1..N : i \in 0..N /\ i - 1 \in 0..N
  BY <1>1
<1>12. Due(list, 0) = 0 /\ \A i \in 0..N : Due(list, i) \in Nat
  BY <1>8, <1>9, <1>10, <1>11
<1>13. ASSUME NEW i \in 1..N
       PROVE  Due(list, i) = Due(list, i - 1) + list[i].lag
  <2>1. Due(list, i) = c[i] /\ Due(list, i - 1) = c[i - 1]
    BY <1>8, <1>11
  <2> QED
    BY <1>9, <2>1
<1> QED
  BY <1>12, <1>13

(* A later timer in the list is due no earlier.                            *)
LEMMA DueGrows ==
  ASSUME NEW list \in Seq(Timer)
  PROVE  \A i, j \in 0..Len(list) : i <= j => Due(list, i) <= Due(list, j)
<1>1. Len(list) \in Nat /\ \A n \in 1..Len(list) : list[n].lag \in Nat
  <2>1. Len(list) \in Nat /\ \A n \in 1..Len(list) : list[n] \in Timer
    BY ListEntries
  <2> QED
    BY <2>1 DEF Timer
<1> SUFFICES ASSUME NEW i \in 0..Len(list)
             PROVE  \A j \in 0..Len(list) : i <= j => Due(list, i) <= Due(list, j)
  OBVIOUS
<1> DEFINE S == {n \in Nat : i + n <= Len(list) => Due(list, i) <= Due(list, i + n)}
<1>2. Due(list, i) \in Nat
  BY DueDef
<1>3. 0 \in S
  <2>1. i + 0 = i
    BY <1>1
  <2> QED
    BY <1>2, <2>1
<1>4. ASSUME NEW n \in Nat, n \in S
      PROVE  n + 1 \in S
  <2> SUFFICES ASSUME i + (n + 1) <= Len(list)
               PROVE  Due(list, i) <= Due(list, i + (n + 1))
    OBVIOUS
  <2>1. /\ i + (n + 1) \in 1..Len(list) /\ (i + (n + 1)) - 1 = i + n
        /\ i + n \in 0..Len(list) /\ i + n <= Len(list)
    BY <1>1
  <2>2. Due(list, i + (n + 1)) = Due(list, i + n) + list[i + (n + 1)].lag
    BY <2>1, DueDef
  <2>3. Due(list, i) <= Due(list, i + n) /\ Due(list, i + n) \in Nat
    BY <1>4, <2>1, DueDef
  <2>4. list[i + (n + 1)].lag \in Nat
    BY <1>1, <2>1
  <2> QED
    BY <1>2, <2>2, <2>3, <2>4
<1>5. Nat \subseteq S
  <2> HIDE DEF S
  <2> QED
    BY <1>3, <1>4, Induction
<1> SUFFICES ASSUME NEW j \in 0..Len(list), i <= j
             PROVE  Due(list, i) <= Due(list, j)
  OBVIOUS
<1>6. j - i \in Nat /\ i + (j - i) = j /\ j <= Len(list)
  BY <1>1
<1>7. j - i \in S
  <2> HIDE DEF S
  <2> QED
    BY <1>5, <1>6
<1> QED
  BY <1>6, <1>7

(* Two lists with the same m lags behind positions a and b, c ticks apart  *)
(* there, go on in step.                                                   *)
InStep(one, two, a, b, m, c) ==
  /\ one \in Seq(Timer) /\ two \in Seq(Timer)
  /\ a \in Nat /\ b \in Nat /\ m \in Nat /\ c \in Int
  /\ a + m <= Len(one) /\ b + m <= Len(two)
  /\ \A j \in 1..m : two[b + j].lag = one[a + j].lag
  /\ Due(two, b) = Due(one, a) + c

LEMMA DueInStep ==
  ASSUME NEW one, NEW two, NEW a, NEW b, NEW m, NEW c,
         InStep(one, two, a, b, m, c)
  PROVE  \A j \in 0..m : Due(two, b + j) = Due(one, a + j) + c
<1> USE DEF InStep
<1>1. Len(one) \in Nat /\ Len(two) \in Nat
  BY ListEntries
<1> DEFINE S == {n \in Nat : n <= m => Due(two, b + n) = Due(one, a + n) + c}
<1>2. 0 \in S
  <2>1. a + 0 = a /\ b + 0 = b
    BY <1>1
  <2> QED
    BY <2>1
<1>3. ASSUME NEW n \in Nat, n \in S
      PROVE  n + 1 \in S
  <2> SUFFICES ASSUME n + 1 <= m
               PROVE  Due(two, b + (n + 1)) = Due(one, a + (n + 1)) + c
    OBVIOUS
  <2>1. /\ a + (n + 1) \in 1..Len(one) /\ (a + (n + 1)) - 1 = a + n
        /\ b + (n + 1) \in 1..Len(two) /\ (b + (n + 1)) - 1 = b + n
        /\ n + 1 \in 1..m /\ n <= m /\ a + n \in 0..Len(one)
    BY <1>1
  <2>2. /\ Due(one, a + (n + 1)) = Due(one, a + n) + one[a + (n + 1)].lag
        /\ Due(two, b + (n + 1)) = Due(two, b + n) + two[b + (n + 1)].lag
    BY <2>1, DueDef
  <2>3. Due(two, b + n) = Due(one, a + n) + c
    BY <1>3, <2>1
  <2>4. Due(one, a + n) \in Nat
    BY <2>1, DueDef
  <2>5. one[a + (n + 1)].lag \in Nat /\ two[b + (n + 1)].lag = one[a + (n + 1)].lag
    <3>1. one[a + (n + 1)] \in Timer
      BY <2>1, ListEntries
    <3>2. one[a + (n + 1)].lag \in Nat
      BY <3>1, Zenon DEF Timer
    <3> QED
      BY <2>1, <3>2, Zenon
  <2>6. PICK x \in Nat, y \in Nat : x = Due(one, a + n) /\ y = one[a + (n + 1)].lag
    BY <2>4, <2>5, Zenon
  <2>7. (x + c) + y = (x + y) + c
    OBVIOUS
  <2> QED
    BY <2>2, <2>3, <2>5, <2>6, <2>7, Zenon
<1>4. Nat \subseteq S
  <2> HIDE DEF S
  <2> QED
    BY <1>2, <1>3, Induction, Zenon
<1> QED
  BY <1>4

(* Lists that begin with the same lags are due at the same times there.    *)
LEMMA DuePrefix ==
  ASSUME NEW one \in Seq(Timer), NEW two \in Seq(Timer), NEW m \in Nat,
         m <= Len(one), m <= Len(two),
         \A j \in 1..m : two[j].lag = one[j].lag
  PROVE  \A j \in 0..m : Due(two, j) = Due(one, j)
<1> DEFINE z == 0
<1>1. z \in Nat /\ z \in Int /\ \A j \in 0..m : z + j = j
  OBVIOUS
<1>2. z + m <= Len(one) /\ z + m <= Len(two)
  OBVIOUS
<1>3. \A j \in 1..m : two[z + j].lag = one[z + j].lag
  OBVIOUS
<1>4. Due(two, z) = Due(one, z) + z
  BY DueDef
<1>5. \A j \in 0..m : Due(one, j) \in Nat
  <2>1. \A j \in 0..m : j \in 0..Len(one)
    BY ListEntries
  <2> QED
    BY <2>1, DueDef
<1>6. \A n \in Nat : n + z = n
  OBVIOUS
<1> HIDE DEF z
<1>7. InStep(one, two, z, z, m, z)
  BY <1>1, <1>2, <1>3, <1>4 DEF InStep
<1>8. \A j \in 0..m : Due(two, z + j) = Due(one, z + j) + z
  BY <1>7, DueInStep
<1> QED
  BY <1>1, <1>5, <1>6, <1>8, Zenon

(* What matters of the list to its users: which timers are on, what they   *)
(* call, and when they expire.                                             *)
Entries(list) == {<<list[i].dog, list[i].func>> : i \in 1..Len(list)}

LeftIn(list) ==
  [d \in Dogs |-> IF \E i \in 1..Len(list) : list[i].dog = d
                  THEN Due(list, CHOOSE i \in 1..Len(list) : list[i].dog = d)
                  ELSE -1]

(* The elements of a list of timers.                                       *)
LEMMA DogListType ==
  ASSUME NEW list \in Seq(Timer)
  PROVE  /\ Len(list) \in Nat /\ DOMAIN list = 1..Len(list)
         /\ list = <<>> <=> Len(list) = 0
         /\ \A i \in 1..Len(list) :
              /\ list[i] \in Timer
              /\ list[i].dog \in Dogs /\ list[i].lag \in Nat
              /\ list[i].func \in {"sig_timeout", "sem_timeout", "polltimer"}
<1>1. \A i \in 1..Len(list) : list[i] \in Timer
  BY ListEntries
<1>2. Len(list) \in Nat /\ DOMAIN list = 1..Len(list)
  BY ListEntries
<1>3. list = <<>> <=> Len(list) = 0
  BY Members
<1> QED
  BY <1>1, <1>2, <1>3 DEF Timer

(* The time left of a timer in the list is when it is due; off is -1.      *)
LEMMA LeftOfEntry ==
  ASSUME NEW list, DogList(list)
  PROVE  /\ \A i \in 1..Len(list) : LeftIn(list)[list[i].dog] = Due(list, i)
         /\ \A d \in Dogs : (\A i \in 1..Len(list) : list[i].dog # d)
                             => LeftIn(list)[d] = -1
         /\ \A d \in Dogs : LeftIn(list)[d] # -1
                             => \E i \in 1..Len(list) : list[i].dog = d
         /\ LeftIn(list) \in [Dogs -> Nat \cup {-1}]
<1>1. list \in Seq(Timer) /\ \A i, j \in 1..Len(list) : list[i].dog = list[j].dog => i = j
  BY DEF DogList
<1>2. ASSUME NEW i \in 1..Len(list)
      PROVE  LeftIn(list)[list[i].dog] = Due(list, i)
  <2> DEFINE d == list[i].dog
             k == CHOOSE j \in 1..Len(list) : list[j].dog = d
  <2>1. d \in Dogs
    BY <1>1, DogListType
  <2>2. k \in 1..Len(list) /\ list[k].dog = d
    OBVIOUS
  <2>3. k = i
    BY <1>1, <2>2
  <2>4. LeftIn(list)[d] = Due(list, k)
    BY <2>1 DEF LeftIn
  <2> QED
    BY <2>3, <2>4, Zenon
<1>3. ASSUME NEW d \in Dogs, \A i \in 1..Len(list) : list[i].dog # d
      PROVE  LeftIn(list)[d] = -1
  BY <1>3 DEF LeftIn
<1>4. ASSUME NEW d \in Dogs
      PROVE  LeftIn(list)[d] \in Nat \cup {-1}
  <2>1. CASE \A i \in 1..Len(list) : list[i].dog # d
    BY <1>3, <2>1
  <2>2. CASE \E i \in 1..Len(list) : list[i].dog = d
    <3>1. PICK i \in 1..Len(list) : list[i].dog = d
      BY <2>2
    <3>2. Due(list, i) \in Nat
      <4>1. i \in 0..Len(list)
        BY <1>1, DogListType
      <4> QED
        BY <1>1, <4>1, DueDef
    <3> QED
      BY <1>2, <3>1, <3>2
  <2> QED
    BY <2>1, <2>2
<1>5. LeftIn(list) \in [Dogs -> Nat \cup {-1}]
  BY <1>4 DEF LeftIn
<1> QED
  BY <1>2, <1>3, <1>5

(* One lag changes.                                                        *)
LEMMA LagSet ==
  ASSUME NEW list \in Seq(Timer), NEW i \in 1..Len(list), NEW v \in Nat, NEW new,
         new = [list EXCEPT ![i] = [@ EXCEPT !.lag = v]]
  PROVE  /\ new \in Seq(Timer) /\ Len(new) = Len(list)
         /\ new[i].lag = v
         /\ \A j \in 1..Len(list) : j # i => new[j] = list[j]
         /\ \A j \in 1..Len(list) : new[j].dog = list[j].dog /\ new[j].func = list[j].func
<1> DEFINE e == [list[i] EXCEPT !.lag = v]
<1>1. list[i] \in Timer
  BY DogListType
<1>2. /\ e \in Timer /\ e.lag = v
      /\ e.dog = list[i].dog /\ e.func = list[i].func
  BY <1>1, Zenon DEF Timer
<1> HIDE DEF e
<1>3. new = [list EXCEPT ![i] = e]
  BY DEF e
<1>4. /\ new \in Seq(Timer) /\ Len(new) = Len(list)
      /\ \A j \in 1..Len(list) : new[j] = IF j = i THEN e ELSE list[j]
  BY <1>2, <1>3
<1> QED
  BY <1>2, <1>4

(* The timers besides d are the same in both lists and due at the same     *)
(* time.                                                                   *)
Keeps(list, new, d) ==
  /\ \A j \in 1..Len(list) : list[j].dog # d =>
       \E k \in 1..Len(new) :
         /\ new[k].dog = list[j].dog /\ new[k].func = list[j].func
         /\ Due(new, k) = Due(list, j)
  /\ \A k \in 1..Len(new) : new[k].dog # d =>
       \E j \in 1..Len(list) :
         list[j].dog = new[k].dog /\ list[j].func = new[k].func

(* Then only the time left of d may differ.                                *)
LEMMA OthersUnmoved ==
  ASSUME NEW list, DogList(list), NEW new, DogList(new), NEW d \in Dogs,
         Keeps(list, new, d)
  PROVE  /\ LeftIn(new) = [LeftIn(list) EXCEPT ![d] = LeftIn(new)[d]]
         /\ {e \in Entries(new) : e[1] # d} = {e \in Entries(list) : e[1] # d}
<1>1. ASSUME NEW x \in Dogs, x # d
      PROVE  LeftIn(new)[x] = LeftIn(list)[x]
  <2>1. CASE \E j \in 1..Len(list) : list[j].dog = x
    <3>1. PICK j \in 1..Len(list) : list[j].dog = x
      BY <2>1
    <3>2. PICK k \in 1..Len(new) : new[k].dog = x /\ Due(new, k) = Due(list, j)
      BY <1>1, <3>1 DEF Keeps
    <3>3. LeftIn(list)[list[j].dog] = Due(list, j) /\ LeftIn(new)[new[k].dog] = Due(new, k)
      BY LeftOfEntry
    <3> QED
      BY <3>1, <3>2, <3>3
  <2>2. CASE \A j \in 1..Len(list) : list[j].dog # x
    <3>1. \A k \in 1..Len(new) : new[k].dog # x
      BY <1>1, <2>2 DEF Keeps
    <3> QED
      BY <2>2, <3>1, LeftOfEntry
  <2> QED
    BY <2>1, <2>2
<1>2. LeftIn(new) = [LeftIn(list) EXCEPT ![d] = LeftIn(new)[d]]
  <2> DEFINE v == [LeftIn(list) EXCEPT ![d] = LeftIn(new)[d]]
  <2>0. /\ LeftIn(list) \in [Dogs -> Nat \cup {-1}]
        /\ LeftIn(new) \in [Dogs -> Nat \cup {-1}]
    BY LeftOfEntry
  <2>1. \A x \in Dogs : LeftIn(new)[x] = v[x]
    BY <1>1, <2>0
  <2>2. LeftIn(new) = [x \in Dogs |-> LeftIn(new)[x]] /\ v = [x \in Dogs |-> v[x]]
    BY <2>0, Zenon
  <2> HIDE DEF v
  <2>3. LeftIn(new) = v
    BY <2>1, <2>2
  <2> QED
    BY <2>3 DEF v
<1>3. ASSUME NEW e \in Entries(list), e[1] # d
      PROVE  e \in Entries(new)
  <2>1. PICK j \in 1..Len(list) : e = <<list[j].dog, list[j].func>>
    BY <1>3 DEF Entries
  <2>2. PICK k \in 1..Len(new) : new[k].dog = list[j].dog /\ new[k].func = list[j].func
    BY <1>3, <2>1 DEF Keeps
  <2> QED
    BY <2>1, <2>2 DEF Entries
<1>4. ASSUME NEW e \in Entries(new), e[1] # d
      PROVE  e \in Entries(list)
  <2>1. PICK k \in 1..Len(new) : e = <<new[k].dog, new[k].func>>
    BY <1>4 DEF Entries
  <2>2. PICK j \in 1..Len(list) : list[j].dog = new[k].dog /\ list[j].func = new[k].func
    BY <1>4, <2>1 DEF Keeps
  <2> QED
    BY <2>1, <2>2 DEF Entries
<1> QED
  BY <1>2, <1>3, <1>4

(* A cancelled timer is off, and no other is moved.                        *)
LEMMA Cancelled ==
  ASSUME NEW list, DogList(list), NEW d \in Dogs
  PROVE  /\ DogList(WdCancel(list, d))
         /\ LeftIn(WdCancel(list, d)) = [LeftIn(list) EXCEPT ![d] = -1]
         /\ Entries(WdCancel(list, d)) = {e \in Entries(list) : e[1] # d}
<1> DEFINE I == {i \in 1..Len(list) : list[i].dog = d}
           p == IF I = {} THEN 0 ELSE Min(I)
           inherited == IF p = Len(list) THEN list
                        ELSE [list EXCEPT ![p + 1].lag = @ + list[p].lag]
           new == RemoveAt(inherited, p)
<1>1. /\ list \in Seq(Timer)
      /\ \A i, j \in 1..Len(list) : list[i].dog = list[j].dog => i = j
  BY DEF DogList
<1>2. /\ Len(list) \in Nat
      /\ \A i \in 1..Len(list) : list[i].dog \in Dogs /\ list[i].lag \in Nat
  BY <1>1, DogListType
<1>3. \/ p = 0 /\ \A i \in 1..Len(list) : list[i].dog # d
      \/ p \in 1..Len(list) /\ list[p].dog = d
  <2>1. I \subseteq Nat
    BY <1>2
  <2> HIDE DEF inherited, new
  <2>2. CASE I = {}
    BY <2>2
  <2>3. CASE I # {}
    <3>1. p = Min(I)
      BY <2>3
    <3> HIDE DEF I, p
    <3>2. p \in I
      BY <2>1, <2>3, <3>1, MinLeast, Zenon
    <3> QED
      BY <3>2 DEF I
  <2> QED
    BY <2>2, <2>3, Zenon
<1>4. WdCancel(list, d) = IF p = 0 THEN list ELSE new
  <2>1. CASE I = {}
    BY <2>1 DEF WdCancel
  <2>2. CASE I # {}
    <3>1. p = Min(I) /\ p # 0
      BY <1>2, <1>3, <2>2
    <3>2. Min(I) = p
      BY <3>1
    <3>3. WdCancel(list, d) = new
      BY <2>2, <3>2, Zenon DEF WdCancel
    <3> QED
      BY <3>1, <3>3
  <2> QED
    BY <2>1, <2>2, Zenon
<1> HIDE DEF p
<1>5. CASE p = 0
  <2>1. \A i \in 1..Len(list) : list[i].dog # d
    BY <1>2, <1>3, <1>5
  <2>2. WdCancel(list, d) = list
    BY <1>4, <1>5
  <2>3. LeftIn(list)[d] = -1 /\ LeftIn(list) \in [Dogs -> Nat \cup {-1}]
    BY <2>1, LeftOfEntry
  <2>4. LeftIn(list) = [LeftIn(list) EXCEPT ![d] = -1]
    BY <2>3
  <2>5. Entries(list) = {e \in Entries(list) : e[1] # d}
    BY <2>1 DEF Entries
  <2> QED
    BY <2>2, <2>4, <2>5
<1>6. CASE p # 0
  <2>1. p \in 1..Len(list) /\ list[p].dog = d
    BY <1>3, <1>6
  <2>2. /\ inherited \in Seq(Timer) /\ Len(inherited) = Len(list)
        /\ \A j \in 1..Len(list) : inherited[j].dog = list[j].dog
                                 /\ inherited[j].func = list[j].func
        /\ \A j \in 1..Len(list) : j # p + 1 => inherited[j] = list[j]
        /\ p < Len(list) => inherited[p + 1].lag = list[p + 1].lag + list[p].lag
    <3>1. CASE p = Len(list)
      BY <1>1, <1>2, <3>1
    <3>2. CASE p # Len(list)
      <4>1. p + 1 \in 1..Len(list) /\ list[p + 1].lag + list[p].lag \in Nat
        BY <1>2, <2>1, <3>2
      <4>2. inherited = [list EXCEPT ![p + 1] =
                           [@ EXCEPT !.lag = list[p + 1].lag + list[p].lag]]
        BY <3>2
      <4> HIDE DEF inherited
      <4> QED
        BY <1>1, <4>1, <4>2, LagSet
    <3> QED
      BY <3>1, <3>2
  <2> HIDE DEF inherited
  <2>3. /\ new \in Seq(Timer) /\ Len(new) = Len(list) - 1
        /\ \A j \in 1..(p - 1) : new[j] = inherited[j]
        /\ \A j \in (p + 1)..Len(list) : new[j - 1] = inherited[j]
    BY <2>1, <2>2, Removed
  <2> HIDE DEF new
  <2>4. \A j \in 1..(p - 1) : j \in 1..Len(new) /\ new[j] = list[j] /\ j \in 1..Len(list)
    BY <1>2, <2>1, <2>2, <2>3
  <2>5. \A j \in (p + 1)..Len(list) : /\ j \in 1..Len(list) /\ j - 1 \in 1..Len(new)
                                    /\ new[j - 1].dog = list[j].dog
                                    /\ new[j - 1].func = list[j].func
                                    /\ (j # p + 1 => new[j - 1].lag = list[j].lag)
    <3> SUFFICES ASSUME NEW j \in (p + 1)..Len(list)
                 PROVE  /\ j \in 1..Len(list) /\ j - 1 \in 1..Len(new)
                        /\ new[j - 1].dog = list[j].dog
                        /\ new[j - 1].func = list[j].func
                        /\ (j # p + 1 => new[j - 1].lag = list[j].lag)
      OBVIOUS
    <3>1. j \in 1..Len(list) /\ j - 1 \in 1..Len(new)
      BY <1>2, <2>1, <2>3
    <3>2. new[j - 1] = inherited[j]
      BY <2>3
    <3> QED
      BY <2>2, <3>1, <3>2
  <2>6. \A j \in 0..(p - 1) : Due(new, j) = Due(list, j)
    <3> DEFINE m == p - 1
    <3>1. m \in Nat /\ m <= Len(list) /\ m <= Len(new)
      BY <1>2, <2>1, <2>3
    <3>2. \A j \in 1..m : new[j].lag = list[j].lag
      BY <2>4
    <3> HIDE DEF m
    <3>3. \A j \in 0..m : Due(new, j) = Due(list, j)
      BY <1>1, <2>3, <3>1, <3>2, DuePrefix, Zenon
    <3> QED
      BY <3>3 DEF m
  <2>7. p < Len(list) => Due(new, p) = Due(list, p + 1)
    <3> SUFFICES ASSUME p < Len(list) PROVE Due(new, p) = Due(list, p + 1)
      OBVIOUS
    <3>1. /\ p \in 1..Len(new) /\ p - 1 \in 0..(p - 1)
          /\ p + 1 \in (p + 1)..Len(list) /\ p + 1 \in 1..Len(list)
          /\ (p + 1) - 1 = p
      BY <1>2, <2>1, <2>3
    <3>2. Due(new, p) = Due(new, p - 1) + new[p].lag
      BY <2>3, <3>1, DueDef
    <3>3. new[p].lag = list[p + 1].lag + list[p].lag
      BY <2>2, <2>3, <3>1
    <3>4. Due(list, p + 1) = Due(list, p) + list[p + 1].lag
      BY <1>1, <3>1, DueDef, Zenon
    <3>5. Due(list, p) = Due(list, p - 1) + list[p].lag
      BY <1>1, <2>1, DueDef
    <3>6. Due(list, p - 1) \in Nat
      <4>1. p - 1 \in 0..Len(list)
        BY <1>2, <2>1
      <4> QED
        BY <1>1, <4>1, DueDef
    <3>7. Due(new, p - 1) = Due(list, p - 1)
      BY <2>6, <3>1
    <3> QED
      BY <1>2, <2>1, <3>1, <3>2, <3>3, <3>4, <3>5, <3>6, <3>7
  <2>8. \A j \in (p + 1)..Len(list) : Due(new, j - 1) = Due(list, j)
    <3> SUFFICES ASSUME NEW j \in (p + 1)..Len(list)
                 PROVE  Due(new, j - 1) = Due(list, j)
      OBVIOUS
    <3> DEFINE a == p + 1
               m == Len(list) - a
    <3>1. /\ m \in Nat /\ a \in Nat /\ p \in Nat /\ p < Len(list)
          /\ a + m <= Len(list) /\ p + m <= Len(new)
      BY <1>2, <2>1, <2>3
    <3>2. \A k \in 1..m : new[p + k].lag = list[a + k].lag
      <4> SUFFICES ASSUME NEW k \in 1..m
                   PROVE  new[p + k].lag = list[a + k].lag
        OBVIOUS
      <4>1. a + k \in (p + 1)..Len(list) /\ a + k # p + 1 /\ (a + k) - 1 = p + k
        BY <1>2, <2>1
      <4> QED
        BY <2>5, <4>1
    <3>3. Due(new, p) = Due(list, a) + 0
      <4>1. Due(list, a) \in Nat
        <5>1. a \in 0..Len(list)
          BY <1>2, <2>1, <3>1
        <5> QED
          BY <1>1, <5>1, DueDef
      <4> QED
        BY <2>7, <3>1, <4>1
    <3>4. /\ j - a \in 0..m /\ p + (j - a) = j - 1
          /\ a + (j - a) = j /\ j \in 0..Len(list)
      <4>1. /\ j \in Int /\ p \in Int /\ p >= 1 /\ Len(list) \in Nat
            /\ p + 1 <= j /\ j <= Len(list)
        BY <1>2, <2>1
      <4> QED
        BY <4>1
    <3> HIDE DEF a, m
    <3>5. \A k \in 0..m : Due(new, p + k) = Due(list, a + k) + 0
      <4>a. list \in Seq(Timer) /\ new \in Seq(Timer) /\ 0 \in Int
        BY <1>1, <2>3
      <4>1. InStep(list, new, a, p, m, 0)
        BY ONLY <4>a, <3>1, <3>2, <3>3, Zenon DEF InStep
      <4> QED
        BY <4>1, DueInStep
    <3>6. Due(list, j) \in Nat
      BY <1>1, <3>4, DueDef
    <3>7. Due(new, j - 1) = Due(list, j) + 0
      BY <3>4, <3>5
    <3> QED
      BY <3>6, <3>7
  <2>9. Keeps(list, new, d)
    <3>1. ASSUME NEW j \in 1..Len(list), list[j].dog # d
          PROVE  \E k \in 1..Len(new) :
                   /\ new[k].dog = list[j].dog /\ new[k].func = list[j].func
                   /\ Due(new, k) = Due(list, j)
      <4>1. CASE j < p
        <5>1. j \in 1..(p - 1) /\ j \in 0..(p - 1)
          BY <2>1, <4>1
        <5> QED
          BY <2>4, <2>6, <5>1
      <4>2. CASE j > p
        <5>1. j \in (p + 1)..Len(list)
          BY <1>2, <2>1, <4>2
        <5> QED
          BY <2>5, <2>8, <5>1
      <4> QED
        BY <2>1, <3>1, <4>1, <4>2
    <3>2. ASSUME NEW k \in 1..Len(new), new[k].dog # d
          PROVE  \E j \in 1..Len(list) :
                   list[j].dog = new[k].dog /\ list[j].func = new[k].func
      <4>1. CASE k < p
        <5>1. k \in 1..(p - 1)
          BY <2>1, <4>1
        <5> QED
          BY <2>4, <5>1
      <4>2. CASE ~(k < p)
        <5>1. k + 1 \in (p + 1)..Len(list) /\ (k + 1) - 1 = k
          BY <1>2, <2>1, <2>3, <4>2
        <5> QED
          BY <2>5, <5>1
      <4> QED
        BY <4>1, <4>2
    <3> QED
      BY <3>1, <3>2 DEF Keeps
  <2> DEFINE old(k) == IF k < p THEN k ELSE k + 1
  <2>10. /\ \A k \in 1..Len(new) : /\ old(k) \in 1..Len(list) /\ old(k) # p
                                  /\ new[k].dog = list[old(k)].dog
         /\ \A i, k \in 1..Len(new) : old(i) = old(k) => i = k
    <3>1. ASSUME NEW k \in 1..Len(new)
          PROVE  /\ old(k) \in 1..Len(list) /\ old(k) # p
                 /\ new[k].dog = list[old(k)].dog
      <4>1. CASE k < p
        <5>1. k \in 1..(p - 1)
          BY <2>1, <4>1
        <5> QED
          BY <2>4, <4>1, <5>1, <2>1
      <4>2. CASE ~(k < p)
        <5>1. k + 1 \in (p + 1)..Len(list) /\ (k + 1) - 1 = k
          BY <1>2, <2>1, <2>3, <4>2
        <5> QED
          BY <2>5, <4>2, <5>1, <2>1
      <4> QED
        BY <4>1, <4>2
    <3>2. \A i, k \in 1..Len(new) : old(i) = old(k) => i = k
      BY <1>2, <2>1, <2>3
    <3> QED
      BY <3>1, <3>2
  <2> HIDE DEF old
  <2>11. DogList(new) /\ \A k \in 1..Len(new) : new[k].dog # d
    <3>1. ASSUME NEW i \in 1..Len(new), NEW k \in 1..Len(new), new[i].dog = new[k].dog
          PROVE  i = k
      <4>1. old(i) = old(k)
        BY <1>1, <2>10, <3>1
      <4> QED
        BY <2>10, <4>1
    <3>2. ASSUME NEW k \in 1..Len(new), new[k].dog = d
          PROVE  FALSE
      BY <1>1, <2>1, <2>10, <3>2
    <3> QED
      BY <2>3, <3>1, <3>2 DEF DogList
  <2>12. LeftIn(new)[d] = -1
    BY <2>11, LeftOfEntry
  <2>13. {e \in Entries(new) : e[1] # d} = Entries(new)
    BY <2>11 DEF Entries
  <2>14. /\ LeftIn(new) = [LeftIn(list) EXCEPT ![d] = LeftIn(new)[d]]
         /\ {e \in Entries(new) : e[1] # d} = {e \in Entries(list) : e[1] # d}
    BY <2>9, <2>11, OthersUnmoved
  <2>15. WdCancel(list, d) = new
    BY <1>4, <1>6
  <2> QED
    BY <2>11, <2>12, <2>13, <2>14, <2>15
<1> QED
  BY <1>5, <1>6

(* The first timer is due when its own lag has passed, no other before it. *)
LEMMA FirstDue ==
  ASSUME NEW list, DogList(list), list # <<>>
  PROVE  /\ 1 \in 1..Len(list) /\ list[1].lag \in Nat /\ Head(list) = list[1]
         /\ Due(list, 1) = list[1].lag
         /\ LeftIn(list)[list[1].dog] = list[1].lag
         /\ \A d \in Dogs : LeftIn(list)[d] = -1 \/ LeftIn(list)[d] >= list[1].lag
<1>1. list \in Seq(Timer) /\ 1 \in 1..Len(list) /\ list[1].lag \in Nat
  BY DogListType DEF DogList
<1>2. Due(list, 1) = list[1].lag
  <2>1. Due(list, 1) = Due(list, 1 - 1) + list[1].lag /\ Due(list, 0) = 0 /\ 1 - 1 = 0
    BY <1>1, DueDef
  <2> QED
    BY <1>1, <2>1
<1>3. LeftIn(list)[list[1].dog] = list[1].lag
  BY <1>1, <1>2, LeftOfEntry
<1>4. ASSUME NEW d \in Dogs, LeftIn(list)[d] # -1
      PROVE  LeftIn(list)[d] >= list[1].lag
  <2>1. PICK i \in 1..Len(list) : list[i].dog = d
    BY <1>4, LeftOfEntry
  <2>2. LeftIn(list)[d] = Due(list, i)
    BY <2>1, LeftOfEntry
  <2>3. i \in 0..Len(list) /\ 1 \in 0..Len(list) /\ 1 <= i
    BY <1>1, DogListType
  <2>4. Due(list, 1) <= Due(list, i) /\ Due(list, i) \in Nat
    BY <1>1, <2>3, DueGrows, DueDef
  <2> QED
    BY <1>1, <1>2, <2>2, <2>4
<1> QED
  BY <1>1, <1>2, <1>3, <1>4

(* One tick off the first lag is one tick off every timer.                 *)
LEMMA Ticked ==
  ASSUME NEW list, DogList(list), list # <<>>, list[1].lag # 0,
         NEW new, new = [list EXCEPT ![1].lag = @ - 1]
  PROVE  /\ DogList(new) /\ Entries(new) = Entries(list)
         /\ LeftIn(new) = [d \in Dogs |-> IF LeftIn(list)[d] = -1 THEN -1
                                          ELSE LeftIn(list)[d] - 1]
<1> DEFINE v == list[1].lag - 1
<1>1. /\ list \in Seq(Timer) /\ Len(list) \in Nat
      /\ 1 \in 1..Len(list) /\ list[1].lag \in Nat /\ v \in Nat
      /\ \A i, j \in 1..Len(list) : list[i].dog = list[j].dog => i = j
  BY DogListType DEF DogList
<1>2. /\ new \in Seq(Timer) /\ Len(new) = Len(list) /\ new[1].lag = v
      /\ \A j \in 1..Len(list) : j # 1 => new[j] = list[j]
      /\ \A j \in 1..Len(list) : new[j].dog = list[j].dog /\ new[j].func = list[j].func
  <2> DEFINE e == [list[1] EXCEPT !.lag = v]
  <2>1. new = [list EXCEPT ![1] = e]
    BY Zenon
  <2>2. list[1] \in Timer /\ v \in Nat
    BY <1>1
  <2> HIDE DEF v
  <2>3. /\ e \in Timer /\ e.lag = v
        /\ e.dog = list[1].dog /\ e.func = list[1].func
    BY <2>2, Zenon DEF Timer
  <2> HIDE DEF e
  <2>4. /\ new \in Seq(Timer) /\ Len(new) = Len(list)
        /\ \A j \in 1..Len(list) : new[j] = IF j = 1 THEN e ELSE list[j]
    BY <1>1, <2>1, <2>3
  <2> QED
    BY <1>1, <2>3, <2>4
<1>3. DogList(new)
  BY <1>1, <1>2 DEF DogList
<1>4. Entries(new) = Entries(list)
  BY <1>2 DEF Entries
<1>5. \A i \in 1..Len(list) : Due(new, i) = Due(list, i) - 1
  <2> SUFFICES ASSUME NEW i \in 1..Len(list) PROVE Due(new, i) = Due(list, i) - 1
    BY Zenon
  <2> DEFINE m == Len(list) - 1
             c == 0 - 1
  <2>1. /\ m \in Nat /\ c \in Int /\ 1 \in Nat
        /\ 1 + m <= Len(list) /\ 1 + m <= Len(new)
    BY <1>1, <1>2
  <2>2. \A j \in 1..m : new[1 + j].lag = list[1 + j].lag
    <3> SUFFICES ASSUME NEW j \in 1..m PROVE new[1 + j].lag = list[1 + j].lag
      OBVIOUS
    <3>1. 1 + j \in 1..Len(list) /\ 1 + j # 1
      BY <1>1
    <3> QED
      BY <1>2, <3>1
  <2>3. Due(new, 1) = Due(list, 1) + c
    <3>1. new # <<>>
      BY <1>1, <1>2, <1>3, DogListType
    <3>2. Due(new, 1) = new[1].lag /\ Due(list, 1) = list[1].lag
      BY <1>3, <3>1, FirstDue, Zenon
    <3> QED
      BY <1>1, <1>2, <3>2
  <2>4. i - 1 \in 0..m /\ 1 + (i - 1) = i /\ i \in 0..Len(list)
    BY <1>1
  <2>5. Due(list, i) \in Nat
    BY <1>1, <2>4, DueDef
  <2>6. Due(list, i) + c = Due(list, i) - 1
    BY <2>5
  <2> HIDE DEF m, c
  <2>7. list \in Seq(Timer) /\ new \in Seq(Timer)
    BY <1>1, <1>2
  <2>8. InStep(list, new, 1, 1, m, c)
    BY ONLY <2>1, <2>2, <2>3, <2>7 DEF InStep
  <2>9. \A j \in 0..m : Due(new, 1 + j) = Due(list, 1 + j) + c
    BY <2>8, DueInStep
  <2> QED
    BY <2>4, <2>6, <2>9, Zenon
<1>6. ASSUME NEW d \in Dogs
      PROVE  LeftIn(new)[d] = IF LeftIn(list)[d] = -1 THEN -1 ELSE LeftIn(list)[d] - 1
  <2>1. CASE \E i \in 1..Len(list) : list[i].dog = d
    <3>1. PICK i \in 1..Len(list) : list[i].dog = d
      BY <2>1
    <3>2. i \in 1..Len(new) /\ new[i].dog = d
      BY <1>2, <3>1
    <3>3. LeftIn(list)[d] = Due(list, i) /\ LeftIn(new)[d] = Due(new, i)
      BY <1>3, <3>1, <3>2, LeftOfEntry, Zenon
    <3>4. Due(list, i) \in Nat
      <4>1. i \in 0..Len(list)
        BY <1>1
      <4> QED
        BY <1>1, <4>1, DueDef
    <3>5. Due(new, i) = Due(list, i) - 1
      BY ONLY <1>5, <3>1
    <3>6. Due(list, i) # -1
      BY ONLY <3>4
    <3> QED
      BY <3>3, <3>5, <3>6
  <2>2. CASE \A i \in 1..Len(list) : list[i].dog # d
    <3>1. \A i \in 1..Len(new) : new[i].dog # d
      BY <1>2, <2>2
    <3> QED
      BY <1>3, <2>2, <3>1, LeftOfEntry, Zenon
  <2> QED
    BY <2>1, <2>2
<1>7. LeftIn(new) \in [Dogs -> Nat \cup {-1}]
  BY <1>3, LeftOfEntry, Zenon
<1> QED
  BY <1>3, <1>4, <1>6, <1>7, Zenon

(* Behind how many timers a new one goes.                                  *)
LEMMA StartPlace ==
  ASSUME NEW list \in Seq(Timer), NEW delay \in Nat, NEW k,
         k = Cardinality({i \in 1..Len(list) : Due(list, i) <= delay})
  PROVE  /\ k \in 0..Len(list) /\ Due(list, k) <= delay
         /\ k < Len(list) => Due(list, k + 1) > delay
<1> DEFINE L == Len(list)
           T == {i \in Nat : i = L + 1 \/ (i \in 1..L /\ Due(list, i) > delay)}
           B == {i \in 1..L : Due(list, i) <= delay}
<1>1. L \in Nat
  BY ListEntries
<1>2. Due(list, 0) = 0 /\ \A i \in 0..L : Due(list, i) \in Nat
  BY DueDef
<1>3. L + 1 \in T /\ T \subseteq Nat
  BY <1>1
<1>4. PICK x \in T : \A y \in T : x <= y
  <2> HIDE DEF T
  <2> QED
    BY <1>3, Least, Zenon
<1>5. x \in 1..(L + 1) /\ x - 1 \in 0..L
  BY <1>1, <1>4
<1>6. x <= L => Due(list, x) > delay
  BY <1>1, <1>4
<1>7. ASSUME NEW i \in 1..L, i < x
      PROVE  Due(list, i) <= delay
  <2>1. i \notin T
    BY <1>1, <1>4, <1>5, <1>7
  <2>2. ~(Due(list, i) > delay) /\ i \in 0..L
    BY <1>1, <2>1
  <2> QED
    BY <1>2, <2>2
<1>8. ASSUME NEW i \in 1..L, x <= i
      PROVE  ~(Due(list, i) <= delay)
  <2>1. x \in 0..L /\ i \in 0..L /\ x <= L
    BY <1>1, <1>5, <1>8
  <2>2. Due(list, x) <= Due(list, i)
    BY <1>8, <2>1, DueGrows
  <2> QED
    BY <1>2, <1>6, <2>1, <2>2
<1> HIDE DEF T
<1>9. B = 1..(x - 1)
  <2>1. \A i \in 1..L : i \in B <=> i < x
    BY <1>1, <1>5, <1>7, <1>8
  <2>2. \A i \in 1..(x - 1) : i \in 1..L /\ i < x
    BY <1>1, <1>5
  <2>3. \A i \in 1..L : i < x => i \in 1..(x - 1)
    BY <1>1, <1>5
  <2> QED
    BY <2>1, <2>2, <2>3
<1>10. k = x - 1
  <2>1. x - 1 \in Nat /\ 1 \in Int /\ x - 1 \in Int
    BY <1>1, <1>5
  <2>2. Cardinality(1..(x - 1)) = IF 1 > x - 1 THEN 0 ELSE (x - 1) - 1 + 1
    BY <2>1, FS_Interval, Zenon
  <2>3. Cardinality(1..(x - 1)) = x - 1
    <3> DEFINE y == x - 1
    <3>1. y \in Nat /\ Cardinality(1..y) = IF 1 > y THEN 0 ELSE y - 1 + 1
      BY <2>1, <2>2
    <3> HIDE DEF y
    <3>2. Cardinality(1..y) = y
      BY ONLY <3>1
    <3> QED
      BY <3>2 DEF y
  <2> QED
    BY ONLY <1>9, <2>3, k = Cardinality(B), Zenon DEF B
<1>11. Due(list, k) <= delay
  <2>1. CASE k = 0
    BY <1>2, <2>1
  <2>2. CASE k # 0
    <3>1. k \in 1..L /\ k < x
      BY <1>1, <1>5, <1>10, <2>2
    <3> QED
      BY <1>7, <3>1
  <2> QED
    BY <2>1, <2>2
<1>12. k < L => Due(list, k + 1) > delay
  <2>1. k + 1 = x /\ (k < L => x <= L)
    BY <1>1, <1>5, <1>10
  <2> QED
    BY <1>6, <2>1
<1> QED
  BY <1>5, <1>10, <1>11, <1>12

(* A timer started while it is off runs for its delay and one tick, and no *)
(* other is moved.                                                         *)
LEMMA Started ==
  ASSUME NEW list, DogList(list), NEW d \in Dogs,
         \A i \in 1..Len(list) : list[i].dog # d,
         NEW func \in {"sig_timeout", "sem_timeout", "polltimer"},
         NEW n \in Nat \ {0}
  PROVE  /\ DogList(WdStart(list, d, func, n))
         /\ LeftIn(WdStart(list, d, func, n)) = [LeftIn(list) EXCEPT ![d] = n + 1]
         /\ Entries(WdStart(list, d, func, n)) = Entries(list) \cup {<<d, func>>}
<1> DEFINE delay == n + 1
           k == Cardinality({i \in 1..Len(list) : Due(list, i) <= delay})
           lag == delay - Due(list, k)
           shifted == IF k = Len(list) THEN list
                      ELSE [list EXCEPT ![k + 1].lag = @ - lag]
           e == [dog |-> d, func |-> func, lag |-> lag]
           new == InsertAt(shifted, k + 1, e)
<1>1. /\ list \in Seq(Timer)
      /\ \A i, j \in 1..Len(list) : list[i].dog = list[j].dog => i = j
  BY DEF DogList
<1>2. /\ Len(list) \in Nat
      /\ \A i \in 1..Len(list) : list[i].dog \in Dogs /\ list[i].lag \in Nat
  BY <1>1, DogListType
<1>3. WdStart(list, d, func, n) = new
  <2>1. ~(n <= 0)
    OBVIOUS
  <2> QED
    BY <2>1 DEF WdStart
<1>4. delay \in Nat
  OBVIOUS
<1> HIDE DEF delay
<1>5. /\ k \in 0..Len(list) /\ Due(list, k) <= delay
      /\ k < Len(list) => Due(list, k + 1) > delay
  BY <1>1, <1>4, StartPlace
<1> HIDE DEF k
<1>6. Due(list, k) \in Nat /\ lag \in Nat /\ Due(list, k) + lag = delay
  <2>1. Due(list, k) \in Nat
    BY <1>1, <1>5, DueDef
  <2> QED
    BY <1>4, <1>5, <2>1
<1>7. e \in Timer /\ e.dog = d /\ e.func = func /\ e.lag = lag
  BY <1>6 DEF Timer
<1>8. k < Len(list) => /\ k + 1 \in 1..Len(list) /\ list[k + 1].lag - lag \in Nat
                       /\ Due(list, k + 1) = Due(list, k) + list[k + 1].lag
  <2> SUFFICES ASSUME k < Len(list)
               PROVE  /\ k + 1 \in 1..Len(list) /\ list[k + 1].lag - lag \in Nat
                      /\ Due(list, k + 1) = Due(list, k) + list[k + 1].lag
    OBVIOUS
  <2>1. k + 1 \in 1..Len(list) /\ (k + 1) - 1 = k
    BY <1>2, <1>5
  <2>2. Due(list, k + 1) = Due(list, k) + list[k + 1].lag
    BY <1>1, <2>1, DueDef
  <2>3. Due(list, k + 1) > delay /\ list[k + 1].lag \in Nat
    BY <1>2, <1>5, <2>1
  <2> QED
    BY <1>4, <1>6, <2>1, <2>2, <2>3
<1> HIDE DEF e
<1>9. /\ shifted \in Seq(Timer) /\ Len(shifted) = Len(list)
      /\ \A j \in 1..Len(list) : shifted[j].dog = list[j].dog
                               /\ shifted[j].func = list[j].func
      /\ \A j \in 1..Len(list) : j # k + 1 => shifted[j] = list[j]
      /\ k < Len(list) => shifted[k + 1].lag = list[k + 1].lag - lag
  <2> HIDE DEF lag
  <2>1. CASE k = Len(list)
    BY <1>1, <1>2, <2>1
  <2>2. CASE k # Len(list)
    <3> DEFINE i == k + 1
               v == list[i].lag - lag
    <3>1. list \in Seq(Timer) /\ i \in 1..Len(list) /\ v \in Nat
      BY <1>1, <1>2, <1>5, <1>8, <2>2
    <3>2. shifted = [list EXCEPT ![i] = [@ EXCEPT !.lag = v]]
      BY <2>2
    <3> HIDE DEF shifted, i, v
    <3>3. /\ shifted \in Seq(Timer) /\ Len(shifted) = Len(list) /\ shifted[i].lag = v
          /\ \A j \in 1..Len(list) : j # i => shifted[j] = list[j]
          /\ \A j \in 1..Len(list) : shifted[j].dog = list[j].dog
                                   /\ shifted[j].func = list[j].func
      BY ONLY <3>1, <3>2, LagSet, SMTT(20)
    <3> QED
      BY <3>3 DEF i, v
  <2> QED
    BY <2>1, <2>2
<1> HIDE DEF shifted, lag
<1>10. /\ new \in Seq(Timer) /\ Len(new) = Len(list) + 1 /\ new[k + 1] = e
       /\ \A j \in 1..k : new[j] = shifted[j]
       /\ \A j \in (k + 1)..Len(list) : new[j + 1] = shifted[j]
  <2> DEFINE i == k + 1
  <2>1. i \in 1..(Len(shifted) + 1) /\ i - 1 = k
    BY <1>2, <1>5, <1>9
  <2>2. new = InsertAt(shifted, i, e)
    OBVIOUS
  <2> HIDE DEF new, i
  <2>3. /\ new \in Seq(Timer) /\ Len(new) = Len(shifted) + 1 /\ new[i] = e
        /\ \A j \in 1..(i - 1) : new[j] = shifted[j]
        /\ \A j \in i..Len(shifted) : new[j + 1] = shifted[j]
    <3>1. shifted \in Seq(Timer) /\ e \in Timer /\ i \in 1..(Len(shifted) + 1)
      BY <1>7, <1>9, <2>1
    <3> QED
      BY ONLY <3>1, <2>2, Inserted
  <2> QED
    BY <1>9, <2>1, <2>3 DEF i
<1> HIDE DEF new
<1>11. \A j \in 1..k : j \in 1..Len(new) /\ j \in 1..Len(list) /\ new[j] = list[j]
  BY <1>2, <1>5, <1>9, <1>10
<1>12. \A j \in (k + 1)..Len(list) : /\ j \in 1..Len(list) /\ j + 1 \in 1..Len(new)
                                     /\ new[j + 1].dog = list[j].dog
                                     /\ new[j + 1].func = list[j].func
                                     /\ (j # k + 1 => new[j + 1].lag = list[j].lag)
  BY <1>2, <1>5, <1>9, <1>10
<1>13. \A j \in 0..k : Due(new, j) = Due(list, j)
  <2>1. k \in Nat /\ k <= Len(list) /\ k <= Len(new) /\ \A j \in 1..k : new[j].lag = list[j].lag
    BY <1>2, <1>5, <1>10, <1>11
  <2>2. list \in Seq(Timer) /\ new \in Seq(Timer)
    BY <1>1, <1>10
  <2> QED
    BY ONLY <2>1, <2>2, DuePrefix
<1>14. Due(new, k + 1) = delay
  <2>1. k + 1 \in 1..Len(new) /\ (k + 1) - 1 = k /\ k \in 0..k
    BY <1>2, <1>5, <1>10
  <2>2. Due(new, k + 1) = Due(new, k) + new[k + 1].lag
    BY <1>10, <2>1, DueDef
  <2> QED
    BY <1>6, <1>7, <1>10, <1>13, <2>1, <2>2
<1>15. \A j \in (k + 1)..Len(list) : Due(new, j + 1) = Due(list, j)
  <2> SUFFICES ASSUME NEW j \in (k + 1)..Len(list)
               PROVE  Due(new, j + 1) = Due(list, j)
    OBVIOUS
  <2> DEFINE a == k + 1
             b == k + 2
             m == Len(list) - a
  <2>1. k < Len(list) /\ a \in 0..Len(list)
    BY <1>2, <1>5
  <2>2. /\ a \in Nat /\ b \in Nat /\ m \in Nat
        /\ a + m <= Len(list) /\ b + m <= Len(new)
    BY <1>2, <1>5, <1>10, <2>1
  <2>3. \A i \in 1..m : new[b + i].lag = list[a + i].lag
    <3> SUFFICES ASSUME NEW i \in 1..m PROVE new[b + i].lag = list[a + i].lag
      OBVIOUS
    <3>1. a + i \in (k + 1)..Len(list) /\ a + i # k + 1 /\ (a + i) + 1 = b + i
      BY <1>2, <1>5
    <3> QED
      BY <1>12, <3>1
  <2>4. Due(new, b) = Due(list, a) + 0
    <3>1. b \in 1..Len(new) /\ b - 1 = a /\ a \in (k + 1)..Len(list) /\ a + 1 = b
      BY <1>2, <1>5, <1>10, <2>1
    <3>2. Due(new, b) = Due(new, a) + new[b].lag
      BY <1>10, <3>1, DueDef
    <3>3. new[b].lag = list[a].lag - lag
      BY <1>9, <1>10, <2>1, <3>1
    <3>4. list[a].lag - lag \in Nat /\ Due(list, a) = Due(list, k) + list[a].lag
      BY <1>8, <2>1
    <3>5. list[a].lag \in Nat
      BY <1>2, <2>1, <1>8
    <3>6. Due(new, a) = delay
      BY <1>14
    <3> HIDE DEF a, b
    <3> QED
      BY <1>4, <1>6, <3>2, <3>3, <3>4, <3>5, <3>6
  <2>5. /\ j - a \in 0..m /\ b + (j - a) = j + 1
        /\ a + (j - a) = j /\ j \in 0..Len(list)
    <3>1. j \in Int /\ k \in Nat /\ Len(list) \in Nat /\ k + 1 <= j /\ j <= Len(list)
      BY <1>2, <1>5
    <3> QED
      BY <3>1
  <2>6. list \in Seq(Timer) /\ new \in Seq(Timer) /\ 0 \in Int
    BY <1>1, <1>10
  <2> HIDE DEF a, b, m
  <2>7. InStep(list, new, a, b, m, 0)
    BY ONLY <2>2, <2>3, <2>4, <2>6, Zenon DEF InStep
  <2>8. \A i \in 0..m : Due(new, b + i) = Due(list, a + i) + 0
    BY <2>7, DueInStep
  <2>9. Due(list, j) \in Nat
    BY <1>1, <2>5, DueDef
  <2>10. Due(new, j + 1) = Due(list, j) + 0
    BY <2>5, <2>8
  <2> QED
    BY <2>9, <2>10
<1>16. Keeps(list, new, d)
  <2>1. ASSUME NEW j \in 1..Len(list)
        PROVE  \E i \in 1..Len(new) :
                 /\ new[i].dog = list[j].dog /\ new[i].func = list[j].func
                 /\ Due(new, i) = Due(list, j)
    <3>1. CASE j <= k
      <4>1. j \in 1..k /\ j \in 0..k
        BY <1>5, <3>1
      <4> QED
        BY <1>11, <1>13, <4>1
    <3>2. CASE j > k
      <4>1. j \in (k + 1)..Len(list)
        BY <1>2, <1>5, <3>2
      <4> QED
        BY <1>12, <1>15, <4>1
    <3> QED
      BY <1>5, <3>1, <3>2
  <2>2. ASSUME NEW i \in 1..Len(new), new[i].dog # d
        PROVE  \E j \in 1..Len(list) :
                 list[j].dog = new[i].dog /\ list[j].func = new[i].func
    <3>1. CASE i <= k
      <4>1. i \in 1..k
        BY <1>5, <3>1
      <4> QED
        BY <1>11, <4>1
    <3>2. CASE i > k + 1
      <4>1. i - 1 \in (k + 1)..Len(list) /\ (i - 1) + 1 = i
        BY <1>2, <1>5, <1>10, <3>2
      <4> QED
        BY <1>12, <4>1
    <3>3. CASE i = k + 1
      BY <1>7, <1>10, <2>2, <3>3
    <3> QED
      BY <1>5, <3>1, <3>2, <3>3
  <2> QED
    BY <2>1, <2>2 DEF Keeps
<1> DEFINE old(i) == IF i <= k THEN i ELSE i - 1
<1>17. /\ \A i \in 1..Len(new) : i # k + 1 => /\ old(i) \in 1..Len(list)
                                               /\ new[i].dog = list[old(i)].dog
       /\ \A i, j \in 1..Len(new) :
            (i # k + 1 /\ j # k + 1 /\ old(i) = old(j)) => i = j
  <2>1. ASSUME NEW i \in 1..Len(new), i # k + 1
        PROVE  old(i) \in 1..Len(list) /\ new[i].dog = list[old(i)].dog
    <3>1. CASE i <= k
      <4>1. i \in 1..k
        BY <1>5, <3>1
      <4> QED
        BY <1>11, <3>1, <4>1
    <3>2. CASE ~(i <= k)
      <4>1. i - 1 \in (k + 1)..Len(list) /\ (i - 1) + 1 = i
        BY <1>2, <1>5, <1>10, <2>1, <3>2
      <4> QED
        BY <1>12, <3>2, <4>1
    <3> QED
      BY <3>1, <3>2
  <2>2. ASSUME NEW i \in 1..Len(new), NEW j \in 1..Len(new),
               i # k + 1, j # k + 1, old(i) = old(j)
        PROVE  i = j
    BY <1>2, <1>5, <1>10, <2>2
  <2> QED
    BY <2>1, <2>2
<1> HIDE DEF old
<1>18. DogList(new)
  <2>1. ASSUME NEW i \in 1..Len(new), NEW j \in 1..Len(new), new[i].dog = new[j].dog
        PROVE  i = j
    <3>1. CASE i # k + 1 /\ j # k + 1
      <4>1. old(i) = old(j)
        BY <1>1, <1>17, <2>1, <3>1
      <4> QED
        BY <1>17, <3>1, <4>1
    <3>2. CASE i = k + 1 /\ j # k + 1
      <4>1. new[i].dog = d
        BY <1>7, <1>10, <3>2
      <4> QED
        BY <1>17, <2>1, <3>2, <4>1
    <3>3. CASE i # k + 1 /\ j = k + 1
      <4>1. new[j].dog = d
        BY <1>7, <1>10, <3>3
      <4> QED
        BY <1>17, <2>1, <3>3, <4>1
    <3> QED
      BY <3>1, <3>2, <3>3
  <2> QED
    BY <1>10, <2>1 DEF DogList
<1>19. k + 1 \in 1..Len(new)
  BY <1>2, <1>5, <1>10
<1>20. LeftIn(new)[d] = n + 1
  <2>1. LeftIn(new)[new[k + 1].dog] = Due(new, k + 1)
    BY <1>18, <1>19, LeftOfEntry
  <2> QED
    BY <1>7, <1>10, <1>14, <2>1 DEF delay
<1>21. /\ LeftIn(new) = [LeftIn(list) EXCEPT ![d] = LeftIn(new)[d]]
       /\ {x \in Entries(new) : x[1] # d} = {x \in Entries(list) : x[1] # d}
  BY <1>16, <1>18, OthersUnmoved
<1>22. {x \in Entries(list) : x[1] # d} = Entries(list)
  BY DEF Entries
<1>23. {x \in Entries(new) : x[1] = d} = {<<d, func>>}
  <2>1. <<d, func>> \in Entries(new)
    <3>1. <<new[k + 1].dog, new[k + 1].func>> = <<d, func>>
      BY <1>7, <1>10
    <3> QED
      BY <1>19, <3>1 DEF Entries
  <2>2. ASSUME NEW x \in Entries(new), x[1] = d PROVE x = <<d, func>>
    <3>1. PICK i \in 1..Len(new) : x = <<new[i].dog, new[i].func>>
      BY <2>2 DEF Entries
    <3>2. new[i].dog = d /\ new[k + 1].dog = d
      BY <1>7, <1>10, <2>2, <3>1
    <3>3. i = k + 1
      BY <1>18, <1>19, <3>2 DEF DogList
    <3> QED
      BY <1>7, <1>10, <3>1, <3>3
  <2> QED
    BY <2>1, <2>2
<1> HIDE DEF k
<1>24. Entries(new) = Entries(list) \cup {<<d, func>>}
  BY ONLY <1>21, <1>22, <1>23
<1> QED
  BY <1>3, <1>18, <1>20, <1>21, <1>24

-----------------------------------------------------------------------------
(* The inductive invariant. *)

(* Every task is in exactly one list.                                      *)
Apart(r, p, s, g) ==
  /\ TaskList(r) /\ TaskList(p) /\ TaskList(s)
  /\ Idle \in Range(r) /\ g \subseteq Tasks
  /\ Range(r) \cap Range(p) = {} /\ Range(r) \cap Range(s) = {} /\ Range(r) \cap g = {}
  /\ Range(p) \cap Range(s) = {} /\ Range(p) \cap g = {} /\ Range(s) \cap g = {}
  /\ Range(r) \cup Range(p) \cup Range(s) \cup g = All

Lists == Apart(ready, pending, semwait, sigwait)

Types ==
  /\ lockcount \in [All -> 0..1]
  /\ pc \in [All -> {"run", "locked", "sleep", "unlock", "wait"}]
  /\ asked \in [Tasks -> Sems \cup {None}] /\ waitsem \in [Tasks -> Sems \cup {None}]
  /\ errno \in [Tasks -> {"OK", "EINTR", "ETIMEDOUT"}]
  /\ count \in [Sems -> Int] /\ holds \in [Tasks -> SUBSET Mutexes]
  /\ isr \in BOOLEAN
  /\ want \in [Tasks -> Nat] /\ passed \in [Tasks -> Nat]
  /\ DogList(wdlist)

(* What a place inside a kernel call says of the rest of the state.        *)
CallOf(t) ==
  /\ lockcount[t] = IF pc[t] \in {"locked", "sleep", "unlock"} THEN 1 ELSE 0
  /\ t \in sigwait => pc[t] = "sleep" /\ errno[t] = "OK"
  /\ t \in Range(semwait) <=> waitsem[t] # None
  /\ waitsem[t] # None => pc[t] = "wait" /\ asked[t] = waitsem[t] /\ errno[t] = "OK"
  /\ asked[t] # None <=> pc[t] = "wait"
  /\ asked[t] \notin holds[t]
  /\ pc[t] \in {"run", "locked"} => errno[t] = "OK" /\ want[t] = 0 /\ passed[t] = 0

Calls == /\ pc[Idle] = "run" /\ lockcount[Idle] = 0
         /\ \A t \in Tasks : CallOf(t)

(* Tasks are pending only while the running task has the scheduler locked. *)
Held == pending # <<>> => lockcount[current] > 0

(* Each timer belongs to a wait, and runs until the ticks that the wait    *)
(* asked for and one more have passed.                                     *)
Clocks ==
  /\ ~isr => \A d \in Dogs : LeftIn(wdlist)[d] # 0
  /\ \A e \in Entries(wdlist) :
       /\ e[1] = Poll <=> e[2] = "polltimer"
       /\ e[1] \in Tasks =>
            /\ pc[e[1]] = (IF e[2] = "sig_timeout" THEN "sleep" ELSE "wait")
            /\ want[e[1]] > 0
  /\ \A t \in Timed : /\ LeftIn(wdlist)[t] # -1 /\ want[t] > 0
                       /\ LeftIn(wdlist)[t] + passed[t] = want[t] + 1

Inv == Lists /\ Types /\ Calls /\ Held /\ Clocks /\ SemExact /\ TimeoutExact

(* What is read off the list of timers after a step.                       *)
LEMMA ListPrime ==
  LeftIn(wdlist)' = LeftIn(wdlist') /\ Entries(wdlist)' = Entries(wdlist')
BY DEF LeftIn, Entries, Due

(* A list with each task at most once is as long as it has members.        *)
LEMMA ListLength ==
  ASSUME NEW list, TaskList(list)
  PROVE  IsFiniteSet(Range(list)) /\ Cardinality(Range(list)) = Len(list)
<1>1. list \in Seq(All) /\ \A i, j \in 1..Len(list) : list[i] = list[j] => i = j
  BY DEF TaskList, Once
<1>2. Len(list) \in Nat /\ DOMAIN list = 1..Len(list) /\ list \in [1..Len(list) -> All]
  BY <1>1, ListEntries
<1>3. Range(list) = {list[i] : i \in 1..Len(list)}
  BY <1>1, Members
<1>4. list \in [1..Len(list) -> Range(list)]
  BY <1>2, <1>3
<1>5. list \in Injection(1..Len(list), Range(list))
  BY <1>1, <1>2, <1>4 DEF Injection, IsInjective
<1>6. list \in Surjection(1..Len(list), Range(list))
  BY <1>3, <1>4 DEF Surjection
<1>7. ExistsBijection(1..Len(list), Range(list))
  BY <1>5, <1>6 DEF ExistsBijection, Bijection
<1>8. IsFiniteSet(1..Len(list)) /\ Cardinality(1..Len(list)) = Len(list)
  <2>1. 1 \in Int /\ Len(list) \in Int
    BY <1>2
  <2>2. /\ IsFiniteSet(1..Len(list))
        /\ Cardinality(1..Len(list)) = IF 1 > Len(list) THEN 0 ELSE Len(list) - 1 + 1
    BY <2>1, FS_Interval
  <2> DEFINE n == Len(list)
             C == Cardinality(1..n)
  <2>3. n \in Nat /\ C = IF 1 > n THEN 0 ELSE n - 1 + 1
    BY <1>2, <2>2
  <2> HIDE DEF n, C
  <2>4. C = n
    BY ONLY <2>3
  <2> QED
    BY <2>2, <2>4 DEF n, C
<1> QED
  BY <1>7, <1>8, FS_Bijection

(* Disjoint sets add up.                                                   *)
LEMMA DisjointUnion ==
  ASSUME NEW S, IsFiniteSet(S), NEW T, IsFiniteSet(T), S \cap T = {}
  PROVE  IsFiniteSet(S \cup T) /\ Cardinality(S \cup T) = Cardinality(S) + Cardinality(T)
<1>1. Cardinality(S \cap T) = 0
  BY FS_EmptySet, Zenon
<1>2. Cardinality(S) \in Nat /\ Cardinality(T) \in Nat
  BY FS_CardinalityType
<1>3. /\ IsFiniteSet(S \cup T)
      /\ Cardinality(S \cup T) = Cardinality(S) + Cardinality(T) - Cardinality(S \cap T)
  BY FS_Union
<1> QED
  BY ONLY <1>1, <1>2, <1>3

(* The lengths of the lists add up to the number of tasks.                 *)
LEMMA AllListed ==
  ASSUME NEW r, NEW p, NEW s, NEW g, Apart(r, p, s, g)
  PROVE  Len(r) + Len(p) + Len(s) + Cardinality(g) = Cardinality(All)
<1>1. /\ IsFiniteSet(Range(r)) /\ Cardinality(Range(r)) = Len(r)
      /\ IsFiniteSet(Range(p)) /\ Cardinality(Range(p)) = Len(p)
      /\ IsFiniteSet(Range(s)) /\ Cardinality(Range(s)) = Len(s)
  BY ListLength DEF Apart
<1>2. IsFiniteSet(g)
  BY KernelAssumption, FS_Subset DEF Apart
<1> DEFINE R == Range(r)
           P == Range(p)
           S == Range(s)
<1>3. /\ R \cap P = {} /\ (R \cup P) \cap S = {} /\ ((R \cup P) \cup S) \cap g = {}
      /\ ((R \cup P) \cup S) \cup g = All
  BY DEF Apart
<1> HIDE DEF R, P, S
<1>4. /\ Cardinality(R) = Len(r) /\ Cardinality(P) = Len(p) /\ Cardinality(S) = Len(s)
      /\ IsFiniteSet(R) /\ IsFiniteSet(P) /\ IsFiniteSet(S)
  BY <1>1 DEF R, P, S
<1>6. /\ Cardinality(R) \in Nat /\ Cardinality(P) \in Nat
      /\ Cardinality(S) \in Nat /\ Cardinality(g) \in Nat
  BY <1>2, <1>4, FS_CardinalityType
<1>7. IsFiniteSet(R \cup P) /\ Cardinality(R \cup P) = Cardinality(R) + Cardinality(P)
  BY <1>3, <1>4, DisjointUnion, Zenon
<1> DEFINE Q == R \cup P
<1>8. IsFiniteSet(Q) /\ Cardinality(Q) = Cardinality(R) + Cardinality(P) /\ Q \cap S = {}
  BY <1>3, <1>7
<1> DEFINE T == Q \cup S
<1>9. T \cap g = {} /\ T \cup g = All
  BY <1>3
<1> HIDE DEF Q
<1>10. IsFiniteSet(T) /\ Cardinality(T) = Cardinality(Q) + Cardinality(S)
  BY <1>4, <1>8, DisjointUnion, Zenon
<1> HIDE DEF T
<1>11. Cardinality(T \cup g) = Cardinality(T) + Cardinality(g)
  BY <1>2, <1>9, <1>10, DisjointUnion
<1> QED
  BY <1>4, <1>6, <1>8, <1>9, <1>10, <1>11, Zenon

-----------------------------------------------------------------------------
(* What moving a task between the lists preserves. *)

(* The running task is the head of the ready list.                         *)
LEMMA Running ==
  ASSUME NEW r, TaskList(r), Idle \in Range(r)
  PROVE  /\ r # <<>> /\ Head(r) = r[1] /\ Head(r) \in Range(r) /\ Head(r) \in All
<1>1. r \in Seq(All)
  BY DEF TaskList
<1>2. PICK i \in 1..Len(r) : r[i] = Idle
  BY <1>1, Members
<1>3. 1 \in 1..Len(r) /\ r # <<>>
  BY <1>1, <1>2, Members
<1>4. Head(r) = r[1]
  BY <1>1, <1>3
<1>5. r[1] \in Range(r) /\ r[1] \in All
  BY <1>1, <1>3, Members, ListEntries
<1> QED
  BY <1>3, <1>4, <1>5

(* No task is in the empty list.                                           *)
LEMMA NoTasks == TaskList(<<>>) /\ Range(<<>>) = {}
<1>1. <<>> \in Seq(All) /\ Len(<<>>) = 0
  OBVIOUS
<1>2. Range(<<>>) = {}
  <2> DEFINE e == <<>>
  <2>1. e \in Seq(All) /\ 1..Len(e) = {}
    BY <1>1
  <2> HIDE DEF e
  <2>2. \A x : x \in Range(e) <=> \E i \in 1..Len(e) : e[i] = x
    BY <2>1, Members
  <2>3. Range(e) = {}
    BY <2>1, <2>2
  <2> QED
    BY <2>3 DEF e
<1> QED
  BY <1>1, <1>2 DEF TaskList, Sorted, Once

(* The running task goes to wait for a semaphore or to sleep, and the      *)
(* pending tasks become ready.                                             *)
LEMMA BlockMoves ==
  ASSUME NEW r, NEW p, NEW s, NEW g, Apart(r, p, s, g), Head(r) \in Tasks
  PROVE  /\ Apart(Merge(Tail(r), p), <<>>, AddPrioritized(s, Head(r)), g)
         /\ Range(AddPrioritized(s, Head(r))) = Range(s) \cup {Head(r)}
         /\ Apart(Merge(Tail(r), p), <<>>, s, g \cup {Head(r)})
<1> DEFINE t == Head(r)
           rest == Tail(r)
           new == Merge(rest, p)
           add == AddPrioritized(s, t)
<1>1. /\ TaskList(r) /\ TaskList(p) /\ TaskList(s) /\ Idle \in Range(r) /\ g \subseteq Tasks
      /\ Range(r) \cap Range(p) = {} /\ Range(r) \cap Range(s) = {} /\ Range(r) \cap g = {}
      /\ Range(p) \cap Range(s) = {} /\ Range(p) \cap g = {} /\ Range(s) \cap g = {}
      /\ Range(r) \cup Range(p) \cup Range(s) \cup g = All
  BY DEF Apart
<1>2. t \in Range(r) /\ t \in All /\ t # Idle /\ r # <<>>
  BY <1>1, Running, KernelAssumption
<1>3. TaskList(rest) /\ Range(rest) = Range(r) \ {t}
  BY <1>1, <1>2, TailList
<1> HIDE DEF rest, t
<1>4. p \in Seq(All) /\ Once(p) /\ Range(rest) \cap Range(p) = {}
  BY <1>1, <1>3 DEF TaskList
<1>5. TaskList(new) /\ Range(new) = Range(rest) \cup Range(p)
  BY <1>3, <1>4, Merged
<1>6. TaskList(add) /\ Range(add) = Range(s) \cup {t}
  <2>1. t \notin Range(s)
    BY <1>1, <1>2
  <2> QED
    BY <1>1, <1>2, <2>1, Added
<1> HIDE DEF new, add
<1>7. Apart(new, <<>>, add, g)
  BY <1>1, <1>2, <1>3, <1>5, <1>6, NoTasks DEF Apart
<1>8. Apart(new, <<>>, s, g \cup {t})
  <2>1. t \in Tasks
    BY DEF t
  <2> QED
    BY <1>1, <1>2, <1>3, <1>5, <2>1, NoTasks DEF Apart
<1> QED
  BY <1>6, <1>7, <1>8 DEF new, add, rest, t

(* The running task goes behind the others of its priority.                *)
LEMMA SliceMoves ==
  ASSUME NEW r, NEW p, NEW s, NEW g, Apart(r, p, s, g), Head(r) \in Tasks
  PROVE  Apart(AddPrioritized(Tail(r), Head(r)), p, s, g)
<1> DEFINE t == Head(r)
           rest == Tail(r)
           new == AddPrioritized(rest, t)
<1>1. TaskList(r) /\ Idle \in Range(r)
  BY DEF Apart
<1>2. t \in Range(r) /\ t \in All /\ r # <<>>
  BY <1>1, Running
<1>3. TaskList(rest) /\ Range(rest) = Range(r) \ {t}
  BY <1>1, <1>2, TailList
<1> HIDE DEF rest, t
<1>4. TaskList(new) /\ Range(new) = Range(rest) \cup {t}
  BY <1>2, <1>3, Added
<1> HIDE DEF new
<1>5. Range(new) = Range(r)
  BY <1>2, <1>3, <1>4
<1>6. Apart(new, p, s, g)
  BY <1>4, <1>5 DEF Apart
<1> QED
  BY <1>6 DEF new, rest, t

(* A task that waits for a semaphore becomes ready or pending.             *)
LEMMA WaiterMoves ==
  ASSUME NEW r, NEW p, NEW s, NEW g, Apart(r, p, s, g), NEW t \in Range(s), t \in Tasks
  PROVE  /\ Apart(AddPrioritized(r, t), p, RemoveFirst(s, t), g)
         /\ Apart(r, AddPrioritized(p, t), RemoveFirst(s, t), g)
         /\ Range(RemoveFirst(s, t)) = Range(s) \ {t}
<1> DEFINE ra == AddPrioritized(r, t)
           pa == AddPrioritized(p, t)
           sa == RemoveFirst(s, t)
<1>1. /\ TaskList(r) /\ TaskList(p) /\ TaskList(s) /\ Idle \in Range(r) /\ g \subseteq Tasks
      /\ Range(r) \cap Range(p) = {} /\ Range(r) \cap Range(s) = {} /\ Range(r) \cap g = {}
      /\ Range(p) \cap Range(s) = {} /\ Range(p) \cap g = {} /\ Range(s) \cap g = {}
      /\ Range(r) \cup Range(p) \cup Range(s) \cup g = All
  BY DEF Apart
<1>2. t \in All /\ t \notin Range(r) /\ t \notin Range(p)
  BY <1>1 DEF All
<1>3. TaskList(ra) /\ Range(ra) = Range(r) \cup {t}
  BY <1>1, <1>2, Added
<1>4. TaskList(pa) /\ Range(pa) = Range(p) \cup {t}
  BY <1>1, <1>2, Added
<1>5. TaskList(sa) /\ Range(sa) = Range(s) \ {t}
  BY <1>1, TakenOut
<1> HIDE DEF ra, pa, sa
<1>6. Apart(ra, p, sa, g)
  BY <1>1, <1>2, <1>3, <1>5 DEF Apart
<1>7. Apart(r, pa, sa, g)
  BY <1>1, <1>2, <1>4, <1>5 DEF Apart
<1> QED
  BY <1>5, <1>6, <1>7 DEF ra, pa, sa

(* A task that sleeps becomes ready or pending.                            *)
LEMMA SleeperMoves ==
  ASSUME NEW r, NEW p, NEW s, NEW g, Apart(r, p, s, g), NEW t \in g, t \in Tasks
  PROVE  /\ Apart(AddPrioritized(r, t), p, s, g \ {t})
         /\ Apart(r, AddPrioritized(p, t), s, g \ {t})
<1> DEFINE ra == AddPrioritized(r, t)
           pa == AddPrioritized(p, t)
<1>1. /\ TaskList(r) /\ TaskList(p) /\ TaskList(s) /\ Idle \in Range(r) /\ g \subseteq Tasks
      /\ Range(r) \cap Range(p) = {} /\ Range(r) \cap Range(s) = {} /\ Range(r) \cap g = {}
      /\ Range(p) \cap Range(s) = {} /\ Range(p) \cap g = {} /\ Range(s) \cap g = {}
      /\ Range(r) \cup Range(p) \cup Range(s) \cup g = All
  BY DEF Apart
<1>2. t \in All /\ t \notin Range(r) /\ t \notin Range(p)
  BY <1>1 DEF All
<1>3. TaskList(ra) /\ Range(ra) = Range(r) \cup {t}
  BY <1>1, <1>2, Added
<1>4. TaskList(pa) /\ Range(pa) = Range(p) \cup {t}
  BY <1>1, <1>2, Added
<1> HIDE DEF ra, pa
<1>5. Apart(ra, p, s, g \ {t})
  BY <1>1, <1>2, <1>3 DEF Apart
<1>6. Apart(r, pa, s, g \ {t})
  BY <1>1, <1>2, <1>4 DEF Apart
<1> QED
  BY <1>5, <1>6 DEF ra, pa

(* The pending tasks become ready.                                         *)
LEMMA MergeMoves ==
  ASSUME NEW r, NEW p, NEW s, NEW g, Apart(r, p, s, g)
  PROVE  Apart(Merge(r, p), <<>>, s, g)
<1> DEFINE new == Merge(r, p)
<1>1. /\ TaskList(r) /\ TaskList(p) /\ TaskList(s) /\ Idle \in Range(r) /\ g \subseteq Tasks
      /\ Range(r) \cap Range(p) = {} /\ Range(r) \cap Range(s) = {} /\ Range(r) \cap g = {}
      /\ Range(p) \cap Range(s) = {} /\ Range(p) \cap g = {} /\ Range(s) \cap g = {}
      /\ Range(r) \cup Range(p) \cup Range(s) \cup g = All
  BY DEF Apart
<1>2. p \in Seq(All) /\ Once(p)
  BY <1>1 DEF TaskList
<1>3. TaskList(new) /\ Range(new) = Range(r) \cup Range(p)
  BY <1>1, <1>2, Merged
<1> HIDE DEF new
<1>4. Apart(new, <<>>, s, g)
  BY <1>1, <1>3, NoTasks DEF Apart
<1> QED
  BY <1>4 DEF new

(* Unblocking a task preempts the running task only if it has not locked   *)
(* the scheduler, and otherwise leaves a more urgent task pending.         *)
LEMMA UnblockHolds ==
  ASSUME TaskList(ready), Idle \in Range(ready), TaskList(pending),
         NEW t \in All, t \notin Range(ready), t \notin Range(pending),
         lockcount \in [All -> 0..1], Held, Unblock(t)
  PROVE  pending' # <<>> => lockcount[current'] > 0
<1>1. ready # <<>> /\ current = ready[1] /\ current \in All
  BY Running DEF current
<1>2. CASE lockcount[current] > 0 /\ Priority[current] < Priority[t]
  BY <1>2 DEF Unblock, current
<1>3. CASE ~(lockcount[current] > 0 /\ Priority[current] < Priority[t])
  <2>1. ready' = AddPrioritized(ready, t) /\ pending' = pending
    BY <1>3 DEF Unblock
  <2>2. /\ TaskList(ready') /\ Range(ready') = Range(ready) \cup {t}
        /\ ready'[1] = IF ready = <<>> \/ Priority[ready[1]] < Priority[t] THEN t ELSE ready[1]
    BY <2>1, Added
  <2>3. current' = ready'[1]
    BY <2>2, Running DEF current
  <2>4. pending' # <<>> => lockcount[current] > 0
    BY <2>1 DEF Held
  <2> QED
    BY <1>1, <1>3, <2>2, <2>3, <2>4
<1> QED
  BY <1>2, <1>3

-----------------------------------------------------------------------------
(* What the calls do to the account of a semaphore. *)

(* A semaphore with count c for which the tasks W wait, and which is on    *)
(* its way to the tasks G and held by the tasks O.                         *)
Balanced(s, c, W, G, O) ==
  /\ c \in Int /\ W \subseteq Tasks /\ G \subseteq Tasks /\ O \subseteq Tasks
  /\ IF W = {} THEN c >= 0 ELSE c = -Cardinality(W)
  /\ s \in Mutexes => c + Cardinality(W) + Cardinality(G) + Cardinality(O) = 1

(* A set of tasks gains or loses one.                                      *)
LEMMA OneMore ==
  ASSUME NEW S, S \subseteq Tasks
  PROVE  /\ Cardinality(S) \in Nat
         /\ Cardinality(S) = 0 <=> S = {}
         /\ \A x : x \notin S => Cardinality(S \cup {x}) = Cardinality(S) + 1
         /\ \A x : x \in S => Cardinality(S \ {x}) = Cardinality(S) - 1
<1>1. IsFiniteSet(S)
  BY KernelAssumption, FS_Subset
<1>2. Cardinality(S) \in Nat /\ (Cardinality(S) = 0 <=> S = {})
  BY <1>1, FS_CardinalityType, FS_EmptySet
<1>3. ASSUME NEW x, x \notin S PROVE Cardinality(S \cup {x}) = Cardinality(S) + 1
  BY <1>1, <1>3, FS_AddElement
<1>4. ASSUME NEW x, x \in S PROVE Cardinality(S \ {x}) = Cardinality(S) - 1
  BY <1>1, <1>4, FS_RemoveElement
<1> QED
  BY <1>2, <1>3, <1>4

(* A task takes a semaphore that is available.                             *)
LEMMA BalancedTake ==
  ASSUME NEW s, NEW c, NEW W, NEW G, NEW O, NEW P, NEW t \in Tasks,
         Balanced(s, c, W, G, O), c > 0, t \notin O,
         P \subseteq Tasks, s \in Mutexes => P = O \cup {t}
  PROVE  Balanced(s, c - 1, W, G, P)
<1>1. /\ c \in Int /\ W \subseteq Tasks /\ G \subseteq Tasks /\ O \subseteq Tasks
      /\ IF W = {} THEN c >= 0 ELSE c = -Cardinality(W)
      /\ s \in Mutexes => c + Cardinality(W) + Cardinality(G) + Cardinality(O) = 1
  BY DEF Balanced
<1>2. /\ Cardinality(W) \in Nat /\ Cardinality(G) \in Nat /\ Cardinality(O) \in Nat
      /\ Cardinality(O \cup {t}) = Cardinality(O) + 1
  BY <1>1, OneMore
<1>3. W = {}
  BY <1>1, <1>2
<1>4. s \in Mutexes => Cardinality(P) = Cardinality(O) + 1
  <2>1. s \in Mutexes => Cardinality(P) = Cardinality(O \cup {t})
    BY Zenon
  <2> QED
    BY <1>2, <2>1
<1>5. s \in Mutexes => (c - 1) + Cardinality(W) + Cardinality(G) + Cardinality(P) = 1
  BY <1>1, <1>2, <1>4
<1> QED
  BY <1>1, <1>3, <1>5 DEF Balanced

(* A task blocks on a semaphore that is not.                               *)
LEMMA BalancedBlock ==
  ASSUME NEW s, NEW c, NEW W, NEW G, NEW O, NEW t \in Tasks,
         Balanced(s, c, W, G, O), c <= 0, t \notin W
  PROVE  Balanced(s, c - 1, W \cup {t}, G, O)
<1>1. /\ c \in Int /\ W \subseteq Tasks /\ G \subseteq Tasks /\ O \subseteq Tasks
      /\ IF W = {} THEN c >= 0 ELSE c = -Cardinality(W)
      /\ s \in Mutexes => c + Cardinality(W) + Cardinality(G) + Cardinality(O) = 1
  BY DEF Balanced
<1> DEFINE V == W \cup {t}
<1>2. /\ Cardinality(W) \in Nat /\ Cardinality(G) \in Nat /\ Cardinality(O) \in Nat
      /\ Cardinality(V) = Cardinality(W) + 1 /\ (Cardinality(W) = 0 <=> W = {})
  BY <1>1, OneMore
<1>3. V # {} /\ V \subseteq Tasks
  BY <1>1
<1> HIDE DEF V
<1>4. c - 1 = -Cardinality(V)
  BY <1>1, <1>2
<1>5. Balanced(s, c - 1, V, G, O)
  BY <1>1, <1>2, <1>3, <1>4 DEF Balanced
<1> QED
  BY <1>5 DEF V

(* A wait ends, with the semaphore or without it.                          *)
LEMMA BalancedRelease ==
  ASSUME NEW s, NEW c, NEW W, NEW G, NEW O, NEW H, NEW P, NEW w \in W,
         Balanced(s, c, W, G, O), H \subseteq Tasks, P \subseteq Tasks,
         s \in Mutexes => Cardinality(H) + Cardinality(P) = Cardinality(G) + Cardinality(O)
  PROVE  Balanced(s, c + 1, W \ {w}, H, P)
<1>1. /\ c \in Int /\ W \subseteq Tasks /\ G \subseteq Tasks /\ O \subseteq Tasks
      /\ IF W = {} THEN c >= 0 ELSE c = -Cardinality(W)
      /\ s \in Mutexes => c + Cardinality(W) + Cardinality(G) + Cardinality(O) = 1
  BY DEF Balanced
<1> DEFINE V == W \ {w}
<1>2. /\ Cardinality(W) \in Nat /\ Cardinality(G) \in Nat /\ Cardinality(O) \in Nat
      /\ Cardinality(H) \in Nat /\ Cardinality(P) \in Nat
      /\ Cardinality(V) = Cardinality(W) - 1
  BY <1>1, OneMore
<1>3. V \subseteq Tasks /\ W # {}
  BY <1>1
<1> HIDE DEF V
<1>4. Cardinality(V) = 0 <=> V = {}
  BY <1>3, OneMore
<1>5. c + 1 = -Cardinality(V) /\ c + 1 \in Int
  BY <1>1, <1>2, <1>3
<1>6. IF V = {} THEN c + 1 >= 0 ELSE c + 1 = -Cardinality(V)
  BY <1>4, <1>5
<1>7. s \in Mutexes => (c + 1) + Cardinality(V) + Cardinality(H) + Cardinality(P) = 1
  BY <1>1, <1>2
<1>8. Balanced(s, c + 1, V, H, P)
  BY <1>1, <1>3, <1>5, <1>6, <1>7 DEF Balanced
<1> QED
  BY <1>8 DEF V

(* A semaphore for which nobody waits is posted.                           *)
LEMMA BalancedPost ==
  ASSUME NEW s, NEW c, NEW W, NEW G, NEW O, NEW P,
         Balanced(s, c, W, G, O), c >= 0, P \subseteq Tasks,
         s \in Mutexes => \E t \in O : P = O \ {t}
  PROVE  Balanced(s, c + 1, W, G, P)
<1>1. /\ c \in Int /\ W \subseteq Tasks /\ G \subseteq Tasks /\ O \subseteq Tasks
      /\ IF W = {} THEN c >= 0 ELSE c = -Cardinality(W)
      /\ s \in Mutexes => c + Cardinality(W) + Cardinality(G) + Cardinality(O) = 1
  BY DEF Balanced
<1>2. /\ Cardinality(W) \in Nat /\ Cardinality(G) \in Nat /\ Cardinality(O) \in Nat
      /\ Cardinality(W) = 0 <=> W = {}
  BY <1>1, OneMore
<1>3. s \in Mutexes => Cardinality(P) = Cardinality(O) - 1
  BY <1>1, OneMore
<1>4. W = {}
  BY <1>1, <1>2
<1>5. s \in Mutexes => (c + 1) + Cardinality(W) + Cardinality(G) + Cardinality(P) = 1
  BY <1>1, <1>2, <1>3
<1> QED
  BY <1>1, <1>4, <1>5 DEF Balanced

(* A task that was given a semaphore holds it.                             *)
LEMMA BalancedReturn ==
  ASSUME NEW s, NEW c, NEW W, NEW G, NEW O, NEW P, NEW t \in G,
         Balanced(s, c, W, G, O), t \notin O,
         P \subseteq Tasks, s \in Mutexes => P = O \cup {t}
  PROVE  Balanced(s, c, W, G \ {t}, P)
<1>1. /\ c \in Int /\ W \subseteq Tasks /\ G \subseteq Tasks /\ O \subseteq Tasks
      /\ IF W = {} THEN c >= 0 ELSE c = -Cardinality(W)
      /\ s \in Mutexes => c + Cardinality(W) + Cardinality(G) + Cardinality(O) = 1
  BY DEF Balanced
<1>2. /\ Cardinality(W) \in Nat /\ Cardinality(G) \in Nat /\ Cardinality(O) \in Nat
      /\ Cardinality(G \ {t}) = Cardinality(G) - 1
      /\ Cardinality(O \cup {t}) = Cardinality(O) + 1
  BY <1>1, OneMore
<1>3. s \in Mutexes => c + Cardinality(W) + Cardinality(G \ {t}) + Cardinality(P) = 1
  <2>1. s \in Mutexes => Cardinality(P) = Cardinality(O \cup {t})
    BY Zenon
  <2> QED
    BY <1>1, <1>2, <2>1
<1>4. G \ {t} \subseteq Tasks
  BY <1>1
<1> QED
  BY <1>1, <1>3, <1>4 DEF Balanced

(* SemExact says that every semaphore is balanced.                         *)
LEMMA SemBalanced ==
  ASSUME Types
  PROVE  SemExact <=> \A s \in Sems : Balanced(s, count[s], Waiting(s), Granted(s), Owners(s))
<1>1. \A s \in Sems : /\ count[s] \in Int /\ Waiting(s) \subseteq Tasks
                      /\ Granted(s) \subseteq Tasks /\ Owners(s) \subseteq Tasks
  BY DEF Types, Waiting, Granted, Owners
<1>2. Mutexes \subseteq Sems
  BY DEF Sems
<1> QED
  BY <1>1, <1>2 DEF SemExact, Balanced
=============================================================================
