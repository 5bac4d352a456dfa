-------------------------- MODULE TabulatorProofs ---------------------------
(***************************************************************************)
(* Theorems about the tabulator, for any instrument, notes and settings.   *)
(***************************************************************************)
EXTENDS Tabulator, Ranks, TLAPS

(* What it is to be a bijection. *)
OneToOne(p, S, T) ==
    /\ p \in [S -> T]
    /\ \A x, y \in S : x # y => p[x] # p[y]
    /\ \A z \in T : \E x \in S : p[x] = z

LEMMA Bijections ==
    ASSUME NEW S, NEW T, NEW p
    PROVE  p \in Bijection(S, T) <=> OneToOne(p, S, T)
  BY DEF Bijection, Injection, Surjection, IsInjective, OneToOne

-----------------------------------------------------------------------------
(* Sorting: every sequence of keys has an order, the one with its last key *)
(* put behind those that are not greater.                                  *)
Orders(n, s, p) ==
    /\ OneToOne(p, 1 .. n, 1 .. n)
    /\ \A i, j \in 1 .. n : i < j => s[p[i]] <= s[p[j]]

LEMMA Insertion ==
    ASSUME NEW n \in Nat, NEW s \in [1 .. n + 1 -> Nat], NEW p, Orders(n, s, p)
    PROVE  \E q : Orders(n + 1, s, q)
<1>1. /\ p \in [1 .. n -> 1 .. n]
      /\ \A x, y \in 1 .. n : x # y => p[x] # p[y]
      /\ \A z \in 1 .. n : \E x \in 1 .. n : p[x] = z
      /\ \A i, j \in 1 .. n : i < j => s[p[i]] <= s[p[j]]
  BY DEF Orders, OneToOne
<1>2. \A i \in 1 .. n : p[i] \in 1 .. n /\ p[i] # n + 1 /\ p[i] \in 1 .. n + 1
  <2> SUFFICES ASSUME NEW i \in 1 .. n
               PROVE  p[i] \in 1 .. n /\ p[i] # n + 1 /\ p[i] \in 1 .. n + 1
    OBVIOUS
  <2>1. p[i] \in 1 .. n
    BY <1>1
  <2> QED
    BY <2>1
<1> DEFINE e == s[n + 1]
           M == {i \in 0 .. n : i = n \/ s[p[i + 1]] > e}
<1>3. M \in SUBSET Nat /\ n \in M
  OBVIOUS
<1> HIDE DEF M
<1>4. PICK m \in M : \A y \in M : m <= y
  BY <1>3, Least
<1>5. /\ m \in 0 .. n
      /\ m = n \/ s[p[m + 1]] > e
      /\ \A i \in 0 .. n : i < m => i # n /\ ~ (s[p[i + 1]] > e)
  BY <1>3, <1>4 DEF M
<1>6. \A i \in 1 .. n : s[p[i]] \in Nat /\ e \in Nat
  BY <1>2
<1>7. \A i \in 1 .. m : s[p[i]] <= e
  <2> SUFFICES ASSUME NEW i \in 1 .. m
               PROVE  s[p[i]] <= e
    OBVIOUS
  <2>1. i - 1 \in 0 .. n /\ i - 1 < m /\ (i - 1) + 1 = i /\ i \in 1 .. n
    BY <1>5
  <2>2. ~ (s[p[(i - 1) + 1]] > e)
    BY <1>5, <2>1
  <2> HIDE DEF e
  <2> QED
    BY <1>6, <2>1, <2>2
<1>8. \A i \in m + 1 .. n : s[p[i]] > e
  <2> SUFFICES ASSUME NEW i \in m + 1 .. n
               PROVE  s[p[i]] > e
    OBVIOUS
  <2>1. m + 1 \in 1 .. n /\ i \in 1 .. n /\ m # n
    BY <1>5
  <2>2. m + 1 = i \/ m + 1 < i
    BY <1>5
  <2>2a. s[p[m + 1]] > e /\ (m + 1 = i \/ s[p[m + 1]] <= s[p[i]])
    BY <1>1, <1>5, <2>1, <2>2
  <2> HIDE DEF e
  <2> QED
    BY <1>6, <2>1, <2>2a
<1> DEFINE q == [i \in 1 .. n + 1 |->
                    IF i <= m THEN p[i] ELSE IF i = m + 1 THEN n + 1 ELSE p[i - 1]]
<1>9. \A i \in 1 .. n + 1 : /\ i <= m => i \in 1 .. n /\ q[i] = p[i]
                            /\ i = m + 1 => q[i] = n + 1
                            /\ i > m + 1 => i - 1 \in m + 1 .. n /\ i - 1 \in 1 .. n /\ q[i] = p[i - 1]
  BY <1>5
<1>10. q \in [1 .. n + 1 -> 1 .. n + 1]
  BY <1>2, <1>5
<1> HIDE DEF q, e
<1>11. \A x, y \in 1 .. n + 1 : x < y => q[x] # q[y]
  <2> SUFFICES ASSUME NEW x \in 1 .. n + 1, NEW y \in 1 .. n + 1, x < y
               PROVE  q[x] # q[y]
    OBVIOUS
  <2>1. CASE y <= m
    <3>1. x \in 1 .. n /\ y \in 1 .. n /\ q[x] = p[x] /\ q[y] = p[y] /\ x # y
      BY <1>5, <1>9, <2>1
    <3> QED
      BY <1>1, <3>1
  <2>2. CASE y = m + 1
    <3>1. x \in 1 .. n /\ q[x] = p[x] /\ q[y] = n + 1
      BY <1>5, <1>9, <2>2
    <3> QED
      BY <1>2, <3>1
  <2>3. CASE y > m + 1 /\ x <= m
    <3>1. x \in 1 .. n /\ y - 1 \in 1 .. n /\ q[x] = p[x] /\ q[y] = p[y - 1] /\ x # y - 1
      BY <1>5, <1>9, <2>3
    <3> QED
      BY <1>1, <3>1
  <2>4. CASE y > m + 1 /\ x = m + 1
    <3>1. y - 1 \in 1 .. n /\ q[y] = p[y - 1] /\ q[x] = n + 1
      BY <1>5, <1>9, <2>4
    <3> QED
      BY <1>2, <3>1
  <2>5. CASE y > m + 1 /\ x > m + 1
    <3>1. x - 1 \in 1 .. n /\ y - 1 \in 1 .. n /\ q[x] = p[x - 1] /\ q[y] = p[y - 1] /\ x - 1 # y - 1
      BY <1>5, <1>9, <2>5
    <3> QED
      BY <1>1, <3>1
  <2> QED
    BY <1>5, <2>1, <2>2, <2>3, <2>4, <2>5
<1>12. \A x, y \in 1 .. n + 1 : x # y => q[x] # q[y]
  <2>1. \A x, y \in 1 .. n + 1 : x # y => x < y \/ y < x
    OBVIOUS
  <2> QED
    BY <1>11, <2>1
<1>13. \A z \in 1 .. n + 1 : \E x \in 1 .. n + 1 : q[x] = z
  <2> SUFFICES ASSUME NEW z \in 1 .. n + 1
               PROVE  \E x \in 1 .. n + 1 : q[x] = z
    OBVIOUS
  <2>1. CASE z = n + 1
    <3>1. m + 1 \in 1 .. n + 1
      BY <1>5
    <3> QED
      BY <1>9, <2>1, <3>1
  <2>2. CASE z # n + 1
    <3>1. PICK x \in 1 .. n : p[x] = z
      <4>1. z \in 1 .. n
        BY <2>2
      <4> QED
        BY <1>1, <4>1
    <3>2. CASE x <= m
      BY <1>9, <3>1, <3>2
    <3>3. CASE x > m
      <4>1. x + 1 \in 1 .. n + 1 /\ x + 1 > m + 1 /\ (x + 1) - 1 = x
        BY <1>5, <3>3
      <4> QED
        BY <1>9, <3>1, <4>1
    <3> QED
      BY <1>5, <3>2, <3>3
  <2> QED
    BY <2>1, <2>2
<1>14. ASSUME NEW i \in 1 .. n + 1, NEW j \in 1 .. n + 1, i < j
       PROVE  s[q[i]] <= s[q[j]]
  <2>1. CASE j <= m
    <3>1. i \in 1 .. n /\ j \in 1 .. n /\ q[i] = p[i] /\ q[j] = p[j]
      BY <1>5, <1>9, <1>14, <2>1
    <3> QED
      BY <1>1, <1>14, <3>1
  <2>2. CASE j = m + 1
    <3>1. i \in 1 .. m /\ q[i] = p[i] /\ q[j] = n + 1
      BY <1>5, <1>9, <1>14, <2>2
    <3> QED
      BY <1>7, <3>1 DEF e
  <2>3. CASE j > m + 1
    <3>1. j - 1 \in m + 1 .. n /\ j - 1 \in 1 .. n /\ q[j] = p[j - 1]
      BY <1>9, <2>3
    <3>2. CASE i <= m
      <4>1. i \in 1 .. n /\ q[i] = p[i] /\ i < j - 1
        BY <1>5, <1>9, <1>14, <2>3, <3>2
      <4> QED
        BY <1>1, <3>1, <4>1
    <3>3. CASE i = m + 1
      <4>1. s[q[i]] = e /\ s[q[j]] > e
        BY <1>8, <1>9, <3>1, <3>3 DEF e
      <4> QED
        BY <1>6, <3>1, <4>1
    <3>4. CASE i > m + 1
      <4>1. i - 1 \in 1 .. n /\ q[i] = p[i - 1] /\ i - 1 < j - 1
        BY <1>5, <1>9, <1>14, <3>4
      <4> QED
        BY <1>1, <3>1, <4>1
    <3> QED
      BY <1>5, <3>2, <3>3, <3>4
  <2> QED
    BY <1>5, <2>1, <2>2, <2>3
<1>15. OneToOne(q, 1 .. n + 1, 1 .. n + 1)
  BY <1>10, <1>12, <1>13 DEF OneToOne
<1> QED
  BY <1>14, <1>15 DEF Orders

LEMMA Ordering ==
    ASSUME NEW n \in Nat, NEW s \in [1 .. n -> Nat]
    PROVE  \E p : Orders(n, s, p)
<1> DEFINE P == {k \in Nat : \A t \in [1 .. k -> Nat] : \E p : Orders(k, t, p)}
<1>1. 0 \in P
  <2> SUFFICES ASSUME NEW t \in [1 .. 0 -> Nat]
               PROVE  \E p : Orders(0, t, p)
    OBVIOUS
  <2>1. OneToOne([i \in 1 .. 0 |-> i], 1 .. 0, 1 .. 0)
    BY DEF OneToOne
  <2> QED
    BY <2>1 DEF Orders
<1>2. ASSUME NEW k \in P
      PROVE  k + 1 \in P
  <2>1. k \in Nat
    OBVIOUS
  <2> SUFFICES ASSUME NEW t \in [1 .. k + 1 -> Nat]
               PROVE  \E p : Orders(k + 1, t, p)
    BY <2>1
  <2> DEFINE u == [i \in 1 .. k |-> t[i]]
  <2>2. u \in [1 .. k -> Nat]
    BY <2>1
  <2>3. PICK p : Orders(k, u, p)
    BY <2>2
  <2>4. OneToOne(p, 1 .. k, 1 .. k) /\ \A i, j \in 1 .. k : i < j => u[p[i]] <= u[p[j]]
    BY <2>3 DEF Orders
  <2>5. \A i \in 1 .. k : p[i] \in 1 .. k
    BY <2>4 DEF OneToOne
  <2>6. \A i \in 1 .. k : u[p[i]] = t[p[i]]
    BY <2>5
  <2> HIDE DEF u, P
  <2>7. Orders(k, t, p)
    BY <2>4, <2>6 DEF Orders
  <2> QED
    BY <2>1, <2>7, Insertion
<1>3. P = Nat
  <2>1. P \in SUBSET Nat
    OBVIOUS
  <2> HIDE DEF P
  <2> QED
    BY <1>1, <1>2, <2>1, Induction
<1> QED
  BY <1>3

(* The same keys, in another order. *)
Shuffled(t, s) ==
    /\ Len(t) = Len(s)
    /\ \E p : /\ OneToOne(p, 1 .. Len(s), 1 .. Len(s))
              /\ \A i \in 1 .. Len(s) : t[i] = s[p[i]]

(* The keys of a column are those of the queue, in an order.               *)
LEMMA SortedFacts ==
    ASSUME NEW s \in Seq(0 .. 9)
    PROVE  /\ Sorted(s) \in Seq(0 .. 9) /\ Len(Sorted(s)) = Len(s)
           /\ \A i, j \in 1 .. Len(s) : i < j => Sorted(s)[i] <= Sorted(s)[j]
           /\ Shuffled(Sorted(s), s)
<1> DEFINE n == Len(s)
           order == CHOOSE p \in Bijection(DOMAIN s, DOMAIN s) :
                       \A i, j \in DOMAIN s : i < j => s[p[i]] <= s[p[j]]
<1>1. n \in Nat /\ DOMAIN s = 1 .. n /\ s \in [1 .. n -> Nat] /\ \A i \in 1 .. n : s[i] \in 0 .. 9
  OBVIOUS
<1>2. \E p : Orders(n, s, p)
  BY <1>1, Ordering
<1>3. \E p \in Bijection(DOMAIN s, DOMAIN s) :
         \A i, j \in DOMAIN s : i < j => s[p[i]] <= s[p[j]]
  BY <1>1, <1>2, Bijections DEF Orders
<1>4. /\ OneToOne(order, 1 .. n, 1 .. n)
      /\ \A i, j \in 1 .. n : i < j => s[order[i]] <= s[order[j]]
  BY <1>1, <1>3, Bijections
<1>5. Sorted(s) = [i \in 1 .. n |-> s[order[i]]]
  BY <1>1 DEF Sorted
<1> HIDE DEF order, n
<1>6. \A i \in 1 .. n : order[i] \in 1 .. n
  BY <1>4 DEF OneToOne
<1>7. \A i \in 1 .. n : Sorted(s)[i] = s[order[i]]
  BY <1>5
<1>8. Sorted(s) \in Seq(0 .. 9) /\ Len(Sorted(s)) = n
  <2>1. [i \in 1 .. n |-> s[order[i]]] \in [1 .. n -> 0 .. 9]
    BY <1>1, <1>6
  <2> QED
    BY <1>1, <1>5, <2>1
<1> QED
  BY <1>4, <1>7, <1>8 DEF n, Shuffled

-----------------------------------------------------------------------------
(* The width of a stave *)
Sums(stave, f) ==
    /\ f \in [0 .. Len(stave) -> Nat]
    /\ f[0] = 0
    /\ \A i \in 1 .. Len(stave) : f[i] = f[i - 1] + stave[i].width

Totals(stave, f) ==
    f = [n \in 0 .. Len(stave) |-> IF n = 0 THEN 0 ELSE f[n - 1] + stave[n].width]

LEMMA SumsExist ==
    ASSUME NEW S, \A c \in S : c.width \in Nat, NEW stave \in Seq(S)
    PROVE  \E f : Sums(stave, f)
<1> DEFINE m == Len(stave)
           Step == [p \in Nat \X Nat |-> IF p[2] \in 1 .. m THEN p[1] + stave[p[2]].width ELSE 0]
<1>1. m \in Nat /\ \A i \in 1 .. m : stave[i].width \in Nat
  OBVIOUS
<1>2. Step \in [Nat \X Nat -> Nat]
  BY <1>1
<1>3. \A a \in Nat, i \in 1 .. m : Step[<<a, i>>] = a + stave[i].width
  BY <1>1
<1> HIDE DEF Step, m
<1>4. PICK f \in [0 .. m -> Nat] : StepwiseFrom(f, 0, Step, m)
  BY <1>1, <1>2, Recursion
<1>5. ASSUME NEW i \in 1 .. m
      PROVE  f[i] = f[i - 1] + stave[i].width
  <2>1. i - 1 \in 0 .. m
    BY <1>1
  <2>2. f[i - 1] \in Nat
    BY <2>1
  <2> QED
    BY <1>3, <1>4, <2>2 DEF StepwiseFrom
<1> QED
  BY <1>4, <1>5 DEF Sums, StepwiseFrom, m

LEMMA WidthIs ==
    ASSUME NEW S, \A c \in S : c.width \in Nat, NEW stave \in Seq(S),
           NEW f, Sums(stave, f)
    PROVE  Width(stave) = f[Len(stave)]
<1> DEFINE m == Len(stave)
           g == CHOOSE h : Totals(stave, h)
           next(h, n) == IF n = 0 THEN 0 ELSE h[n - 1] + stave[n].width
<1>1. m \in Nat
  OBVIOUS
<1>2. /\ f \in [0 .. m -> Nat] /\ f[0] = 0
      /\ \A i \in 1 .. m : f[i] = f[i - 1] + stave[i].width
  BY DEF Sums
<1>3. Totals(stave, f)
  <2>1. \A i \in 0 .. m : f[i] = next(f, i)
    <3>1. \A i \in 0 .. m : i = 0 \/ i \in 1 .. m
      BY <1>1
    <3> QED
      BY <1>2, <3>1
  <2>2. f = [i \in 0 .. m |-> f[i]]
    BY <1>2
  <2>3. f = [i \in 0 .. m |-> next(f, i)]
    BY <2>1, <2>2
  <2> QED
    BY <2>3 DEF Totals
<1>4. Totals(stave, g)
  BY <1>3
<1>5. Width(stave) = g[m]
  BY DEF Width, Totals
<1> HIDE DEF g, m
<1>6. \A i \in 0 .. m : g[i] = next(g, i)
  <2>1. g = [i \in 0 .. m |-> next(g, i)]
    BY <1>4 DEF Totals, m
  <2> HIDE DEF next
  <2> QED
    BY <2>1, Zenon
<1> DEFINE P == {n \in Nat : n <= m => g[n] = f[n]}
<1>7. 0 \in P
  BY <1>1, <1>2, <1>6
<1>8. ASSUME NEW n \in P
      PROVE  n + 1 \in P
  <2>1. n \in Nat
    OBVIOUS
  <2> SUFFICES ASSUME n + 1 <= m
               PROVE  g[n + 1] = f[n + 1]
    BY <2>1
  <2>2. g[n] = f[n] /\ n + 1 \in 1 .. m /\ n + 1 \in 0 .. m /\ (n + 1) - 1 = n /\ n + 1 # 0
    BY <1>1, <2>1
  <2>3. g[n + 1] = g[n] + stave[n + 1].width
    BY <1>6, <2>2
  <2>4. f[n + 1] = f[n] + stave[n + 1].width
    BY <1>2, <2>2
  <2> QED
    BY <2>2, <2>3, <2>4
<1>9. m \in P
  <2>1. P \in SUBSET Nat
    OBVIOUS
  <2> HIDE DEF P
  <2> QED
    BY <1>1, <1>7, <1>8, <2>1, Induction
<1> QED
  BY <1>1, <1>5, <1>9 DEF m

(* A column widens the stave by its width.                                 *)
LEMMA Widths ==
    ASSUME NEW S, \A c \in S : c.width \in Nat, NEW stave \in Seq(S), NEW column \in S
    PROVE  /\ Width(stave) \in Nat
           /\ Width(Append(stave, column)) = Width(stave) + column.width
<1> DEFINE m == Len(stave)
           longer == Append(stave, column)
<1>1. PICK f : Sums(stave, f)
  BY SumsExist
<1>2. m \in Nat /\ longer \in Seq(S) /\ Len(longer) = m + 1
      /\ longer[m + 1] = column /\ \A i \in 1 .. m : longer[i] = stave[i]
  OBVIOUS
<1>3. Width(stave) = f[m]
  BY <1>1, WidthIs
<1>4. /\ f \in [0 .. m -> Nat] /\ f[0] = 0
      /\ \A i \in 1 .. m : f[i] = f[i - 1] + stave[i].width
  BY <1>1 DEF Sums
<1>5. f[m] \in Nat /\ column.width \in Nat
  BY <1>2, <1>4
<1> HIDE DEF m, longer
<1> DEFINE last == f[m] + column.width
           g == [i \in 0 .. m + 1 |-> IF i = m + 1 THEN last ELSE f[i]]
<1>6. last \in Nat
  BY <1>5
<1> HIDE DEF last
<1>7. /\ g \in [0 .. m + 1 -> Nat] /\ g[m + 1] = last
      /\ \A i \in 0 .. m : g[i] = f[i]
  BY <1>2, <1>4, <1>6
<1> HIDE DEF g
<1>8. g[0] = 0
  BY <1>2, <1>4, <1>7
<1>9. ASSUME NEW i \in 1 .. m + 1
      PROVE  g[i] = g[i - 1] + longer[i].width
  <2>1. CASE i = m + 1
    <3>1. i - 1 = m /\ m \in 0 .. m
      BY <1>2, <2>1
    <3> QED
      BY <1>2, <1>7, <2>1, <3>1 DEF last
  <2>2. CASE i # m + 1
    <3>1. i \in 1 .. m /\ i \in 0 .. m /\ i - 1 \in 0 .. m
      BY <1>2, <2>2
    <3> QED
      BY <1>2, <1>4, <1>7, <3>1
  <2> QED
    BY <2>1, <2>2
<1>10. Sums(longer, g)
  BY <1>2, <1>7, <1>8, <1>9 DEF Sums
<1>11. Width(longer) = g[m + 1]
  BY <1>2, <1>10, WidthIs
<1> QED
  BY <1>3, <1>5, <1>7, <1>11 DEF last, longer

-----------------------------------------------------------------------------
(* The staves of the page, one after the other *)
Strung(page, S, f) ==
    /\ f \in [0 .. Len(page) -> Seq(S)]
    /\ f[0] = <<>>
    /\ \A i \in 1 .. Len(page) : f[i] = f[i - 1] \o page[i]

Flattens(page, f) ==
    f = [i \in 1 .. Len(page) |-> IF i = 1 THEN page[i] ELSE f[i - 1] \o page[i]]

LEMMA StringsExist ==
    ASSUME NEW S, NEW page \in Seq(Seq(S))
    PROVE  \E f : Strung(page, S, f)
<1> DEFINE m == Len(page)
           Step == [p \in Seq(S) \X Nat |-> IF p[2] \in 1 .. m THEN p[1] \o page[p[2]] ELSE <<>>]
<1>1. m \in Nat /\ \A i \in 1 .. m : page[i] \in Seq(S)
  OBVIOUS
<1>2. Step \in [Seq(S) \X Nat -> Seq(S)]
  <2>1. \A a \in Seq(S), b \in Seq(S) : a \o b \in Seq(S)
    OBVIOUS
  <2> HIDE DEF m
  <2> QED
    BY <1>1, <2>1
<1>3. \A a \in Seq(S), i \in 1 .. m : Step[<<a, i>>] = a \o page[i]
  <2> SUFFICES ASSUME NEW a \in Seq(S), NEW i \in 1 .. m
               PROVE  Step[<<a, i>>] = a \o page[i]
    OBVIOUS
  <2>1. <<a, i>> \in Seq(S) \X Nat /\ <<a, i>>[1] = a /\ <<a, i>>[2] = i
    BY <1>1
  <2> HIDE DEF m
  <2> QED
    BY <2>1
<1> HIDE DEF Step, m
<1>4. PICK f \in [0 .. m -> Seq(S)] : StepwiseFrom(f, <<>>, Step, m)
  <2>1. <<>> \in Seq(S)
    OBVIOUS
  <2> QED
    BY <1>1, <1>2, <2>1, Recursion
<1>5. ASSUME NEW i \in 1 .. m
      PROVE  f[i] = f[i - 1] \o page[i]
  <2>1. i - 1 \in 0 .. m
    BY <1>1
  <2>2. f[i - 1] \in Seq(S)
    BY <2>1
  <2> QED
    BY <1>3, <1>4, <2>2 DEF StepwiseFrom
<1> QED
  BY <1>4, <1>5 DEF Strung, StepwiseFrom, m

LEMMA FlattenIs ==
    ASSUME NEW S, NEW page \in Seq(Seq(S)), NEW f, Strung(page, S, f)
    PROVE  FlattenSeq(page) = f[Len(page)]
<1> DEFINE m == Len(page)
           g == CHOOSE h : Flattens(page, h)
           next(h, n) == IF n = 1 THEN page[n] ELSE h[n - 1] \o page[n]
<1>1. m \in Nat /\ \A i \in 1 .. m : page[i] \in Seq(S)
  OBVIOUS
<1>2. /\ f \in [0 .. m -> Seq(S)] /\ f[0] = <<>>
      /\ \A i \in 1 .. m : f[i] = f[i - 1] \o page[i]
  BY DEF Strung
<1>3. CASE m = 0
  <2>1. page = <<>>
    BY <1>3
  <2> QED
    BY <1>2, <1>3, <2>1 DEF FlattenSeq
<1>4. CASE m # 0
  <2> DEFINE e == [i \in 1 .. m |-> f[i]]
  <2>0. \A i \in 1 .. m : e[i] = f[i]
    OBVIOUS
  <2>1. \A i \in 1 .. m : e[i] = next(e, i)
    <3> SUFFICES ASSUME NEW i \in 1 .. m
                 PROVE  e[i] = next(e, i)
      OBVIOUS
    <3>1. CASE i = 1
      <4>1. 1 \in 1 .. m /\ 1 - 1 = 0
        BY <1>1, <1>4
      <4>2. f[1] = f[1 - 1] \o page[1] /\ page[1] \in Seq(S)
        BY <1>1, <1>2, <4>1
      <4>3. f[1] = <<>> \o page[1]
        BY <1>2, <4>1, <4>2
      <4>4. f[1] = page[1]
        BY <4>2, <4>3
      <4> HIDE DEF e, m
      <4> QED
        BY <2>0, <3>1, <4>1, <4>4
    <3>2. CASE i # 1
      <4>1. i - 1 \in 1 .. m
        BY <1>1, <3>2
      <4> QED
        BY <1>2, <2>0, <3>2, <4>1
    <3> QED
      BY <3>1, <3>2
  <2>2. e = [i \in 1 .. m |-> next(e, i)]
    <3>1. e = [i \in 1 .. m |-> e[i]]
      BY <2>0
    <3> HIDE DEF e, next
    <3> QED
      BY <2>1, <3>1
  <2>3. Flattens(page, e)
    BY <2>2 DEF Flattens
  <2> HIDE DEF e
  <2>4. Flattens(page, g)
    BY <2>3
  <2>5. FlattenSeq(page) = g[m]
    BY <1>4 DEF FlattenSeq, Flattens
  <2> HIDE DEF g, m
  <2>6. \A i \in 1 .. m : g[i] = next(g, i)
    <3>1. g = [i \in 1 .. m |-> next(g, i)]
      BY <2>4 DEF Flattens, m
    <3> HIDE DEF next
    <3> QED
      BY <3>1, Zenon
  <2> DEFINE P == {n \in Nat : n \in 1 .. m => g[n] = f[n]}
  <2>7. 0 \in P
    BY <1>1
  <2>8. ASSUME NEW n \in P
        PROVE  n + 1 \in P
    <3>1. n \in Nat
      OBVIOUS
    <3> SUFFICES ASSUME n + 1 \in 1 .. m
                 PROVE  g[n + 1] = f[n + 1]
      BY <3>1
    <3>2. CASE n = 0
      <4>1. 1 \in 1 .. m /\ 1 - 1 = 0
        BY <1>1, <1>4
      <4>2. f[1] = f[1 - 1] \o page[1] /\ page[1] \in Seq(S)
        BY <1>1, <1>2, <4>1
      <4>3. f[1] = <<>> \o page[1]
        BY <1>2, <4>1, <4>2
      <4>4. f[1] = page[1] /\ g[1] = page[1]
        BY <2>6, <4>1, <4>2, <4>3
      <4> QED
        BY <3>2, <4>4
    <3>3. CASE n # 0
      <4>1. n \in 1 .. m /\ (n + 1) - 1 = n /\ n + 1 # 1
        BY <1>1, <3>1, <3>3
      <4>2. g[n + 1] = g[n] \o page[n + 1] /\ f[n + 1] = f[n] \o page[n + 1]
        BY <1>2, <2>6, <4>1
      <4> QED
        BY <4>1, <4>2
    <3> QED
      BY <3>2, <3>3
  <2>9. m \in P
    <3>1. P \in SUBSET Nat
      OBVIOUS
    <3> HIDE DEF P
    <3> QED
      BY <1>1, <2>7, <2>8, <3>1, Induction
  <2> QED
    BY <1>1, <1>4, <2>5, <2>9 DEF m
<1> QED
  BY <1>3, <1>4

(* A stave adds its columns to those of the page.                          *)
LEMMA Flattened ==
    ASSUME NEW S, NEW page \in Seq(Seq(S)), NEW stave \in Seq(S)
    PROVE  /\ FlattenSeq(page) \in Seq(S)
           /\ FlattenSeq(Append(page, stave)) = FlattenSeq(page) \o stave
<1> DEFINE m == Len(page)
           longer == Append(page, stave)
<1>1. PICK f : Strung(page, S, f)
  BY StringsExist
<1>2. m \in Nat /\ longer \in Seq(Seq(S)) /\ Len(longer) = m + 1
      /\ longer[m + 1] = stave /\ \A i \in 1 .. m : longer[i] = page[i]
  OBVIOUS
<1>3. FlattenSeq(page) = f[m]
  BY <1>1, FlattenIs
<1>4. /\ f \in [0 .. m -> Seq(S)] /\ f[0] = <<>>
      /\ \A i \in 1 .. m : f[i] = f[i - 1] \o page[i]
  BY <1>1 DEF Strung
<1>5. f[m] \in Seq(S)
  BY <1>2, <1>4
<1> HIDE DEF m, longer
<1> DEFINE last == f[m] \o stave
           g == [i \in 0 .. m + 1 |-> IF i = m + 1 THEN last ELSE f[i]]
<1>6. last \in Seq(S)
  BY <1>5
<1> HIDE DEF last
<1>7. /\ g \in [0 .. m + 1 -> Seq(S)] /\ g[m + 1] = last
      /\ \A i \in 0 .. m : g[i] = f[i]
  BY <1>2, <1>4, <1>6
<1> HIDE DEF g
<1>8. g[0] = <<>>
  BY <1>2, <1>4, <1>7
<1>9. ASSUME NEW i \in 1 .. m + 1
      PROVE  g[i] = g[i - 1] \o longer[i]
  <2>1. CASE i = m + 1
    <3>1. i - 1 = m /\ m \in 0 .. m
      BY <1>2, <2>1
    <3> QED
      BY <1>2, <1>7, <2>1, <3>1 DEF last
  <2>2. CASE i # m + 1
    <3>1. i \in 1 .. m /\ i \in 0 .. m /\ i - 1 \in 0 .. m
      BY <1>2, <2>2
    <3> QED
      BY <1>2, <1>4, <1>7, <3>1
  <2> QED
    BY <2>1, <2>2
<1>10. Strung(longer, S, g)
  BY <1>2, <1>7, <1>8, <1>9 DEF Strung
<1>11. FlattenSeq(longer) = g[m + 1]
  BY <1>2, <1>10, FlattenIs
<1> QED
  BY <1>3, <1>5, <1>7, <1>11 DEF last, longer

-----------------------------------------------------------------------------
(* What the tablature tells *)

(* The columns for n courses, and those of them whose keys are sorted.     *)
Drafts(n) == [keys : [1 .. n -> Seq(0 .. 9)], width : Nat]
Columns(n) ==
    {column \in Drafts(n) : \A c \in 1 .. n : \A i, j \in 1 .. Len(column.keys[c]) :
                              i < j => column.keys[c][i] <= column.keys[c][j]}

(* A raw file, its keys that have one of n courses, and its late keys.     *)
Sessions == Seq([time : Nat, course : Nat, key : 0 .. 9, timeout : Nat])
Players(r, n) == {i \in DOMAIN r : r[i].course <= n}
Gap(r, i, j) == \E k \in i + 1 .. j : r[k].time - r[i].time > r[k].timeout

(* Where the text has keys. *)
Spots(text, n) ==
    {s \in (DOMAIN text) \X (1 .. n) \X Nat : s[3] \in DOMAIN text[s[1]].keys[s[2]]}

(* The text has the keys of the raw file in the given places.              *)
Tells(text, r, n, place) ==
    /\ OneToOne(place, Players(r, n), Spots(text, n))
    /\ \A i \in Players(r, n) :
         /\ place[i][2] = CourseOf(r[i].course, n)
         /\ text[place[i][1]].keys[place[i][2]][place[i][3]] = r[i].key
    /\ \A i, j \in Players(r, n) : i < j /\ (\A k \in Players(r, n) : k <= i \/ j <= k)
         => IF Gap(r, i, j) THEN place[i][1] < place[j][1] ELSE place[i][1] = place[j][1]

LEMMA SpotFacts ==
    ASSUME NEW n \in Nat, NEW text \in Seq(Drafts(n)), NEW s
    PROVE  s \in Spots(text, n) <=>
             /\ s = <<s[1], s[2], s[3]>>
             /\ s[1] \in 1 .. Len(text) /\ s[2] \in 1 .. n
             /\ s[3] \in 1 .. Len(text[s[1]].keys[s[2]])
<1>1. DOMAIN text = 1 .. Len(text)
  OBVIOUS
<1>2. ASSUME NEW m \in 1 .. Len(text), NEW c \in 1 .. n
      PROVE  /\ text[m].keys[c] \in Seq(0 .. 9) /\ Len(text[m].keys[c]) \in Nat
             /\ DOMAIN text[m].keys[c] = 1 .. Len(text[m].keys[c])
  <2>1. text[m] \in Drafts(n)
    OBVIOUS
  <2>2. text[m].keys \in [1 .. n -> Seq(0 .. 9)]
    BY <2>1 DEF Drafts
  <2>3. text[m].keys[c] \in Seq(0 .. 9)
    BY <2>2
  <2> QED
    BY <2>3
<1>3. ASSUME s \in Spots(text, n)
      PROVE  /\ s = <<s[1], s[2], s[3]>>
             /\ s[1] \in 1 .. Len(text) /\ s[2] \in 1 .. n
             /\ s[3] \in 1 .. Len(text[s[1]].keys[s[2]])
  <2>1. s \in (DOMAIN text) \X (1 .. n) \X Nat /\ s[3] \in DOMAIN text[s[1]].keys[s[2]]
    BY <1>3 DEF Spots
  <2>2. s = <<s[1], s[2], s[3]>> /\ s[1] \in 1 .. Len(text) /\ s[2] \in 1 .. n
    BY <2>1
  <2> QED
    BY <1>2, <2>1, <2>2
<1>4. ASSUME s = <<s[1], s[2], s[3]>>, s[1] \in 1 .. Len(text), s[2] \in 1 .. n,
             s[3] \in 1 .. Len(text[s[1]].keys[s[2]])
      PROVE  s \in Spots(text, n)
  <2>1. s[3] \in Nat /\ s[3] \in DOMAIN text[s[1]].keys[s[2]]
    BY <1>2, <1>4
  <2>2. s \in (DOMAIN text) \X (1 .. n) \X Nat
    BY <1>1, <1>4, <2>1
  <2> QED
    BY <2>1, <2>2 DEF Spots
<1> QED
  BY <1>3, <1>4

(* An empty column at the end changes nothing. *)
LEMMA EmptyColumn ==
    ASSUME NEW n \in Nat, NEW text \in Seq(Drafts(n)), NEW column \in Drafts(n),
           \A c \in 1 .. n : column.keys[c] = <<>>,
           NEW r, NEW place, Tells(text, r, n, place)
    PROVE  Tells(Append(text, column), r, n, place)
<1> DEFINE m == Len(text)
           longer == Append(text, column)
<1>1. /\ m \in Nat /\ longer \in Seq(Drafts(n)) /\ Len(longer) = m + 1
      /\ longer[m + 1] = column /\ \A i \in 1 .. m : longer[i] = text[i]
  OBVIOUS
<1> HIDE DEF m, longer
<1>2. ASSUME NEW s
      PROVE  s \in Spots(longer, n) <=> s \in Spots(text, n)
  <2>1. CASE s[1] \in 1 .. m
    <3>1. s[1] \in 1 .. m + 1 /\ longer[s[1]] = text[s[1]]
      BY <1>1, <2>1
    <3> QED
      BY <1>1, <2>1, <3>1, SpotFacts DEF m
  <2>2. CASE s[1] \notin 1 .. m
    <3>1. s \notin Spots(text, n)
      BY <2>2, SpotFacts DEF m
    <3>2. ASSUME s \in Spots(longer, n)
          PROVE  FALSE
      <4>1. s[1] \in 1 .. m + 1 /\ s[2] \in 1 .. n /\ s[3] \in 1 .. Len(longer[s[1]].keys[s[2]])
        BY <1>1, <3>2, SpotFacts
      <4>2. s[1] = m + 1
        BY <1>1, <2>2, <4>1
      <4>3. longer[s[1]].keys[s[2]] = <<>>
        BY <1>1, <4>1, <4>2
      <4> QED
        BY <4>1, <4>3
    <3> QED
      BY <3>1, <3>2
  <2> QED
    BY <2>1, <2>2
<1>3. Spots(longer, n) = Spots(text, n)
  <2>1. Spots(longer, n) \subseteq Spots(text, n) /\ Spots(text, n) \subseteq Spots(longer, n)
    BY <1>2
  <2> QED
    BY <2>1
<1>4. \A i \in Players(r, n) : longer[place[i][1]] = text[place[i][1]]
  <2> SUFFICES ASSUME NEW i \in Players(r, n)
               PROVE  longer[place[i][1]] = text[place[i][1]]
    OBVIOUS
  <2>1. place[i] \in Spots(text, n)
    BY DEF Tells, OneToOne
  <2>2. place[i][1] \in 1 .. m
    BY <2>1, SpotFacts DEF m
  <2> QED
    BY <1>1, <2>2
<1> QED
  BY <1>3, <1>4 DEF Tells, longer

(* Nor does it matter in which order a course has its keys of the last     *)
(* column.                                                                 *)
LEMMA Reordered ==
    ASSUME NEW n \in Nat, NEW text \in Seq(Drafts(n)),
           NEW a \in Drafts(n), NEW b \in Drafts(n),
           \A c \in 1 .. n : Shuffled(b.keys[c], a.keys[c]),
           NEW r, NEW place, Tells(Append(text, a), r, n, place)
    PROVE  \E other : /\ Tells(Append(text, b), r, n, other)
                      /\ \A i \in Players(r, n) : other[i][1] = place[i][1]
<1> DEFINE m == Len(text)
           A == Append(text, a)
           B == Append(text, b)
           P == Players(r, n)
           len(c) == Len(a.keys[c])
           Perm(c, p) == /\ OneToOne(p, 1 .. len(c), 1 .. len(c))
                         /\ \A i \in 1 .. len(c) : b.keys[c][i] = a.keys[c][p[i]]
           perm(c) == CHOOSE p : Perm(c, p)
           back(c, x) == CHOOSE y \in 1 .. len(c) : perm(c)[y] = x
<1>1. /\ m \in Nat /\ A \in Seq(Drafts(n)) /\ Len(A) = m + 1 /\ A[m + 1] = a
      /\ B \in Seq(Drafts(n)) /\ Len(B) = m + 1 /\ B[m + 1] = b
      /\ \A i \in 1 .. m : A[i] = B[i]
  OBVIOUS
<1>2. \A c \in 1 .. n : Perm(c, perm(c)) /\ Len(b.keys[c]) = len(c)
  <2> SUFFICES ASSUME NEW c \in 1 .. n
               PROVE  Perm(c, perm(c)) /\ Len(b.keys[c]) = len(c)
    OBVIOUS
  <2>1. Shuffled(b.keys[c], a.keys[c])
    OBVIOUS
  <2>2. \E p : Perm(c, p)
    BY <2>1 DEF Shuffled
  <2> QED
    BY <2>1, <2>2 DEF Shuffled
<1> HIDE DEF perm, len
<1>3. ASSUME NEW c \in 1 .. n, NEW x \in 1 .. len(c)
      PROVE  back(c, x) \in 1 .. len(c) /\ perm(c)[back(c, x)] = x
                                        /\ b.keys[c][back(c, x)] = a.keys[c][x]
  <2>1. \E y \in 1 .. len(c) : perm(c)[y] = x
    BY <1>2 DEF OneToOne
  <2>2. back(c, x) \in 1 .. len(c) /\ perm(c)[back(c, x)] = x
    BY <2>1
  <2> HIDE DEF back
  <2> QED
    BY <1>2, <2>2
<1>4. ASSUME NEW c \in 1 .. n, NEW y \in 1 .. len(c)
      PROVE  perm(c)[y] \in 1 .. len(c) /\ back(c, perm(c)[y]) = y
  <2>0. OneToOne(perm(c), 1 .. len(c), 1 .. len(c))
    BY <1>2
  <2>1. /\ perm(c)[y] \in 1 .. len(c)
        /\ \A z \in 1 .. len(c) : z # y => perm(c)[z] # perm(c)[y]
    BY <2>0 DEF OneToOne
  <2>2. back(c, perm(c)[y]) \in 1 .. len(c) /\ perm(c)[back(c, perm(c)[y])] = perm(c)[y]
    BY <1>3, <2>1
  <2> HIDE DEF back
  <2> QED
    BY <2>1, <2>2
<1> HIDE DEF back, A, B, P, m
<1>5. /\ OneToOne(place, P, Spots(A, n))
      /\ \A i \in P : /\ place[i][2] = CourseOf(r[i].course, n)
                       /\ A[place[i][1]].keys[place[i][2]][place[i][3]] = r[i].key
      /\ \A i, j \in P : i < j /\ (\A k \in P : k <= i \/ j <= k)
           => IF Gap(r, i, j) THEN place[i][1] < place[j][1] ELSE place[i][1] = place[j][1]
  BY DEF Tells, A, P
<1>6. \A i \in P : /\ place[i] \in Spots(A, n)
                   /\ place[i] = <<place[i][1], place[i][2], place[i][3]>>
                   /\ place[i][1] \in 1 .. m + 1 /\ place[i][2] \in 1 .. n
                   /\ place[i][3] \in 1 .. Len(A[place[i][1]].keys[place[i][2]])
  <2> SUFFICES ASSUME NEW i \in P
               PROVE  /\ place[i] \in Spots(A, n)
                      /\ place[i] = <<place[i][1], place[i][2], place[i][3]>>
                      /\ place[i][1] \in 1 .. m + 1 /\ place[i][2] \in 1 .. n
                      /\ place[i][3] \in 1 .. Len(A[place[i][1]].keys[place[i][2]])
    OBVIOUS
  <2>1. place[i] \in Spots(A, n)
    BY <1>5 DEF OneToOne
  <2> QED
    BY <1>1, <2>1, SpotFacts
<1> DEFINE moved(t) == IF t[1] = m + 1 THEN <<m + 1, t[2], back(t[2], t[3])>> ELSE t
           other == [i \in P |-> moved(place[i])]
<1>7. ASSUME NEW t \in Spots(A, n)
      PROVE  /\ moved(t) \in Spots(B, n)
             /\ moved(t)[1] = t[1] /\ moved(t)[2] = t[2]
             /\ t[1] = m + 1 => moved(t)[3] = back(t[2], t[3]) /\ t[3] \in 1 .. len(t[2])
             /\ t[1] # m + 1 => moved(t) = t
             /\ B[t[1]].keys[t[2]][moved(t)[3]] = A[t[1]].keys[t[2]][t[3]]
             /\ t[2] \in 1 .. n
             /\ t = <<t[1], t[2], t[3]>>
  <2>1. /\ t = <<t[1], t[2], t[3]>> /\ t[1] \in 1 .. m + 1 /\ t[2] \in 1 .. n
        /\ t[3] \in 1 .. Len(A[t[1]].keys[t[2]])
    BY <1>1, SpotFacts
  <2>2. CASE t[1] = m + 1
    <3>1. moved(t) = <<m + 1, t[2], back(t[2], t[3])>>
      BY <2>2
    <3> HIDE DEF moved
    <3>2. moved(t)[1] = m + 1 /\ moved(t)[2] = t[2] /\ moved(t)[3] = back(t[2], t[3])
      BY <3>1
    <3>3. t[3] \in 1 .. len(t[2])
      BY <1>1, <2>1, <2>2 DEF len
    <3>4. /\ back(t[2], t[3]) \in 1 .. len(t[2])
          /\ b.keys[t[2]][back(t[2], t[3])] = a.keys[t[2]][t[3]]
      BY <1>3, <2>1, <3>3
    <3>5. Len(B[m + 1].keys[t[2]]) = len(t[2]) /\ m + 1 \in 1 .. m + 1
      BY <1>1, <1>2, <2>1
    <3>6. moved(t) \in Spots(B, n)
      BY <1>1, <2>1, <3>1, <3>2, <3>4, <3>5, SpotFacts
    <3> QED
      BY <1>1, <2>1, <2>2, <3>2, <3>3, <3>4, <3>6
  <2>3. CASE t[1] # m + 1
    <3>1. moved(t) = t
      BY <2>3
    <3> HIDE DEF moved
    <3>2. B[t[1]] = A[t[1]]
      BY <1>1, <2>1, <2>3
    <3>3. t \in Spots(B, n)
      BY <1>1, <2>1, <3>2, SpotFacts
    <3> QED
      BY <2>1, <2>3, <3>1, <3>2, <3>3
  <2> QED
    BY <2>2, <2>3
<1>8. ASSUME NEW t \in Spots(A, n), NEW u \in Spots(A, n), moved(t) = moved(u)
      PROVE  t = u
  <2>1. t[1] = u[1] /\ t[2] = u[2]
    <3> HIDE DEF moved
    <3> QED
      BY <1>7, <1>8
  <2>2. CASE t[1] = m + 1
    <3>1. back(t[2], t[3]) = back(t[2], u[3]) /\ t[3] \in 1 .. len(t[2])
          /\ u[3] \in 1 .. len(t[2]) /\ t[2] \in 1 .. n
      <4> HIDE DEF moved
      <4> QED
        BY <1>7, <1>8, <2>1, <2>2
    <3>2. t[3] = u[3]
      <4>1. perm(t[2])[back(t[2], t[3])] = t[3] /\ perm(t[2])[back(t[2], u[3])] = u[3]
        BY <1>3, <3>1
      <4> HIDE DEF moved
      <4> QED
        BY <3>1, <4>1
    <3> HIDE DEF moved
    <3> QED
      BY <1>7, <2>1, <3>2
  <2>3. CASE t[1] # m + 1
    <3> HIDE DEF moved
    <3> QED
      BY <1>7, <1>8, <2>1, <2>3
  <2> QED
    BY <2>2, <2>3
<1>9. ASSUME NEW s \in Spots(B, n)
      PROVE  \E t \in Spots(A, n) : moved(t) = s
  <2>1. /\ s = <<s[1], s[2], s[3]>> /\ s[1] \in 1 .. m + 1 /\ s[2] \in 1 .. n
        /\ s[3] \in 1 .. Len(B[s[1]].keys[s[2]])
    BY <1>1, SpotFacts
  <2>2. CASE s[1] = m + 1
    <3>1. s[3] \in 1 .. len(s[2])
      BY <1>1, <1>2, <2>1, <2>2
    <3> DEFINE x == perm(s[2])[s[3]]
               t == <<m + 1, s[2], x>>
    <3>2. x \in 1 .. len(s[2]) /\ back(s[2], x) = s[3]
      BY <1>4, <2>1, <3>1
    <3> HIDE DEF x
    <3>3. t = <<t[1], t[2], t[3]>> /\ t[1] = m + 1 /\ t[2] = s[2] /\ t[3] = x
      OBVIOUS
    <3>4. moved(t) = s
      BY <2>1, <2>2, <3>2, <3>3
    <3> HIDE DEF t, moved
    <3>5. t[1] \in 1 .. m + 1 /\ t[3] \in 1 .. Len(A[t[1]].keys[t[2]])
      BY <1>1, <3>2, <3>3 DEF len
    <3>6. t \in Spots(A, n)
      BY <1>1, <2>1, <3>3, <3>5, SpotFacts
    <3> QED
      BY <3>4, <3>6
  <2>3. CASE s[1] # m + 1
    <3>1. moved(s) = s
      BY <2>3
    <3>2. B[s[1]] = A[s[1]]
      BY <1>1, <2>1, <2>3
    <3>3. s \in Spots(A, n)
      BY <1>1, <2>1, <3>2, SpotFacts
    <3> HIDE DEF moved
    <3> QED
      BY <3>1, <3>3
  <2> QED
    BY <2>2, <2>3
<1> HIDE DEF moved
<1>10. \A i \in P : other[i] = moved(place[i])
  OBVIOUS
<1>11. other \in [P -> Spots(B, n)]
  BY <1>6, <1>7
<1> HIDE DEF other
<1>12. \A i, j \in P : i # j => other[i] # other[j]
  <2> SUFFICES ASSUME NEW i \in P, NEW j \in P, i # j, other[i] = other[j]
               PROVE  FALSE
    OBVIOUS
  <2>1. place[i] = place[j]
    BY <1>6, <1>8, <1>10
  <2> QED
    BY <1>5, <2>1 DEF OneToOne
<1>13. \A s \in Spots(B, n) : \E i \in P : other[i] = s
  <2> SUFFICES ASSUME NEW s \in Spots(B, n)
               PROVE  \E i \in P : other[i] = s
    OBVIOUS
  <2>1. PICK t \in Spots(A, n) : moved(t) = s
    BY <1>9
  <2>2. PICK i \in P : place[i] = t
    BY <1>5 DEF OneToOne
  <2> QED
    BY <1>10, <2>1, <2>2
<1>14. \A i \in P : /\ other[i][1] = place[i][1] /\ other[i][2] = place[i][2]
                    /\ B[other[i][1]].keys[other[i][2]][other[i][3]]
                          = A[place[i][1]].keys[place[i][2]][place[i][3]]
  <2> SUFFICES ASSUME NEW i \in P
               PROVE  /\ other[i][1] = place[i][1] /\ other[i][2] = place[i][2]
                      /\ B[other[i][1]].keys[other[i][2]][other[i][3]]
                            = A[place[i][1]].keys[place[i][2]][place[i][3]]
    OBVIOUS
  <2>1. place[i] \in Spots(A, n) /\ other[i] = moved(place[i])
    BY <1>6, <1>10
  <2>2. /\ moved(place[i])[1] = place[i][1] /\ moved(place[i])[2] = place[i][2]
        /\ B[place[i][1]].keys[place[i][2]][moved(place[i])[3]]
              = A[place[i][1]].keys[place[i][2]][place[i][3]]
    BY <1>7, <2>1
  <2> QED
    BY <2>1, <2>2
<1>15. OneToOne(other, P, Spots(B, n))
  BY <1>11, <1>12, <1>13 DEF OneToOne
<1>16. Tells(B, r, n, other)
  BY <1>5, <1>14, <1>15 DEF Tells, P
<1> QED
  BY <1>14, <1>16 DEF P, B

(* One more key in the raw file *)
Strokes == [time : Nat, course : Nat, key : 0 .. 9, timeout : Nat]

LEMMA Grown ==
    ASSUME NEW n \in Nat, NEW r \in Sessions, NEW k \in Strokes
    PROVE  /\ Append(r, k) \in Sessions /\ Len(Append(r, k)) = Len(r) + 1 /\ Len(r) \in Nat
           /\ Append(r, k)[Len(r) + 1] = k
           /\ Players(r, n) \subseteq 1 .. Len(r)
           /\ \A i \in 1 .. Len(r) : Append(r, k)[i] = r[i] /\ r[i] \in Strokes
           /\ Players(Append(r, k), n) = Players(r, n) \cup (IF k.course <= n THEN {Len(r) + 1} ELSE {})
           /\ \A i, j \in 1 .. Len(r) : Gap(Append(r, k), i, j) <=> Gap(r, i, j)
           /\ \A i \in 1 .. Len(r) : Gap(Append(r, k), i, Len(r) + 1)
                                         <=> Gap(r, i, Len(r)) \/ k.time - r[i].time > k.timeout
<1> DEFINE l == Len(r)
           t == Append(r, k)
<1>1. /\ t \in Sessions /\ Len(t) = l + 1 /\ l \in Nat /\ t[l + 1] = k
      /\ \A i \in 1 .. l : t[i] = r[i] /\ r[i] \in Strokes
      /\ DOMAIN t = 1 .. l + 1 /\ DOMAIN r = 1 .. l
  <2>1. Sessions = Seq(Strokes)
    BY DEF Sessions, Strokes
  <2>2. r \in Seq(Strokes)
    BY <2>1
  <2>3. /\ t \in Seq(Strokes) /\ Len(t) = l + 1 /\ l \in Nat /\ t[l + 1] = k
        /\ \A i \in 1 .. l : t[i] = r[i] /\ r[i] \in Strokes
        /\ DOMAIN t = 1 .. l + 1 /\ DOMAIN r = 1 .. l
    BY <2>2
  <2> QED
    BY <2>1, <2>3
<1> HIDE DEF l, t
<1>2. 1 .. l + 1 = (1 .. l) \cup {l + 1} /\ l + 1 \notin 1 .. l
  BY <1>1
<1>3. Players(r, n) \subseteq 1 .. l
  BY <1>1 DEF Players
<1>4. Players(t, n) = Players(r, n) \cup (IF k.course <= n THEN {l + 1} ELSE {})
  <2>1. \A i : i \in Players(t, n) <=> (i \in 1 .. l \/ i = l + 1) /\ t[i].course <= n
    BY <1>1, <1>2 DEF Players
  <2>2. \A i : i \in Players(r, n) <=> i \in 1 .. l /\ r[i].course <= n
    BY <1>1 DEF Players
  <2>3. \A i : i \in Players(t, n) <=> i \in Players(r, n) \/ (i = l + 1 /\ k.course <= n)
    BY <1>1, <1>2, <2>1, <2>2
  <2> QED
    BY <2>3
<1>5. \A i, j \in 1 .. l : Gap(t, i, j) <=> Gap(r, i, j)
  <2> SUFFICES ASSUME NEW i \in 1 .. l, NEW j \in 1 .. l
               PROVE  Gap(t, i, j) <=> Gap(r, i, j)
    OBVIOUS
  <2>1. \A x \in i + 1 .. j : x \in 1 .. l
    BY <1>1
  <2>2. \A x \in i + 1 .. j : t[x] = r[x] /\ t[i] = r[i]
    BY <1>1, <2>1
  <2> QED
    BY <2>2 DEF Gap
<1>6. \A i \in 1 .. l : Gap(t, i, l + 1) <=> Gap(r, i, l) \/ k.time - r[i].time > k.timeout
  <2> SUFFICES ASSUME NEW i \in 1 .. l
               PROVE  Gap(t, i, l + 1) <=> Gap(r, i, l) \/ k.time - r[i].time > k.timeout
    OBVIOUS
  <2>1. \A x : x \in i + 1 .. l + 1 <=> x \in i + 1 .. l \/ x = l + 1
    BY <1>1
  <2>2. \A x \in i + 1 .. l : x \in 1 .. l
    BY <1>1
  <2>3. \A x \in i + 1 .. l : t[x] = r[x]
    BY <1>1, <2>2
  <2> QED
    BY <1>1, <2>1, <2>3 DEF Gap
<1> QED
  BY <1>1, <1>3, <1>4, <1>5, <1>6 DEF l, t

(* A key that has no course is not in the text. *)
LEMMA Beyond ==
    ASSUME NEW n \in Nat, NEW r \in Sessions, NEW k \in Strokes, ~ (k.course <= n),
           NEW text, NEW place, Tells(text, r, n, place)
    PROVE  Tells(text, Append(r, k), n, place)
<1> DEFINE t == Append(r, k)
<1>1. Players(t, n) = Players(r, n) /\ Players(r, n) \subseteq 1 .. Len(r)
  <2>1. Players(t, n) = Players(r, n) \cup (IF k.course <= n THEN {Len(r) + 1} ELSE {})
    BY Grown
  <2>2. Players(r, n) \subseteq 1 .. Len(r)
    BY Grown
  <2> QED
    BY <2>1, <2>2
<1>2. \A i, j \in Players(r, n) : t[i] = r[i] /\ (Gap(t, i, j) <=> Gap(r, i, j))
  BY <1>1, Grown
<1> HIDE DEF t
<1> QED
  BY <1>1, <1>2 DEF Tells, t

(* The last of the keys that have a course. *)
Latest(r, n, p) == p \in Players(r, n) /\ \A i \in Players(r, n) : i <= p

(* The last key that has a course is in the column that is being played,   *)
(* unless a key was late after it.                                         *)
Current(r, n, place, m) ==
    \A p : Latest(r, n, p) =>
       IF Gap(r, p, Len(r)) THEN place[p][1] < m + 1 ELSE place[p][1] = m + 1

(* The same, before the key k is written to the raw file. *)
Awaiting(r, n, k, place, m) ==
    \A p : Latest(r, n, p) =>
       IF Gap(Append(r, k), p, Len(r) + 1) THEN place[p][1] < m + 1 ELSE place[p][1] = m + 1

(* The queue when the chord has been rendered, and with a key in it.       *)
Emptied(n) == [c \in 1 .. n |-> <<>>]
With(q, n, k) ==
    IF k.course <= n THEN [q EXCEPT ![CourseOf(k.course, n)] = Append(@, k.key)] ELSE q

(* A key that has one is put behind the keys of its course in the last     *)
(* column; that is where the key before it is, if it is not too late.      *)
LEMMA Joined ==
    ASSUME NEW n \in Nat, NEW r \in Sessions, NEW k \in Strokes, k.course <= n,
           CourseOf(k.course, n) \in 1 .. n,
           NEW text \in Seq(Drafts(n)), NEW a \in Drafts(n), NEW b \in Drafts(n),
           b.keys = With(a.keys, n, k),
           NEW place, Tells(Append(text, a), r, n, place), Awaiting(r, n, k, place, Len(text))
    PROVE  \E other : /\ Tells(Append(text, b), Append(r, k), n, other)
                      /\ other[Len(r) + 1][1] = Len(text) + 1
<1> DEFINE m == Len(text)
           l == Len(r)
           t == Append(r, k)
           A == Append(text, a)
           B == Append(text, b)
           P == Players(r, n)
           Q == Players(t, n)
           c == CourseOf(k.course, n)
           x == Len(a.keys[c]) + 1
           spot == <<m + 1, c, x>>
           other == [i \in Q |-> IF i = l + 1 THEN spot ELSE place[i]]
<1>1. /\ m \in Nat /\ A \in Seq(Drafts(n)) /\ Len(A) = m + 1 /\ A[m + 1] = a
      /\ B \in Seq(Drafts(n)) /\ Len(B) = m + 1 /\ B[m + 1] = b
      /\ \A i \in 1 .. m : A[i] = B[i]
  OBVIOUS
<1>2. /\ l \in Nat /\ t[l + 1] = k /\ P \subseteq 1 .. l /\ Q = P \cup {l + 1}
      /\ \A i \in P : t[i] = r[i]
      /\ \A i, j \in P : Gap(t, i, j) <=> Gap(r, i, j)
  BY Grown
<1>3. l + 1 \notin P
  BY <1>2
<1>4. /\ c \in 1 .. n /\ x \in Nat
      /\ \A d \in 1 .. n : a.keys[d] \in Seq(0 .. 9)
      /\ \A d \in 1 .. n : d # c => b.keys[d] = a.keys[d]
      /\ b.keys[c] = Append(a.keys[c], k.key)
  BY DEF Drafts, With
<1>5. /\ Len(b.keys[c]) = x /\ Len(a.keys[c]) = x - 1 /\ x >= 1 /\ b.keys[c][x] = k.key
      /\ \A y \in 1 .. x - 1 : b.keys[c][y] = a.keys[c][y]
  <2>1. a.keys[c] \in Seq(0 .. 9) /\ b.keys[c] = Append(a.keys[c], k.key) /\ k.key \in 0 .. 9
    BY <1>4 DEF Strokes
  <2> HIDE DEF c
  <2> QED
    BY <2>1
<1> HIDE DEF m, l, t, A, B, P, Q, c, x
<1>6. /\ OneToOne(place, P, Spots(A, n))
      /\ \A i \in P : /\ place[i][2] = CourseOf(r[i].course, n)
                       /\ A[place[i][1]].keys[place[i][2]][place[i][3]] = r[i].key
      /\ \A i, j \in P : i < j /\ (\A z \in P : z <= i \/ j <= z)
           => IF Gap(r, i, j) THEN place[i][1] < place[j][1] ELSE place[i][1] = place[j][1]
  BY DEF Tells, A, P
<1>7. spot = <<spot[1], spot[2], spot[3]>> /\ spot[1] = m + 1 /\ spot[2] = c /\ spot[3] = x
  OBVIOUS
<1> HIDE DEF spot
<1>8. spot \in Spots(B, n) /\ spot \notin Spots(A, n)
  <2>1. spot[1] \in 1 .. m + 1 /\ x \in 1 .. x /\ x \notin 1 .. x - 1
    BY <1>1, <1>4, <1>5, <1>7
  <2>1a. spot[3] \in 1 .. Len(B[spot[1]].keys[spot[2]])
    BY <1>1, <1>5, <1>7, <2>1
  <2>2. spot \in Spots(B, n)
    BY <1>1, <1>4, <1>7, <2>1, <2>1a, SpotFacts
  <2>3. spot \notin Spots(A, n)
    BY <1>1, <1>5, <1>7, <2>1, SpotFacts
  <2> QED
    BY <2>2, <2>3
<1>9. ASSUME NEW s \in Spots(A, n)
      PROVE  /\ s \in Spots(B, n)
             /\ B[s[1]].keys[s[2]][s[3]] = A[s[1]].keys[s[2]][s[3]]
  <2>1. /\ s = <<s[1], s[2], s[3]>> /\ s[1] \in 1 .. m + 1 /\ s[2] \in 1 .. n
        /\ s[3] \in 1 .. Len(A[s[1]].keys[s[2]])
    BY <1>1, SpotFacts
  <2>2. CASE s[1] = m + 1 /\ s[2] = c
    <3>1. s[3] \in 1 .. x - 1
      BY <1>1, <1>5, <2>1, <2>2
    <3>2. s[3] \in 1 .. x
      BY <1>4, <3>1
    <3>3. s[3] \in 1 .. Len(B[s[1]].keys[s[2]])
      BY <1>1, <1>5, <2>2, <3>2
    <3>4. s \in Spots(B, n)
      BY <1>1, <2>1, <3>3, SpotFacts
    <3>5. B[s[1]].keys[s[2]] = b.keys[c] /\ A[s[1]].keys[s[2]] = a.keys[c]
      BY <1>1, <2>2
    <3>6. b.keys[c][s[3]] = a.keys[c][s[3]]
      BY <1>5, <3>1
    <3> QED
      BY <3>4, <3>5, <3>6
  <2>3. CASE s[1] = m + 1 /\ s[2] # c
    <3>1. B[s[1]].keys[s[2]] = A[s[1]].keys[s[2]]
      BY <1>1, <1>4, <2>1, <2>3
    <3>2. s \in Spots(B, n)
      BY <1>1, <2>1, <3>1, SpotFacts
    <3> QED
      BY <3>1, <3>2
  <2>4. CASE s[1] # m + 1
    <3>1. B[s[1]] = A[s[1]]
      BY <1>1, <2>1, <2>4
    <3>2. s \in Spots(B, n)
      BY <1>1, <2>1, <3>1, SpotFacts
    <3> QED
      BY <3>1, <3>2
  <2> QED
    BY <2>2, <2>3, <2>4
<1>10. ASSUME NEW s \in Spots(B, n), s \notin Spots(A, n)
       PROVE  s = spot
  <2>1. /\ s = <<s[1], s[2], s[3]>> /\ s[1] \in 1 .. m + 1 /\ s[2] \in 1 .. n
        /\ s[3] \in 1 .. Len(B[s[1]].keys[s[2]])
    BY <1>1, SpotFacts
  <2>2. s[3] \notin 1 .. Len(A[s[1]].keys[s[2]])
    BY <1>1, <1>10, <2>1, SpotFacts
  <2>3. CASE s[1] = m + 1 /\ s[2] = c
    <3>1. s[3] \in 1 .. x /\ s[3] \notin 1 .. x - 1
      BY <1>1, <1>5, <2>1, <2>2, <2>3
    <3>2. s[3] = x
      BY <1>4, <3>1
    <3> QED
      BY <1>7, <2>1, <2>3, <3>2
  <2>4. CASE s[1] = m + 1 /\ s[2] # c
    <3>1. B[s[1]].keys[s[2]] = A[s[1]].keys[s[2]]
      BY <1>1, <1>4, <2>1, <2>4
    <3> QED
      BY <2>1, <2>2, <3>1
  <2>5. CASE s[1] # m + 1
    <3>1. B[s[1]] = A[s[1]]
      BY <1>1, <2>1, <2>5
    <3> QED
      BY <2>1, <2>2, <3>1
  <2> QED
    BY <2>3, <2>4, <2>5
<1>11. \A i \in P : place[i] \in Spots(A, n) /\ place[i][1] \in 1 .. m + 1
  <2> SUFFICES ASSUME NEW i \in P
               PROVE  place[i] \in Spots(A, n) /\ place[i][1] \in 1 .. m + 1
    OBVIOUS
  <2>1. place[i] \in Spots(A, n)
    BY <1>6 DEF OneToOne
  <2> QED
    BY <1>1, <2>1, SpotFacts
<1>12. /\ other[l + 1] = spot /\ \A i \in P : other[i] = place[i]
       /\ DOMAIN other = Q
       /\ other = [i \in Q |-> other[i]]
  BY <1>2, <1>3
<1> HIDE DEF other
<1>13. other \in [Q -> Spots(B, n)]
  <2>1. \A i \in Q : other[i] \in Spots(B, n)
    BY <1>2, <1>8, <1>9, <1>11, <1>12
  <2> QED
    BY <1>12, <2>1
<1>14. \A i, j \in Q : i # j => other[i] # other[j]
  <2>1. \A i, j \in P : i # j => place[i] # place[j]
    BY <1>6 DEF OneToOne
  <2>2. \A i \in P : place[i] # spot
    BY <1>8, <1>11
  <2> QED
    BY <1>2, <1>12, <2>1, <2>2
<1>15. \A s \in Spots(B, n) : \E i \in Q : other[i] = s
  <2> SUFFICES ASSUME NEW s \in Spots(B, n)
               PROVE  \E i \in Q : other[i] = s
    OBVIOUS
  <2>1. CASE s \in Spots(A, n)
    <3>1. PICK i \in P : place[i] = s
      BY <1>6, <2>1 DEF OneToOne
    <3> QED
      BY <1>2, <1>12, <3>1
  <2>2. CASE s \notin Spots(A, n)
    BY <1>2, <1>10, <1>12, <2>2
  <2> QED
    BY <2>1, <2>2
<1>16. OneToOne(other, Q, Spots(B, n))
  BY <1>13, <1>14, <1>15 DEF OneToOne
<1>17. \A i \in Q : /\ other[i][2] = CourseOf(t[i].course, n)
                    /\ B[other[i][1]].keys[other[i][2]][other[i][3]] = t[i].key
  <2> SUFFICES ASSUME NEW i \in Q
               PROVE  /\ other[i][2] = CourseOf(t[i].course, n)
                      /\ B[other[i][1]].keys[other[i][2]][other[i][3]] = t[i].key
    OBVIOUS
  <2>1. CASE i \in P
    <3>1. other[i] = place[i] /\ t[i] = r[i] /\ place[i] \in Spots(A, n)
      BY <1>2, <1>11, <1>12, <2>1
    <3>2. B[place[i][1]].keys[place[i][2]][place[i][3]] = A[place[i][1]].keys[place[i][2]][place[i][3]]
      BY <1>9, <3>1
    <3> QED
      BY <1>6, <2>1, <3>1, <3>2
  <2>2. CASE i = l + 1
    BY <1>1, <1>2, <1>5, <1>7, <1>12, <2>2 DEF c
  <2> QED
    BY <1>2, <2>1, <2>2
<1>18. ASSUME NEW i \in Q, NEW j \in Q, i < j, \A z \in Q : z <= i \/ j <= z
       PROVE  IF Gap(t, i, j) THEN other[i][1] < other[j][1] ELSE other[i][1] = other[j][1]
  <2>1. i \in P
    <3>1. i # l + 1
      BY <1>2, <1>18
    <3> QED
      BY <1>2, <3>1
  <2>2. CASE j \in P
    <3>1. \A z \in P : z <= i \/ j <= z
      BY <1>2, <1>18
    <3>2. IF Gap(r, i, j) THEN place[i][1] < place[j][1] ELSE place[i][1] = place[j][1]
      BY <1>6, <1>18, <2>1, <2>2, <3>1
    <3> QED
      BY <1>2, <1>12, <2>1, <2>2, <3>2
  <2>3. CASE j = l + 1
    <3>1. \A z \in P : z <= i
      <4> SUFFICES ASSUME NEW z \in P
                   PROVE  z <= i
        OBVIOUS
      <4>1. z <= l /\ z \in Nat /\ (z <= i \/ j <= z)
        BY <1>2, <1>18
      <4> QED
        BY <1>2, <2>3, <4>1
    <3>2. Latest(r, n, i)
      BY <2>1, <3>1 DEF Latest, P
    <3>3. IF Gap(t, i, l + 1) THEN place[i][1] < m + 1 ELSE place[i][1] = m + 1
      BY <3>2 DEF Awaiting, t, l, m
    <3> QED
      BY <1>7, <1>12, <2>1, <2>3, <3>3
  <2> QED
    BY <1>2, <2>2, <2>3
<1>19. Tells(B, t, n, other)
  BY <1>16, <1>17, <1>18 DEF Tells, Q
<1> QED
  BY <1>7, <1>12, <1>19 DEF B, t, m, l

-----------------------------------------------------------------------------
(* The queue and the columns *)
Draft(q) == [keys |-> q, width |-> 0]

LEMMA ColumnsAreDrafts ==
    ASSUME NEW n, NEW text \in Seq(Columns(n))
    PROVE  text \in Seq(Drafts(n)) /\ Len(text) \in Nat
<1>1. Columns(n) \subseteq Drafts(n)
  BY DEF Columns
<1> HIDE DEF Columns
<1> QED
  BY <1>1

(* A column has the keys of the queue, sorted. *)
LEMMA ColumnFacts ==
    ASSUME NEW n \in Nat \ {0}, NEW q \in [1 .. n -> Seq(0 .. 9)]
    PROVE  /\ Draft(q) \in Drafts(n)
           /\ Column(q) \in Columns(n) /\ Column(q) \in Drafts(n)
           /\ \A c \in 1 .. n : Shuffled(Column(q).keys[c], q[c])
<1> DEFINE widths == {TextWidth(q[c]) : c \in DOMAIN q}
           w == CHOOSE x \in widths : \A v \in widths : v <= x
           sorted == [c \in DOMAIN q |-> Sorted(q[c])]
<1>1. \A c \in 1 .. n : q[c] \in Seq(0 .. 9)
  OBVIOUS
<1>2. w \in Nat
  <2>1. DOMAIN q = 1 .. n
    OBVIOUS
  <2>2. IsFiniteSet(widths)
    <3>1. IsFiniteSet(1 .. n)
      BY FS_Interval
    <3> DEFINE width == [c \in 1 .. n |-> TextWidth(q[c])]
    <3>2. width \in Surjection(1 .. n, widths)
      BY <2>1 DEF Surjection
    <3> HIDE DEF width, widths
    <3> QED
      BY <3>1, <3>2, FS_Surjection
  <2>3. \A c \in 1 .. n : TextWidth(q[c]) \in Nat
    <3> SUFFICES ASSUME NEW c \in 1 .. n
                 PROVE  TextWidth(q[c]) \in Nat
      OBVIOUS
    <3>1. q[c] # <<>> => Len(q[c]) \in Nat \ {0}
      BY <1>1
    <3> QED
      BY <3>1 DEF TextWidth
  <2>4. widths \in SUBSET Nat /\ widths # {}
    <3>1. 1 \in 1 .. n
      OBVIOUS
    <3> QED
      BY <2>1, <2>3, <3>1
  <2> HIDE DEF widths
  <2>5. \E x \in widths : \A v \in widths : v <= x
    BY <2>2, <2>4, Greatest
  <2> QED
    BY <2>4, <2>5
<1>3. Column(q) = [keys |-> sorted, width |-> 1 + w]
  BY DEF Column
<1> HIDE DEF w
<1>4. \A c \in 1 .. n : sorted[c] = Sorted(q[c])
  OBVIOUS
<1>5. sorted \in [1 .. n -> Seq(0 .. 9)]
  BY <1>1, SortedFacts
<1> HIDE DEF sorted
<1>6. Column(q) \in Drafts(n) /\ Column(q).keys = sorted
  BY <1>2, <1>3, <1>5 DEF Drafts
<1>7. ASSUME NEW c \in 1 .. n
      PROVE  /\ Shuffled(sorted[c], q[c])
             /\ \A i, j \in 1 .. Len(sorted[c]) : i < j => sorted[c][i] <= sorted[c][j]
  <2>1. sorted[c] = Sorted(q[c]) /\ q[c] \in Seq(0 .. 9)
    BY <1>1, <1>4
  <2>2. /\ Shuffled(Sorted(q[c]), q[c]) /\ Len(Sorted(q[c])) = Len(q[c])
        /\ \A i, j \in 1 .. Len(q[c]) : i < j => Sorted(q[c])[i] <= Sorted(q[c])[j]
    BY <2>1, SortedFacts
  <2> QED
    BY <2>1, <2>2
<1>8. Column(q) \in Columns(n)
  BY <1>6, <1>7 DEF Columns
<1>9. Draft(q) \in Drafts(n)
  BY DEF Draft, Drafts
<1> QED
  BY <1>6, <1>7, <1>8, <1>9

(* Rendering a chord moves none of its keys to another column.             *)
LEMMA Rendered ==
    ASSUME NEW n \in Nat \ {0}, NEW text \in Seq(Columns(n)), NEW q \in [1 .. n -> Seq(0 .. 9)],
           NEW r, NEW place, Tells(Append(text, Draft(q)), r, n, place)
    PROVE  \E other : /\ Tells(Append(text, Column(q)), r, n, other)
                      /\ \A i \in Players(r, n) : other[i][1] = place[i][1]
<1>1. text \in Seq(Drafts(n)) /\ Draft(q) \in Drafts(n) /\ Column(q) \in Drafts(n)
  BY ColumnsAreDrafts, ColumnFacts
<1>2. Draft(q).keys = q
  BY DEF Draft
<1>3. \A c \in 1 .. n : Shuffled(Column(q).keys[c], Draft(q).keys[c])
  BY <1>2, ColumnFacts
<1> DEFINE a == Draft(q)
           b == Column(q)
<1>4. /\ n \in Nat /\ text \in Seq(Drafts(n)) /\ a \in Drafts(n) /\ b \in Drafts(n)
      /\ Tells(Append(text, a), r, n, place)
      /\ \A c \in 1 .. n : Shuffled(b.keys[c], a.keys[c])
  BY <1>1, <1>3
<1> HIDE DEF a, b
<1>5. \E other : /\ Tells(Append(text, b), r, n, other)
                 /\ \A i \in Players(r, n) : other[i][1] = place[i][1]
  BY <1>4, Reordered
<1> QED
  BY <1>5 DEF b

LEMMA EmptiedFacts ==
    ASSUME NEW n \in Nat \ {0}
    PROVE  /\ Emptied(n) \in [1 .. n -> Seq(0 .. 9)] /\ Draft(Emptied(n)) \in Drafts(n)
           /\ \A c \in 1 .. n : Draft(Emptied(n)).keys[c] = <<>>
<1>1. Emptied(n) \in [1 .. n -> Seq(0 .. 9)] /\ \A c \in 1 .. n : Emptied(n)[c] = <<>>
  BY DEF Emptied
<1>2. Draft(Emptied(n)) \in Drafts(n)
  BY <1>1, ColumnFacts
<1> QED
  BY <1>1, <1>2 DEF Draft

(* When a key is late, the chord before it is rendered.                    *)
LEMMA Late ==
    ASSUME NEW n \in Nat \ {0}, NEW done \in Seq(Columns(n)), NEW q \in [1 .. n -> Seq(0 .. 9)],
           NEW r \in Sessions, NEW k \in Strokes,
           NEW place, Tells(Append(done, Draft(q)), r, n, place),
           \A p : Latest(r, n, p) => Gap(Append(r, k), p, Len(r) + 1)
    PROVE  \E other : /\ Tells(Append(Append(done, Column(q)), Draft(Emptied(n))), r, n, other)
                      /\ Awaiting(r, n, k, other, Len(Append(done, Column(q))))
<1> DEFINE printed == Append(done, Column(q))
<1>1. PICK other : /\ Tells(printed, r, n, other)
                   /\ \A i \in Players(r, n) : other[i][1] = place[i][1]
  BY Rendered
<1>2. printed \in Seq(Drafts(n)) /\ Len(printed) \in Nat
  <2>1. done \in Seq(Drafts(n)) /\ Column(q) \in Drafts(n)
    BY ColumnsAreDrafts, ColumnFacts
  <2> QED
    BY <2>1
<1> HIDE DEF printed
<1>3. Tells(Append(printed, Draft(Emptied(n))), r, n, other)
  <2>1. n \in Nat
    OBVIOUS
  <2> QED
    BY <1>1, <1>2, <2>1, EmptiedFacts, EmptyColumn
<1>4. ASSUME NEW p, Latest(r, n, p)
      PROVE  Gap(Append(r, k), p, Len(r) + 1) /\ other[p][1] < Len(printed) + 1
  <2>1. p \in Players(r, n)
    BY <1>4 DEF Latest
  <2>2. other[p] \in Spots(printed, n)
    BY <1>1, <2>1 DEF Tells, OneToOne
  <2>3. other[p][1] \in 1 .. Len(printed)
    BY <1>2, <2>2, SpotFacts
  <2> QED
    BY <1>2, <1>4, <2>3
<1>5. Awaiting(r, n, k, other, Len(printed))
  BY <1>4 DEF Awaiting
<1> QED
  BY <1>3, <1>5 DEF printed

LEMMA Prompt ==
    ASSUME NEW n \in Nat, NEW r \in Sessions, NEW k \in Strokes, NEW place, NEW m,
           Current(r, n, place, m),
           \A p : Latest(r, n, p) => ~ (k.time - r[p].time > k.timeout)
    PROVE  Awaiting(r, n, k, place, m)
<1>1. \A p : Latest(r, n, p) => p \in 1 .. Len(r)
  BY Grown DEF Latest
<1>2. \A p : Latest(r, n, p) => (Gap(Append(r, k), p, Len(r) + 1) <=> Gap(r, p, Len(r)))
  BY <1>1, Grown
<1> QED
  BY <1>2 DEF Current, Awaiting

LEMMA WithFacts ==
    ASSUME NEW n \in Nat \ {0}, NEW q \in [1 .. n -> Seq(0 .. 9)], NEW k \in Strokes,
           k.course <= n => CourseOf(k.course, n) \in 1 .. n
    PROVE  With(q, n, k) \in [1 .. n -> Seq(0 .. 9)]
<1>1. k.key \in 0 .. 9
  BY DEF Strokes
<1>2. CASE k.course <= n
  <2> DEFINE c == CourseOf(k.course, n)
  <2>1. c \in 1 .. n /\ q[c] \in Seq(0 .. 9)
    BY <1>2
  <2>2. Append(q[c], k.key) \in Seq(0 .. 9)
    BY <1>1, <2>1
  <2>3. With(q, n, k) = [q EXCEPT ![c] = Append(q[c], k.key)]
    BY <1>2 DEF With
  <2> HIDE DEF c
  <2> QED
    BY <2>1, <2>2, <2>3
<1>3. CASE ~ (k.course <= n)
  BY <1>3 DEF With
<1> QED
  BY <1>2, <1>3

(* What a key does to the text. *)
LEMMA Struck ==
    ASSUME NEW n \in Nat \ {0}, NEW done \in Seq(Columns(n)), NEW q \in [1 .. n -> Seq(0 .. 9)],
           NEW r \in Sessions, NEW k \in Strokes,
           k.course <= n => CourseOf(k.course, n) \in 1 .. n,
           NEW place, Tells(Append(done, Draft(q)), r, n, place),
           Awaiting(r, n, k, place, Len(done))
    PROVE  \E other : /\ Tells(Append(done, Draft(With(q, n, k))), Append(r, k), n, other)
                      /\ Current(Append(r, k), n, other, Len(done))
<1> DEFINE l == Len(r)
           t == Append(r, k)
           a == Draft(q)
           b == Draft(With(q, n, k))
<1>1. /\ done \in Seq(Drafts(n)) /\ Len(done) \in Nat /\ n \in Nat
      /\ a \in Drafts(n) /\ a.keys = q
      /\ b \in Drafts(n) /\ b.keys = With(q, n, k)
  BY ColumnsAreDrafts, ColumnFacts, WithFacts DEF Draft
<1>2. /\ l \in Nat /\ Players(r, n) \subseteq 1 .. l /\ Len(t) = l + 1
      /\ Players(t, n) = Players(r, n) \cup (IF k.course <= n THEN {l + 1} ELSE {})
  BY <1>1, Grown
<1>3. CASE ~ (k.course <= n)
  <2>1. With(q, n, k) = q
    BY <1>3 DEF With
  <2>2. Tells(Append(done, a), t, n, place)
    BY <1>1, <1>3, Beyond
  <2> HIDE DEF l, t, a, b
  <2>3. \A p : Latest(t, n, p) <=> Latest(r, n, p)
    BY <1>2, <1>3 DEF Latest
  <2>4. Current(t, n, place, Len(done))
    BY <1>2, <2>3 DEF Current, Awaiting, l, t
  <2> QED
    BY <2>1, <2>2, <2>4 DEF t, a
<1>4. CASE k.course <= n
  <2>1. b.keys = With(a.keys, n, k)
    BY <1>1
  <2>3. Tells(Append(done, a), r, n, place) /\ CourseOf(k.course, n) \in 1 .. n
    BY <1>4
  <2> HIDE DEF a, b
  <2>4. PICK other : /\ Tells(Append(done, b), Append(r, k), n, other)
                     /\ other[Len(r) + 1][1] = Len(done) + 1
    BY <1>1, <1>4, <2>1, <2>3, Joined
  <2> HIDE DEF l, t
  <2>5. ASSUME NEW p, Latest(t, n, p)
        PROVE  p = l + 1 /\ ~ Gap(t, p, Len(t))
    <3>1. l + 1 \in Players(t, n) /\ p \in 1 .. l + 1 /\ l + 1 <= p
      BY <1>2, <1>4, <2>5 DEF Latest
    <3>2. p = l + 1
      BY <1>2, <3>1
    <3>3. p + 1 .. Len(t) = {}
      BY <1>2, <3>2
    <3> QED
      BY <3>2, <3>3 DEF Gap
  <2>6. Current(t, n, other, Len(done))
    BY <2>4, <2>5 DEF Current, l
  <2> QED
    BY <2>4, <2>6 DEF t, b
<1> QED
  BY <1>3, <1>4

-----------------------------------------------------------------------------
(* The invariant *)
Typed ==
    /\ courselen \in Nat /\ courses \in Nat /\ now \in Nat
    /\ chordTimeout \in Nat /\ pageWidth \in Nat
    /\ widest \in Nat /\ pageWidth <= widest
    /\ raw \in Sessions
    /\ html \in Seq(Seq(Columns(courses)))
    /\ render \in Seq(Columns(courses))

(* A session that runs is one of the present courses.                      *)
Running ==
    IF notating THEN courses = courselen /\ courselen # 0 /\ queue \in [1 .. courselen -> Seq(0 .. 9)]
                ELSE lasttime = Never

(* The tabulator remembers the time of the last key that has a course.     *)
Remembers(r, n, t) ==
    /\ Players(r, n) = {} => t = Never
    /\ \A p : Latest(r, n, p) => t = r[p].time
Timed == notating => Remembers(raw, courses, lasttime)

(* The columns that have been rendered tell, with the queue behind them,   *)
(* what was played.                                                        *)
Done == FlattenSeq(html) \o render
Told ==
    IF notating
      THEN \E place : /\ Tells(Append(Done, Draft(queue)), raw, courses, place)
                      /\ Current(raw, courses, place, Len(Done))
      ELSE \E place : Tells(FlattenSeq(html), raw, courses, place)

(* Every stave fits the page, the one that is being written included.      *)
Fitting(stave, w) == Len(stave) <= 1 \/ Width(stave) < w
Fits ==
    /\ \A i \in DOMAIN html : Fitting(html[i], widest)
    /\ notating => Fitting(render, widest)

IInv == Typed /\ Running /\ Timed /\ Told /\ Fits

-----------------------------------------------------------------------------
(* Printing a stave: the page gets it if the column does not fit, and the  *)
(* text gets the column in any case.                                       *)
LEMMA Printed ==
    ASSUME Typed, Fits, notating, NEW column \in Columns(courses)
    PROVE  /\ Page(column) \in Seq(Seq(Columns(courses))) /\ Stave(column) \in Seq(Columns(courses))
           /\ FlattenSeq(Page(column)) \o Stave(column) = Append(Done, column)
           /\ Done \in Seq(Columns(courses))
           /\ FlattenSeq(Append(Page(column), Stave(column))) = Append(Done, column)
           /\ \A i \in DOMAIN Page(column) : Fitting(Page(column)[i], widest)
           /\ Fitting(Stave(column), widest)
           /\ Append(Page(column), Stave(column)) \in Seq(Seq(Columns(courses)))
           /\ \A i \in DOMAIN Append(Page(column), Stave(column)) :
                 Fitting(Append(Page(column), Stave(column))[i], widest)
<1> DEFINE C == Columns(courses)
           page == Page(column)
           stave == Stave(column)
<1>1. /\ html \in Seq(Seq(C)) /\ render \in Seq(C) /\ column \in C
      /\ pageWidth \in Nat /\ widest \in Nat /\ pageWidth <= widest
  BY DEF Typed
<1>2. \A x \in C : x.width \in Nat
  BY DEF Columns, Drafts
<1> HIDE DEF C
<1>3. FlattenSeq(html) \in Seq(C)
  BY <1>1, Flattened
<1>4. Done \in Seq(C)
  BY <1>1, <1>3 DEF Done
<1>5. (\A i \in DOMAIN html : Fitting(html[i], widest)) /\ Fitting(render, widest)
  BY DEF Fits
<1>6. /\ page \in Seq(Seq(C)) /\ stave \in Seq(C)
      /\ FlattenSeq(page) \o stave = Append(Done, column)
      /\ \A i \in DOMAIN page : Fitting(page[i], widest)
      /\ Fitting(stave, widest)
  <2>1. CASE Overflows(column)
    <3>1. page = Append(html, render) /\ stave = <<column>>
      BY <2>1 DEF Page, Stave
    <3> HIDE DEF page, stave
    <3>2. page \in Seq(Seq(C)) /\ stave \in Seq(C)
      BY <1>1, <3>1
    <3>3. FlattenSeq(page) = Done
      BY <1>1, <3>1, Flattened DEF Done
    <3>4. FlattenSeq(page) \o stave = Append(Done, column)
      BY <1>1, <1>4, <3>1, <3>3
    <3>5. Fitting(stave, widest)
      BY <3>1 DEF Fitting
    <3>6. \A i \in DOMAIN page : (i \in DOMAIN html /\ page[i] = html[i]) \/ page[i] = render
      BY <1>1, <3>1
    <3> QED
      BY <1>5, <3>2, <3>4, <3>5, <3>6
  <2>2. CASE ~ Overflows(column)
    <3>1. page = html /\ stave = Append(render, column)
      BY <2>2 DEF Page, Stave
    <3> HIDE DEF page, stave
    <3>2. page \in Seq(Seq(C)) /\ stave \in Seq(C)
      BY <1>1, <3>1
    <3>3. FlattenSeq(page) \o stave = Append(Done, column)
      BY <1>1, <1>3, <3>1 DEF Done
    <3>4. Width(stave) = Width(render) + column.width /\ Width(render) \in Nat /\ column.width \in Nat
      BY <1>1, <1>2, <3>1, Widths
    <3>5. ~ (Width(render) + column.width >= pageWidth)
      BY <2>2 DEF Overflows
    <3>6. Width(stave) < widest
      BY <1>1, <3>4, <3>5
    <3> QED
      BY <1>5, <3>1, <3>2, <3>3, <3>6 DEF Fitting
  <2> QED
    BY <2>1, <2>2
<1> HIDE DEF page, stave
<1>7. FlattenSeq(Append(page, stave)) = FlattenSeq(page) \o stave
  BY <1>6, Flattened
<1>8. Append(page, stave) \in Seq(Seq(C))
  BY <1>6
<1>9. \A i \in DOMAIN Append(page, stave) :
         \/ i \in DOMAIN page /\ Append(page, stave)[i] = page[i]
         \/ Append(page, stave)[i] = stave
  BY <1>6
<1> QED
  BY <1>4, <1>6, <1>7, <1>8, <1>9 DEF C, page, stave

LEMMA NothingWritten ==
    ASSUME NEW S
    PROVE  <<>> \in Seq(S) /\ FlattenSeq(<<>>) = <<>>
  BY DEF FlattenSeq

(* A session in which nothing has been played. *)
LEMMA Silent ==
    ASSUME NEW n \in Nat, NEW text \in Seq(Drafts(n)),
           \A m \in 1 .. Len(text) : \A c \in 1 .. n : text[m].keys[c] = <<>>
    PROVE  Players(<<>>, n) = {} /\ \E place : Tells(text, <<>>, n, place)
<1>1. Players(<<>>, n) = {}
  BY DEF Players
<1>2. Spots(text, n) = {}
  <2> SUFFICES ASSUME NEW s \in Spots(text, n)
               PROVE  FALSE
    OBVIOUS
  <2>1. s[1] \in 1 .. Len(text) /\ s[2] \in 1 .. n /\ s[3] \in 1 .. Len(text[s[1]].keys[s[2]])
    BY SpotFacts
  <2>2. text[s[1]].keys[s[2]] = <<>>
    BY <2>1
  <2> QED
    BY <2>1, <2>2
<1>3. OneToOne([i \in {} |-> i], {}, {})
  BY DEF OneToOne
<1> QED
  BY <1>1, <1>2, <1>3 DEF Tells

LEMMA InitIInv ==
    Init => IInv
<1> SUFFICES ASSUME Init
             PROVE  IInv
  OBVIOUS
<1>1. /\ chordTimeout \in Nat /\ pageWidth \in Nat /\ widest = pageWidth
      /\ courselen = 0 /\ courses = 0 /\ now = 0 /\ notating = FALSE /\ lasttime = Never
      /\ raw = <<>> /\ html = <<>> /\ render = <<>>
  BY TabulatorAssumption DEF Init
<1>2. Typed
  BY <1>1 DEF Typed, Sessions
<1>3. FlattenSeq(html) = <<>> /\ <<>> \in Seq(Drafts(0))
  BY <1>1, NothingWritten
<1>4. \E place : Tells(<<>>, <<>>, 0, place)
  <2>1. \A m \in 1 .. Len(<<>>) : \A c \in 1 .. 0 : (<<>>)[m].keys[c] = <<>>
    OBVIOUS
  <2> QED
    BY <1>3, <2>1, Silent
<1>5. \E place : Tells(FlattenSeq(html), raw, courses, place)
  BY <1>1, <1>3, <1>4
<1> QED
  BY <1>1, <1>2, <1>5 DEF IInv, Running, Timed, Told, Fits

(* What a key does to the time that is remembered. *)
LEMMA TimedStep ==
    ASSUME NEW n \in Nat, NEW r \in Sessions, NEW k \in Strokes, NEW t, Remembers(r, n, t)
    PROVE  Remembers(Append(r, k), n, IF k.course <= n THEN k.time ELSE t)
<1> DEFINE l == Len(r)
           s == Append(r, k)
           u == IF k.course <= n THEN k.time ELSE t
<1>1. /\ l \in Nat /\ Players(r, n) \subseteq 1 .. l /\ s[l + 1] = k
      /\ Players(s, n) = Players(r, n) \cup (IF k.course <= n THEN {l + 1} ELSE {})
      /\ \A i \in 1 .. l : s[i] = r[i]
  BY Grown
<1> HIDE DEF l, s
<1>2. CASE k.course <= n
  <2>1. \A p : Latest(s, n, p) => p = l + 1
    <3> SUFFICES ASSUME NEW p, Latest(s, n, p)
                 PROVE  p = l + 1
      OBVIOUS
    <3>1. l + 1 \in Players(s, n) /\ p \in Players(s, n) /\ l + 1 <= p
      BY <1>1, <1>2 DEF Latest
    <3>2. p \in 1 .. l + 1
      BY <1>1, <1>2, <3>1
    <3> QED
      BY <1>1, <3>1, <3>2
  <2>2. l + 1 \in Players(s, n)
    BY <1>1, <1>2
  <2> QED
    BY <1>1, <1>2, <2>1, <2>2 DEF s, Remembers
<1>3. CASE ~ (k.course <= n)
  <2>1. Players(s, n) = Players(r, n) /\ u = t
    BY <1>1, <1>3
  <2>2. \A p : Latest(s, n, p) => Latest(r, n, p) /\ s[p] = r[p]
    BY <1>1, <2>1 DEF Latest
  <2> QED
    BY <2>1, <2>2 DEF s, Remembers
<1> QED
  BY <1>2, <1>3

LEMMA KeyStep ==
    ASSUME IInv, NEW note \in Notes, Key(note[1], note[2])
    PROVE  IInv'
<1> DEFINE n == courses
           k == [time |-> now, course |-> note[1], key |-> note[2], timeout |-> chordTimeout]
           late == lasttime # Never /\ now - lasttime > chordTimeout
           column == Column(queue)
           rest == IF late THEN Emptied(n) ELSE queue
<1>1. /\ notating /\ raw' = Append(raw, k) /\ courselen # 0
      /\ html' = IF late THEN Page(column) ELSE html
      /\ render' = IF late THEN Stave(column) ELSE render
      /\ lasttime' = IF note[1] <= courselen THEN now ELSE lasttime
      /\ UNCHANGED <<chordTimeout, pageWidth, courselen, notating, now, courses, widest>>
  BY DEF Key, settings
<1>2. /\ Typed /\ Fits /\ Told
      /\ n = courselen /\ n \in Nat \ {0} /\ n \in Nat /\ queue \in [1 .. n -> Seq(0 .. 9)]
      /\ Remembers(raw, n, lasttime)
      /\ now \in Nat /\ chordTimeout \in Nat /\ raw \in Sessions
  BY <1>1 DEF IInv, Typed, Running, Timed
<1>3. queue' = With(rest, n, k)
  <2>1. EmptyQueue = Emptied(n)
    BY <1>2 DEF EmptyQueue, Emptied
  <2>2. queue' = IF note[1] <= courselen
                   THEN [(IF late THEN EmptyQueue ELSE queue)
                           EXCEPT ![CourseOf(note[1], courselen)] = Append(@, note[2])]
                   ELSE IF late THEN EmptyQueue ELSE queue
    BY DEF Key
  <2>3. k.course = note[1] /\ k.key = note[2]
    OBVIOUS
  <2> HIDE DEF k, late
  <2> QED
    BY <1>2, <2>1, <2>2, <2>3 DEF With
<1>4. /\ k \in Strokes /\ k.time = now /\ k.timeout = chordTimeout /\ k.course = note[1]
      /\ k.course <= n => CourseOf(k.course, n) \in 1 .. n
  <2>1. note[1] \in Nat /\ note[2] \in 0 .. 9
    BY TabulatorAssumption
  <2> QED
    BY <1>2, <2>1 DEF Strokes, CourseOf
<1>5. \A p : Latest(raw, n, p) => raw[p].time \in Nat /\ p \in 1 .. Len(raw)
  <2> SUFFICES ASSUME NEW p, Latest(raw, n, p)
               PROVE  raw[p].time \in Nat /\ p \in 1 .. Len(raw)
    OBVIOUS
  <2>0. Players(raw, n) \subseteq 1 .. Len(raw)
    BY <1>2, <1>4, Grown
  <2>1. p \in 1 .. Len(raw)
    BY <2>0 DEF Latest
  <2>2. raw[p] \in Strokes
    BY <1>2, <1>4, <2>1, Grown
  <2> QED
    BY <2>1, <2>2 DEF Strokes
<1>6. column \in Columns(n)
  BY <1>2, ColumnFacts
<1> HIDE DEF n, k, column
<1>7. /\ Page(column) \in Seq(Seq(Columns(n))) /\ Stave(column) \in Seq(Columns(n))
      /\ FlattenSeq(Page(column)) \o Stave(column) = Append(Done, column)
      /\ Done \in Seq(Columns(n))
      /\ \A i \in DOMAIN Page(column) : Fitting(Page(column)[i], widest)
      /\ Fitting(Stave(column), widest)
  BY <1>1, <1>2, <1>6, Printed DEF n
<1>8. /\ rest \in [1 .. n -> Seq(0 .. 9)] /\ queue' \in [1 .. n -> Seq(0 .. 9)]
  <2>1. rest \in [1 .. n -> Seq(0 .. 9)]
    BY <1>2, EmptiedFacts
  <2> HIDE DEF rest
  <2> QED
    BY <1>2, <1>3, <1>4, <2>1, WithFacts
<1>9. PICK place : Tells(Append(Done, Draft(queue)), raw, n, place) /\ Current(raw, n, place, Len(Done))
  BY <1>1, <1>2 DEF Told, n
<1>10. Done' = IF late THEN Append(Done, column) ELSE Done
  BY <1>1, <1>7 DEF Done
<1>11. \E other : /\ Tells(Append(Done', Draft(rest)), raw, n, other)
                  /\ Awaiting(raw, n, k, other, Len(Done'))
  <2>1. CASE late
    <3>1. \A p : Latest(raw, n, p) => Gap(Append(raw, k), p, Len(raw) + 1)
      <4> SUFFICES ASSUME NEW p, Latest(raw, n, p)
                   PROVE  Gap(Append(raw, k), p, Len(raw) + 1)
        OBVIOUS
      <4>1. k.time - raw[p].time > k.timeout /\ p \in 1 .. Len(raw)
        BY <1>2, <1>4, <1>5, <2>1 DEF Remembers
      <4> QED
        BY <1>2, <1>4, <4>1, Grown
    <3>2. \E other : /\ Tells(Append(Append(Done, column), Draft(Emptied(n))), raw, n, other)
                     /\ Awaiting(raw, n, k, other, Len(Append(Done, column)))
      BY <1>2, <1>4, <1>7, <1>9, <3>1, Late DEF column
    <3> HIDE DEF late
    <3> QED
      BY <1>10, <2>1, <3>2
  <2>2. CASE ~ late
    <3>1. \A p : Latest(raw, n, p) => ~ (k.time - raw[p].time > k.timeout)
      <4> SUFFICES ASSUME NEW p, Latest(raw, n, p)
                   PROVE  ~ (k.time - raw[p].time > k.timeout)
        OBVIOUS
      <4>1. lasttime = raw[p].time /\ lasttime \in Nat
        BY <1>2, <1>5 DEF Remembers
      <4> QED
        BY <1>4, <2>2, <4>1 DEF Never
    <3>2. Awaiting(raw, n, k, place, Len(Done))
      BY <1>2, <1>4, <1>9, <3>1, Prompt
    <3> HIDE DEF late
    <3> QED
      BY <1>9, <1>10, <2>2, <3>2
  <2> QED
    BY <2>1, <2>2
<1>12. Done' \in Seq(Columns(n))
  <2> HIDE DEF late
  <2>1. Append(Done, column) \in Seq(Columns(n))
    <3> HIDE DEF Columns
    <3> QED
      BY <1>6, <1>7
  <2> QED
    BY <1>7, <1>10, <2>1
<1>13. \E other : /\ Tells(Append(Done', Draft(queue')), raw', n, other)
                  /\ Current(raw', n, other, Len(Done'))
  <2>1. PICK mid : /\ Tells(Append(Done', Draft(rest)), raw, n, mid)
                   /\ Awaiting(raw, n, k, mid, Len(Done'))
    BY <1>11
  <2> DEFINE done == Done'
  <2>2. done \in Seq(Columns(n)) /\ Tells(Append(done, Draft(rest)), raw, n, mid)
        /\ Awaiting(raw, n, k, mid, Len(done))
    BY <1>12, <2>1
  <2> HIDE DEF done, rest
  <2>3. \E other : /\ Tells(Append(done, Draft(With(rest, n, k))), Append(raw, k), n, other)
                   /\ Current(Append(raw, k), n, other, Len(done))
    BY <1>2, <1>4, <1>8, <2>2, Struck
  <2> QED
    BY <1>1, <1>3, <2>3 DEF done
<1>14. Told'
  BY <1>1, <1>13 DEF Told, n
<1>15. Typed'
  <2>1. raw' \in Sessions
    BY <1>1, <1>2, <1>4, Grown
  <2>2. html' \in Seq(Seq(Columns(n))) /\ render' \in Seq(Columns(n))
    <3>1. html \in Seq(Seq(Columns(n))) /\ render \in Seq(Columns(n))
      BY <1>2 DEF Typed, n
    <3> HIDE DEF late
    <3> QED
      BY <1>1, <1>7, <3>1
  <2> QED
    BY <1>1, <1>2, <2>1, <2>2 DEF Typed, n
<1>16. Running'
  BY <1>1, <1>2, <1>8 DEF Running, n
<1>17. Timed'
  <2>1. lasttime' = IF k.course <= n THEN k.time ELSE lasttime
    BY <1>1, <1>2, <1>4
  <2>2. Remembers(Append(raw, k), n, IF k.course <= n THEN k.time ELSE lasttime)
    BY <1>2, <1>4, TimedStep
  <2> QED
    BY <1>1, <2>1, <2>2 DEF Timed, n
<1>18. Fits'
  <2>1. (\A i \in DOMAIN html : Fitting(html[i], widest)) /\ Fitting(render, widest)
    BY <1>1, <1>2 DEF Fits
  <2> HIDE DEF late
  <2>2. (\A i \in DOMAIN html' : Fitting(html'[i], widest)) /\ Fitting(render', widest)
    BY <1>1, <1>7, <2>1
  <2> QED
    BY <1>1, <2>2 DEF Fits, Fitting
<1> QED
  BY <1>14, <1>15, <1>16, <1>17, <1>18 DEF IInv

LEMMA StopStep ==
    ASSUME IInv, Stop
    PROVE  IInv'
<1> DEFINE n == courses
           column == Column(queue)
<1>1. /\ notating /\ notating' = FALSE /\ lasttime' = Never
      /\ html' = Append(Page(column), Stave(column)) /\ render' = Stave(column)
      /\ UNCHANGED <<chordTimeout, pageWidth, courselen, raw, now, courses, widest>>
  BY DEF Stop, Closed, settings
<1>2. /\ Typed /\ Fits /\ Told
      /\ n = courselen /\ n \in Nat \ {0} /\ queue \in [1 .. n -> Seq(0 .. 9)]
  BY <1>1 DEF IInv, Typed, Running
<1>3. column \in Columns(n)
  BY <1>2, ColumnFacts
<1> HIDE DEF column
<1>4. /\ Stave(column) \in Seq(Columns(n))
      /\ Done \in Seq(Columns(n))
      /\ FlattenSeq(html') = Append(Done, column)
      /\ html' \in Seq(Seq(Columns(n)))
      /\ \A i \in DOMAIN html' : Fitting(html'[i], widest)
  BY <1>1, <1>2, <1>3, Printed
<1> HIDE DEF n
<1>5. \E place : Tells(FlattenSeq(html'), raw, n, place)
  <2>1. PICK place : Tells(Append(Done, Draft(queue)), raw, n, place)
    BY <1>1, <1>2 DEF Told, n
  <2>2. \E other : Tells(Append(Done, column), raw, n, other)
    BY <1>2, <1>4, <2>1, Rendered DEF column
  <2> QED
    BY <1>4, <2>2
<1>6. Told'
  BY <1>1, <1>5 DEF Told, n
<1>7. Typed'
  BY <1>1, <1>2, <1>4 DEF Typed, n
<1>8. Fits'
  BY <1>1, <1>4 DEF Fits, Fitting
<1> QED
  BY <1>1, <1>6, <1>7, <1>8 DEF IInv, Running, Timed

LEMMA StartStep ==
    ASSUME IInv, Start
    PROVE  IInv'
<1> DEFINE n == courselen
<1>1. /\ n # 0 /\ notating' = TRUE /\ queue' = EmptyQueue /\ render' = <<>>
      /\ lasttime' = (IF notating THEN Never ELSE lasttime) /\ raw' = <<>> /\ html' = <<>>
      /\ courses' = n /\ widest' = pageWidth
      /\ UNCHANGED <<chordTimeout, pageWidth, courselen, now>>
  BY DEF Start, settings
<1>2. /\ Typed /\ n \in Nat \ {0} /\ n \in Nat /\ (~ notating => lasttime = Never)
  BY <1>1 DEF IInv, Typed, Running
<1>3. lasttime' = Never
  BY <1>1, <1>2
<1>4. queue' = Emptied(n)
  BY <1>1 DEF EmptyQueue, Emptied
<1> HIDE DEF n
<1>5. Done' = <<>>
  BY <1>1, NothingWritten DEF Done
<1> DEFINE text == Append(<<>>, Draft(Emptied(n)))
<1>6. text \in Seq(Drafts(n)) /\ Len(text) = 1 /\ text[1] = Draft(Emptied(n))
  BY <1>2, EmptiedFacts
<1> HIDE DEF text
<1>7. \A m \in 1 .. Len(text) : \A c \in 1 .. n : text[m].keys[c] = <<>>
  BY <1>2, <1>6, EmptiedFacts
<1>8. Players(<<>>, n) = {} /\ \E place : Tells(text, <<>>, n, place)
  BY <1>2, <1>6, <1>7, Silent
<1>9. \A place, m : Current(<<>>, n, place, m)
  BY <1>8 DEF Current, Latest
<1>10. \E place : Tells(Append(Done', Draft(queue')), raw', n, place) /\ Current(raw', n, place, Len(Done'))
  BY <1>1, <1>4, <1>5, <1>8, <1>9 DEF text
<1>11. Told'
  BY <1>1, <1>10 DEF Told
<1>12. Typed'
  BY <1>1, <1>2 DEF Typed, Sessions, n
<1>13. Running'
  BY <1>1, <1>2, <1>4, EmptiedFacts DEF Running, n
<1>14. Timed'
  BY <1>1, <1>3, <1>8 DEF Timed, Remembers, Latest
<1>15. Fits'
  BY <1>1 DEF Fits, Fitting
<1> QED
  BY <1>11, <1>12, <1>13, <1>14, <1>15 DEF IInv

(* The settings, the controller and the clock leave the session alone.     *)
LEMMA OtherStep ==
    ASSUME IInv,
           UNCHANGED <<notating, queue, render, lasttime, raw, html, courses>>,
           Typed', courselen' = courselen \/ ~ notating, widest <= widest'
    PROVE  IInv'
<1>1. Told'
  BY DEF IInv, Told, Done
<1>2. Running'
  BY DEF IInv, Running
<1>3. Timed'
  BY DEF IInv, Timed
<1>4. /\ html \in Seq(Seq(Columns(courses))) /\ render \in Seq(Columns(courses))
      /\ widest \in Nat /\ widest' \in Nat
  BY DEF IInv, Typed
<1>5. \A x \in Columns(courses) : x.width \in Nat
  BY DEF Columns, Drafts
<1>6. ASSUME NEW stave \in Seq(Columns(courses)), Fitting(stave, widest)
      PROVE  Fitting(stave, widest')
  <2>1. CASE Len(stave) <= 1
    BY <2>1 DEF Fitting
  <2>2. CASE ~ (Len(stave) <= 1)
    <3>1. Width(stave) < widest
      BY <1>6, <2>2 DEF Fitting
    <3>2. PICK column \in Columns(courses) : TRUE
      BY <2>2
    <3> DEFINE C == Columns(courses)
    <3>3. stave \in Seq(C) /\ column \in C /\ \A x \in C : x.width \in Nat
      BY <1>5
    <3> HIDE DEF C
    <3>4. Width(stave) \in Nat
      BY <3>3, Widths
    <3>5. Width(stave) < widest'
      BY <1>4, <3>1, <3>4
    <3> QED
      BY <3>5 DEF Fitting
  <2> QED
    BY <2>1, <2>2
<1>7. \A i \in DOMAIN html : html[i] \in Seq(Columns(courses))
  BY <1>4
<1>8. /\ \A i \in DOMAIN html : Fitting(html[i], widest')
      /\ notating => Fitting(render, widest')
  BY <1>4, <1>6, <1>7 DEF IInv, Fits
<1>9. Fits'
  BY <1>8 DEF Fits, Fitting
<1> QED
  BY <1>1, <1>2, <1>3, <1>9 DEF IInv

LEMMA IInvStep ==
    IInv /\ [Next]_vars => IInv'
<1> SUFFICES ASSUME IInv, [Next]_vars
             PROVE  IInv'
  OBVIOUS
<1> Typed
  BY DEF IInv
<1>1. CASE Start
  BY <1>1, StartStep
<1>2. CASE Stop
  BY <1>2, StopStep
<1>3. CASE Tick
  <2>1. Typed'
    BY <1>3 DEF Tick, Typed, settings
  <2> QED
    BY <1>3, <2>1, OtherStep DEF Tick, Typed, settings
<1>4. CASE \E note \in Notes : Key(note[1], note[2])
  BY <1>4, KeyStep
<1>5. CASE \E len \in 0 .. MaxCourses : Controller(len)
  <2>1. PICK len \in 0 .. MaxCourses : Controller(len)
    BY <1>5
  <2>2. Typed'
    BY <2>1 DEF Controller, Typed
  <2> QED
    BY <2>1, <2>2, OtherStep DEF Controller, Typed
<1>6. CASE \E v \in Timeouts : SetChordTimeout(v)
  <2>1. PICK v \in Timeouts : SetChordTimeout(v)
    BY <1>6
  <2>2. Typed'
    BY <2>1, TabulatorAssumption DEF SetChordTimeout, Typed
  <2> QED
    BY <2>1, <2>2, OtherStep DEF SetChordTimeout, Typed
<1>7. CASE \E v \in PageWidths : SetPageWidth(v)
  <2>1. PICK v \in PageWidths : SetPageWidth(v)
    BY <1>7
  <2>2. v \in Nat
    BY TabulatorAssumption
  <2>3. Typed'
    BY <2>1, <2>2 DEF SetPageWidth, Typed
  <2> QED
    BY <2>1, <2>2, <2>3, OtherStep DEF SetPageWidth, Typed
<1>8. CASE UNCHANGED vars
  <2>1. Typed'
    BY <1>8 DEF vars, settings, Typed
  <2> QED
    BY <1>8, <2>1, OtherStep DEF vars, settings, Typed
<1> QED
  BY <1>1, <1>2, <1>3, <1>4, <1>5, <1>6, <1>7, <1>8 DEF Next

(* The rendered columns and the queue always hold what was played, each    *)
(* chord apart from the others, and the tabulator remembers when the last  *)
(* key was that it could store (tabulator_plg.py, __key).                  *)
THEOREM SessionIsKept ==
    Spec => []IInv
<1>1. Init => IInv
  BY InitIInv
<1>2. IInv /\ [Next]_vars => IInv'
  BY IInvStep
<1> QED
  BY <1>1, <1>2, PTL DEF Spec

-----------------------------------------------------------------------------
(* The properties *)

(* No stave is printed that the page would not hold (__render_html), but   *)
(* for one that is a single column.                                        *)
THEOREM PageHoldsStaves ==
    Spec => []PageFits
<1>1. IInv => PageFits
  BY DEF IInv, Fits, Fitting, PageFits
<1> QED
  BY <1>1, SessionIsKept, PTL

LEMMA WrittenFacts ==
    ASSUME IInv
    PROVE  /\ Written \in Seq(Columns(courses))
           /\ \E place : Tells(Written, raw, courses, place)
<1> DEFINE n == courses
<1>1. /\ Typed /\ Fits /\ Told /\ FlattenSeq(html) \in Seq(Columns(n)) /\ render \in Seq(Columns(n))
  BY Flattened DEF IInv, Typed
<1>2. CASE notating
  <2> DEFINE column == Column(queue)
  <2>1. n = courselen /\ n \in Nat \ {0} /\ queue \in [1 .. n -> Seq(0 .. 9)]
    BY <1>2 DEF IInv, Typed, Running
  <2>2. column \in Columns(n)
    BY <2>1, ColumnFacts
  <2>3. Done \in Seq(Columns(n))
    BY <1>1 DEF Done
  <2> HIDE DEF n
  <2>4. Written = Append(Done, column)
    <3>1. Written = FlattenSeq(html) \o Append(render, column)
      BY <1>2 DEF Written
    <3> HIDE DEF column
    <3> QED
      BY <1>1, <2>2, <3>1 DEF Done
  <2>5. PICK place : Tells(Append(Done, Draft(queue)), raw, n, place)
    BY <1>1, <1>2 DEF Told, n
  <2>6. \E other : Tells(Append(Done, column), raw, n, other)
    BY <2>1, <2>3, <2>5, Rendered
  <2> HIDE DEF column
  <2> QED
    BY <2>2, <2>3, <2>4, <2>6 DEF n
<1>3. CASE ~ notating
  <2>1. Written = FlattenSeq(html)
    BY <1>1, <1>3 DEF Written
  <2> QED
    BY <1>1, <1>3, <2>1 DEF Told
<1> QED
  BY <1>2, <1>3

(* Every key of the raw file that has a course is in the tablature, once,  *)
(* on its course and with the keys that belong to its chord, sorted, and   *)
(* nothing else is (tabulator_plg.py, __key and __render_html).            *)
THEOREM TablatureTells ==
    Spec => []TablatureIsPlayed
<1>1. IInv => TablatureIsPlayed
  <2> SUFFICES ASSUME IInv
               PROVE  TablatureIsPlayed
    OBVIOUS
  <2> DEFINE n == courses
             text == Written
  <2>1. n \in Nat /\ raw \in Sessions
    BY DEF IInv, Typed
  <2>2. text \in Seq(Columns(n)) /\ text \in Seq(Drafts(n))
    BY WrittenFacts, ColumnsAreDrafts
  <2>3. PICK place : Tells(text, raw, n, place)
    BY WrittenFacts
  <2>4. Played = Players(raw, n)
    BY DEF Played, Players
  <2>5. Places = Spots(text, n)
    <3>1. Places = UNION {{<<m, c, x>> : x \in DOMAIN text[m].keys[c]} : m \in DOMAIN text, c \in 1 .. n}
      BY DEF Places
    <3> HIDE DEF text, n
    <3>2. DOMAIN text = 1 .. Len(text)
      BY <2>2
    <3>3. \A m \in 1 .. Len(text) : \A c \in 1 .. n :
             DOMAIN text[m].keys[c] = 1 .. Len(text[m].keys[c])
      <4> SUFFICES ASSUME NEW m \in 1 .. Len(text), NEW c \in 1 .. n
                   PROVE  DOMAIN text[m].keys[c] = 1 .. Len(text[m].keys[c])
        OBVIOUS
      <4>1. text[m] \in Drafts(n)
        BY <2>2
      <4>2. text[m].keys[c] \in Seq(0 .. 9)
        BY <4>1 DEF Drafts
      <4> QED
        BY <4>2
    <3>4. ASSUME NEW s \in Places
          PROVE  s \in Spots(text, n)
      <4>1. PICK m \in DOMAIN text, c \in 1 .. n : s \in {<<m, c, x>> : x \in DOMAIN text[m].keys[c]}
        BY <3>1, <3>4
      <4>2. PICK x \in DOMAIN text[m].keys[c] : s = <<m, c, x>>
        BY <4>1
      <4> QED
        BY <2>1, <2>2, <3>2, <3>3, <4>2, SpotFacts
    <3>5. ASSUME NEW s \in Spots(text, n)
          PROVE  s \in Places
      <4>1. /\ s = <<s[1], s[2], s[3]>> /\ s[1] \in DOMAIN text /\ s[2] \in 1 .. n
            /\ s[3] \in DOMAIN text[s[1]].keys[s[2]]
        BY <2>1, <2>2, <3>2, <3>3, SpotFacts
      <4> DEFINE here(m, c) == {<<m, c, x>> : x \in DOMAIN text[m].keys[c]}
      <4>2. s \in here(s[1], s[2])
        BY <4>1
      <4>3. Places = UNION {here(m, c) : m \in DOMAIN text, c \in 1 .. n}
        BY <3>1
      <4> HIDE DEF here
      <4> QED
        BY <4>1, <4>2, <4>3
    <3>6. Places \subseteq Spots(text, n) /\ Spots(text, n) \subseteq Places
      BY <3>4, <3>5
    <3> QED
      BY <3>6
  <2>6. \A i, j : Apart(i, j) <=> Gap(raw, i, j)
    BY DEF Apart, Gap
  <2> HIDE DEF n, text
  <2>7. ASSUME NEW p \in Places, NEW q \in Places, p[1] = q[1], p[2] = q[2], p[3] < q[3]
        PROVE  text[p[1]].keys[p[2]][p[3]] <= text[q[1]].keys[q[2]][q[3]]
    <3>1. /\ p[1] \in 1 .. Len(text) /\ p[2] \in 1 .. n
          /\ p[3] \in 1 .. Len(text[p[1]].keys[p[2]]) /\ q[3] \in 1 .. Len(text[p[1]].keys[p[2]])
      BY <2>1, <2>2, <2>5, <2>7, SpotFacts
    <3>2. text[p[1]] \in Columns(n)
      BY <2>2, <3>1
    <3> QED
      BY <2>7, <3>1, <3>2 DEF Columns
  <2>8. place \in Bijection(Played, Places)
    BY <2>3, <2>4, <2>5, Bijections DEF Tells
  <2>9. /\ \A i \in Played : /\ place[i][2] = CourseOf(raw[i].course, n)
                            /\ text[place[i][1]].keys[place[i][2]][place[i][3]] = raw[i].key
        /\ \A i, j \in Played : i < j /\ (\A k \in Played : k <= i \/ j <= k)
             => IF Apart(i, j) THEN place[i][1] < place[j][1] ELSE place[i][1] = place[j][1]
    BY <2>3, <2>4, <2>6 DEF Tells
  <2> QED
    BY <2>7, <2>8, <2>9 DEF TablatureIsPlayed, n, text
<1> QED
  BY <1>1, SessionIsKept, PTL
=============================================================================
