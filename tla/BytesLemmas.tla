----------------------------- MODULE BytesLemmas -----------------------------
(***************************************************************************)
(* Facts about the operators of module Bytes, and about functions defined  *)
(* by a recursion that ends.                                               *)
(***************************************************************************)
EXTENDS Bytes, SequenceTheorems, WellFoundedInduction, TLAPS

\* Least returns the least element: the "first" of the source's position().
LEMMA LeastProperties ==
  ASSUME NEW S, S \subseteq Nat, S # {}
  PROVE  Least(S) \in S /\ \A n \in S : Least(S) <= n
<1> DEFINE R == {ss \in Nat \X Nat : ss[1] < ss[2]}
<1>1. IsWellFoundedOn(R, Nat)
  BY NatLessThanWellFounded, Zenon DEF OpToRel
<1>2. PICK n \in S : \A m \in S : <<m, n>> \notin R
  <2> HIDE DEF R
  <2> QED BY <1>1, WFMin
<1>3. \A m \in S : n <= m
  <2> SUFFICES ASSUME NEW m \in S, m < n PROVE FALSE
    OBVIOUS
  <2>1. <<m, n>> \in Nat \X Nat /\ <<m, n>>[1] < <<m, n>>[2]
    OBVIOUS
  <2>2. <<m, n>> \in R
    BY <2>1, Zenon
  <2> QED BY <1>2, <2>2
<1> QED BY <1>3 DEF Least

\* A slice is the bytes at its offsets.
LEMMA SliceProperties ==
  ASSUME NEW S, NEW s \in Seq(S)
  PROVE  \A i, j \in Nat : i <= j /\ j <= Len(s) =>
           /\ Slice(s, i, j) \in Seq(S)
           /\ Len(Slice(s, i, j)) = j - i
           /\ \A k \in 1 .. j - i : Slice(s, i, j)[k] = s[i + k]
<1> SUFFICES ASSUME NEW i \in Nat, NEW j \in Nat, i <= j, j <= Len(s)
             PROVE  /\ Slice(s, i, j) \in Seq(S)
                    /\ Len(Slice(s, i, j)) = j - i
                    /\ \A k \in 1 .. j - i : Slice(s, i, j)[k] = s[i + k]
  OBVIOUS
<1>1. \A k \in i + 1 .. j : s[k] \in S
  OBVIOUS
<1>2. /\ SubSeq(s, i + 1, j) \in Seq(S)
      /\ Len(SubSeq(s, i + 1, j)) = j - i
  BY <1>1, SubSeqProperties
<1>3. \A k \in 1 .. j - i : SubSeq(s, i + 1, j)[k] = s[i + k]
  BY <1>1, SubSeqProperties
<1> QED BY <1>2, <1>3 DEF Slice

\* Two slices of the same bytes are equal.
LEMMA SliceEqual ==
  ASSUME NEW S, NEW s \in Seq(S), NEW t \in Seq(S),
         NEW i \in Nat, NEW j \in Nat, NEW p \in Nat,
         i <= j, j <= Len(s), p + j <= Len(t)
  PROVE  (\A k \in i + 1 .. j : t[p + k] = s[k])
           => Slice(t, p + i, p + j) = Slice(s, i, j)
<1>1. /\ Slice(s, i, j) \in Seq(S)
      /\ Len(Slice(s, i, j)) = j - i
      /\ \A k \in 1 .. j - i : Slice(s, i, j)[k] = s[i + k]
  BY SliceProperties, Zenon
<1>2. /\ Slice(t, p + i, p + j) \in Seq(S)
      /\ Len(Slice(t, p + i, p + j)) = j - i
      /\ \A k \in 1 .. j - i : Slice(t, p + i, p + j)[k] = t[p + i + k]
  <2>1. \A a, b \in Nat : a <= b /\ b <= Len(t) =>
          /\ Slice(t, a, b) \in Seq(S)
          /\ Len(Slice(t, a, b)) = b - a
          /\ \A k \in 1 .. b - a : Slice(t, a, b)[k] = t[a + k]
    BY SliceProperties, Zenon
  <2>2. p + i \in Nat /\ p + j \in Nat /\ p + i <= p + j /\ p + j <= Len(t)
    OBVIOUS
  <2>3. (p + j) - (p + i) = j - i
    OBVIOUS
  <2> QED BY <2>1, <2>2, <2>3
<1>3. ASSUME \A k \in i + 1 .. j : t[p + k] = s[k]
      PROVE  \A k \in 1 .. j - i : Slice(t, p + i, p + j)[k] = Slice(s, i, j)[k]
  BY <1>1, <1>2, <1>3
<1> QED BY <1>1, <1>2, <1>3, SeqEqual

\* Two adjacent slices make one.
LEMMA SliceConcat ==
  ASSUME NEW S, NEW s \in Seq(S), NEW i \in Nat, NEW j \in Nat, NEW k \in Nat,
         i <= j, j <= k, k <= Len(s)
  PROVE  Slice(s, i, j) \o Slice(s, j, k) = Slice(s, i, k)
<1>1. /\ i + 1 \in 1 .. Len(s) + 1
      /\ j \in (i + 1) - 1 .. Len(s)
      /\ k \in j .. Len(s)
  OBVIOUS
<1>2. SubSeq(s, i + 1, j) \o SubSeq(s, j + 1, k) = SubSeq(s, i + 1, k)
  BY <1>1, ConcatAdjacentSubSeq
<1> QED BY <1>2 DEF Slice

\* From offset n on, a slice is a slice.
LEMMA SliceRest ==
  ASSUME NEW S, NEW s \in Seq(S), NEW i \in Nat, NEW k \in Nat, NEW n \in Nat
  PROVE  i <= k /\ k <= Len(s) /\ n <= k - i
           => Slice(Slice(s, i, k), n, k - i) = Slice(s, i + n, k)
<1>1. \A u \in Seq(S) : \A a, b \in Nat : a <= b /\ b <= Len(u) =>
        /\ Slice(u, a, b) \in Seq(S)
        /\ Len(Slice(u, a, b)) = b - a
        /\ \A x \in 1 .. b - a : Slice(u, a, b)[x] = u[a + x]
  BY SliceProperties, Zenon
<1> DEFINE t == Slice(s, i, k)
<1> SUFFICES ASSUME i <= k, k <= Len(s), n <= k - i
             PROVE  Slice(t, n, k - i) = Slice(s, i + n, k)
  OBVIOUS
<1>2. /\ t \in Seq(S) /\ Len(t) = k - i
      /\ \A x \in 1 .. k - i : t[x] = s[i + x]
  BY <1>1
<1> HIDE DEF t
<1>3. \A a, b \in Nat : a <= b /\ b <= Len(t) =>
        /\ Slice(t, a, b) \in Seq(S)
        /\ Len(Slice(t, a, b)) = b - a
        /\ \A x \in 1 .. b - a : Slice(t, a, b)[x] = t[a + x]
  BY <1>1, <1>2, Zenon
<1>4. k - i \in Nat /\ n <= k - i /\ k - i <= Len(t)
  BY <1>2
<1>5. /\ Slice(t, n, k - i) \in Seq(S) /\ Len(Slice(t, n, k - i)) = k - i - n
      /\ \A x \in 1 .. k - i - n : Slice(t, n, k - i)[x] = t[n + x]
  BY <1>3, <1>4
<1>6. i + n \in Nat /\ i + n <= k /\ k - (i + n) = k - i - n
  OBVIOUS
<1>7. /\ Slice(s, i + n, k) \in Seq(S) /\ Len(Slice(s, i + n, k)) = k - i - n
      /\ \A x \in 1 .. k - i - n : Slice(s, i + n, k)[x] = s[i + n + x]
  <2>1. \A a, b \in Nat : a <= b /\ b <= Len(s) =>
          /\ Slice(s, a, b) \in Seq(S)
          /\ Len(Slice(s, a, b)) = b - a
          /\ \A x \in 1 .. b - a : Slice(s, a, b)[x] = s[a + x]
    BY <1>1, Zenon
  <2> QED BY <1>6, <2>1
<1>8. ASSUME NEW x \in 1 .. k - i - n
      PROVE  Slice(t, n, k - i)[x] = Slice(s, i + n, k)[x]
  <2>1. n + x \in 1 .. k - i /\ i + (n + x) = i + n + x
    OBVIOUS
  <2> QED BY <1>2, <1>5, <1>7, <2>1
<1>9. Slice(t, n, k - i) = Slice(s, i + n, k)
  <2> DEFINE u == Slice(t, n, k - i)
             v == Slice(s, i + n, k)
  <2>1. u \in Seq(S) /\ v \in Seq(S) /\ Len(u) = Len(v) /\ \A x \in 1 .. Len(u) : u[x] = v[x]
    BY <1>5, <1>7, <1>8
  <2> HIDE DEF u, v
  <2>2. u = v
    BY <2>1, SeqEqual
  <2> QED BY <2>2 DEF u, v
<1> QED BY <1>9 DEF t

\* The first position of a byte in a range, when there is one.
LEMMA FirstPosition ==
  ASSUME NEW buf, NEW b
  PROVE  \A from \in Nat, to \in Int :
           Positions(buf, from, to, b) # {} =>
             /\ Least(Positions(buf, from, to, b)) \in from .. to - 1
             /\ At(buf, Least(Positions(buf, from, to, b))) = b
             /\ \A i \in from .. Least(Positions(buf, from, to, b)) - 1 : At(buf, i) # b
<1> SUFFICES ASSUME NEW from \in Nat, NEW to \in Int, Positions(buf, from, to, b) # {}
             PROVE  /\ Least(Positions(buf, from, to, b)) \in from .. to - 1
                    /\ At(buf, Least(Positions(buf, from, to, b))) = b
                    /\ \A i \in from .. Least(Positions(buf, from, to, b)) - 1 :
                          At(buf, i) # b
  OBVIOUS
<1> DEFINE P == Positions(buf, from, to, b)
           q == Least(P)
<1>1. P \subseteq Nat /\ P # {}
  BY DEF Positions
<1>2. q \in P /\ \A n \in P : q <= n
  <2> HIDE DEF P
  <2> QED BY <1>1, LeastProperties
<1>3. q \in from .. to - 1 /\ At(buf, q) = b
  <2> HIDE DEF q
  <2> QED BY <1>2 DEF Positions
<1>4. ASSUME NEW i \in from .. q - 1, At(buf, i) = b PROVE FALSE
  <2> HIDE DEF q
  <2>1. i \in P
    BY <1>3, <1>4 DEF Positions
  <2> QED BY <1>2, <1>3, <2>1
<1> QED BY <1>3, <1>4

\* The digits of a slice are the digits at its offsets.
LEMMA SliceDigits ==
  ASSUME NEW buf \in Seq(Byte), NEW i \in Nat, NEW j \in Nat, i <= j, j <= Len(buf)
  PROVE  /\ AllDigits(Slice(buf, i, j)) <=> \A k \in i .. j - 1 : At(buf, k) \in Digit
         /\ Len(Slice(buf, i, j)) = j - i
         /\ AllDigits(Slice(buf, i, j)) => Slice(buf, i, j) \in Seq(Digit)
<1> DEFINE t == Slice(buf, i, j)
<1>1. /\ t \in Seq(Byte) /\ Len(t) = j - i
      /\ \A k \in 1 .. j - i : t[k] = buf[i + k]
  BY SliceProperties, Zenon
<1> HIDE DEF t
<1>2. ASSUME AllDigits(t) PROVE \A k \in i .. j - 1 : At(buf, k) \in Digit
  <2> SUFFICES ASSUME NEW k \in i .. j - 1 PROVE buf[k + 1] \in Digit
    BY DEF At
  <2>1. k + 1 - i \in 1 .. j - i /\ i + (k + 1 - i) = k + 1
    OBVIOUS
  <2> QED BY <1>1, <1>2, <2>1 DEF AllDigits
<1>3. ASSUME \A k \in i .. j - 1 : At(buf, k) \in Digit PROVE AllDigits(t)
  <2> SUFFICES ASSUME NEW k \in 1 .. j - i PROVE t[k] \in Digit
    BY <1>1 DEF AllDigits
  <2>1. i + k - 1 \in i .. j - 1 /\ (i + k - 1) + 1 = i + k
    OBVIOUS
  <2>2. buf[i + k] \in Digit
    BY <1>3, <2>1 DEF At
  <2> QED BY <1>1, <2>2
<1>4. ASSUME AllDigits(t) PROVE t \in Seq(Digit)
  <2>1. \A k \in 1 .. Len(t) : t[k] \in Digit
    BY <1>4 DEF AllDigits
  <2> QED BY <1>1, <2>1
<1> QED BY <1>1, <1>2, <1>3, <1>4 DEF t

\* The function that Number evaluates: value[n] is the number that the first
\* n digits spell.
IsValue(f, digits, n) ==
  f = [k \in 0 .. n |-> IF k = 0 THEN 0 ELSE 10 * f[k - 1] + (digits[k] - 48)]

\* It exists, whatever the digits: the least n for which it did not would
\* have an n - 1 for which it does.
LEMMA ValueExists ==
  ASSUME NEW digits, NEW N \in Nat
  PROVE  \E f : IsValue(f, digits, N)
<1> DEFINE T == {n \in Nat : ~\E f : IsValue(f, digits, n)}
<1> SUFFICES T = {}
  OBVIOUS
<1>1. ASSUME T # {} PROVE FALSE
  <2>1. PICK n \in T : \A m \in T : n <= m
    <3>1. T \subseteq Nat
      OBVIOUS
    <3> HIDE DEF T
    <3> QED BY <1>1, <3>1, LeastProperties
  <2>2. n \in Nat /\ ~\E f : IsValue(f, digits, n)
    OBVIOUS
  <2>3. n # 0
    <3> DEFINE g == [k \in 0 .. 0 |-> 0]
    <3>1. IsValue(g, digits, 0)
      BY DEF IsValue
    <3> QED BY <2>2, <3>1
  <2>4. n - 1 \in Nat /\ n - 1 \notin T
    BY <2>1, <2>2, <2>3
  <2>5. PICK f : IsValue(f, digits, n - 1)
    BY <2>4
  <2> DEFINE g == [k \in 0 .. n |-> IF k = n THEN 10 * f[n - 1] + (digits[n] - 48)
                                    ELSE f[k]]
  <2>6. \A k \in 0 .. n : g[k] = IF k = 0 THEN 0
                                 ELSE 10 * g[k - 1] + (digits[k] - 48)
    <3> TAKE k \in 0 .. n
    <3>1. CASE k = n
      <4>1. g[n] = 10 * f[n - 1] + (digits[n] - 48)
        BY <2>2
      <4>2. g[n - 1] = f[n - 1]
        BY <2>2, <2>3
      <4> QED BY <3>1, <4>1, <4>2, <2>3
    <3>2. CASE k # n
      <4>1. k \in 0 .. n - 1 /\ g[k] = f[k]
        BY <3>2, <2>2
      <4>2. f[k] = IF k = 0 THEN 0 ELSE 10 * f[k - 1] + (digits[k] - 48)
        BY <4>1, <2>5 DEF IsValue
      <4>3. k # 0 => g[k - 1] = f[k - 1]
        BY <4>1, <2>2
      <4> QED BY <4>1, <4>2, <4>3
    <3> QED BY <3>1, <3>2
  <2>7. IsValue(g, digits, n)
    BY <2>6 DEF IsValue
  <2> QED BY <2>2, <2>7
<1> QED BY <1>1

\* Digits spell a natural number.
LEMMA NumberIsNat ==
  ASSUME NEW digits \in Seq(Digit)
  PROVE  Number(digits) \in Nat
<1> DEFINE N == Len(digits)
           value == CHOOSE f : IsValue(f, digits, N)
<1>1. N \in Nat /\ \A k \in 1 .. N : digits[k] \in 48 .. 57
  BY DEF Digit
<1>2. IsValue(value, digits, N)
  BY <1>1, ValueExists
<1>3. \A k \in 0 .. N : value[k] = IF k = 0 THEN 0
                                   ELSE 10 * value[k - 1] + (digits[k] - 48)
  <2> HIDE DEF value
  <2> QED BY <1>2 DEF IsValue
<1>4. Number(digits) = value[N]
  BY DEF Number, IsValue
<1> DEFINE T == {n \in 0 .. N : value[n] \notin Nat}
<1>5. ASSUME T # {} PROVE FALSE
  <2> HIDE DEF value
  <2>1. PICK n \in T : \A m \in T : n <= m
    <3>1. T \subseteq Nat
      BY <1>1
    <3> HIDE DEF T
    <3> QED BY <1>5, <3>1, LeastProperties
  <2>2. CASE n = 0
    BY <2>1, <2>2, <1>3, <1>1
  <2>3. CASE n # 0
    <3>1. n - 1 \in 0 .. N /\ n - 1 \notin T /\ n \in 1 .. N
      BY <2>1, <2>3, <1>1
    <3>2. value[n - 1] \in Nat
      BY <3>1
    <3>3. value[n] = 10 * value[n - 1] + (digits[n] - 48)
      BY <3>1, <1>3
    <3>4. digits[n] \in 48 .. 57
      BY <3>1, <1>1
    <3>5. 10 * value[n - 1] \in Nat
      BY <3>2
    <3>6. \A v, d : v \in Nat /\ d \in 48 .. 57 => v + (d - 48) \in Nat
      OBVIOUS
    <3>7. value[n] \in Nat
      BY <3>3, <3>4, <3>5, <3>6, Zenon
    <3> QED BY <2>1, <3>7
  <2> QED BY <2>2, <2>3
<1> HIDE DEF value
<1>6. value[N] \in Nat
  BY <1>1, <1>5
<1> QED BY <1>4, <1>6

\* A slice of bytes, all that is known of it.
LEMMA ByteSlices ==
  ASSUME NEW b \in Seq(Byte)
  PROVE  \A k, j \in Nat : k <= j /\ j <= Len(b) =>
           /\ Slice(b, k, j) \in Seq(Byte)
           /\ Len(Slice(b, k, j)) = j - k
           /\ \A m \in 1 .. j - k : Slice(b, k, j)[m] = b[k + m]
<1> QED BY SliceProperties

\* The least is the one that no other is below.
LEMMA LeastIs ==
  ASSUME NEW S, S \subseteq Nat, NEW n \in S, \A k \in S : n <= k
  PROVE  Least(S) = n
<1> DEFINE l == Least(S)
<1>1. l \in S /\ \A k \in S : l <= k
  BY LeastProperties
<1> HIDE DEF l
<1>2. l \in Nat /\ n \in Nat /\ l <= n /\ n <= l
  BY <1>1
<1>3. l = n
  BY <1>2
<1> QED BY <1>3 DEF l

\* A slice of a slice is one of the whole.
LEMMA SliceOfSlice ==
  ASSUME NEW b \in Seq(Byte), NEW i \in Nat, NEW k \in Nat, i <= k, k <= Len(b)
  PROVE  \A m, n \in Nat : m <= n /\ n <= k - i =>
           Slice(Slice(b, i, k), m, n) = Slice(b, i + m, i + n)
<1> SUFFICES ASSUME NEW m \in Nat, NEW n \in Nat, m <= n, n <= k - i
             PROVE  Slice(Slice(b, i, k), m, n) = Slice(b, i + m, i + n)
  OBVIOUS
<1> DEFINE s == Slice(b, i, k)
           t == Slice(s, m, n)
           u == Slice(b, i + m, i + n)
<1>0. Len(b) \in Nat /\ i + m \in Nat /\ i + n \in Nat /\ i + m <= i + n /\ i + n <= Len(b)
  OBVIOUS
<1>1. s \in Seq(Byte) /\ Len(s) = k - i /\ \A x \in 1 .. k - i : s[x] = b[i + x]
  BY ByteSlices, Zenon
<1>2. /\ u \in Seq(Byte) /\ Len(u) = (i + n) - (i + m)
      /\ \A x \in 1 .. (i + n) - (i + m) : u[x] = b[(i + m) + x]
  BY <1>0, ByteSlices, Zenon
<1> HIDE DEF s, u
<1>3. n <= Len(s)
  BY <1>1
<1>4. t \in Seq(Byte) /\ Len(t) = n - m /\ \A x \in 1 .. n - m : t[x] = s[m + x]
  BY <1>1, <1>3, ByteSlices, Zenon
<1> HIDE DEF t
<1>5. Len(t) = n - m /\ Len(u) = n - m
  BY <1>2, <1>4
<1>6. \A x \in 1 .. n - m : t[x] = u[x]
  <2> TAKE x \in 1 .. n - m
  <2>1. m + x \in 1 .. k - i /\ i + (m + x) = (i + m) + x /\ x \in 1 .. (i + n) - (i + m)
    OBVIOUS
  <2> QED BY <1>1, <1>2, <1>4, <2>1
<1>7. t = u
  BY <1>2, <1>4, <1>5, <1>6, SeqEqual
<1> QED BY <1>7 DEF s, t, u

\* b is a and what came after it.
Begins(a, b) == Len(a) <= Len(b) /\ \A k \in 1 .. Len(a) : a[k] = b[k]

\* The rests of a and b, from one offset on, begin alike.
LEMMA BeginsSlice ==
  ASSUME NEW a \in Seq(Byte), NEW b \in Seq(Byte), Begins(a, b), NEW i \in Nat, i <= Len(a)
  PROVE  /\ Begins(Slice(a, i, Len(a)), Slice(b, i, Len(b)))
         /\ Slice(a, i, Len(a)) \in Seq(Byte) /\ Slice(b, i, Len(b)) \in Seq(Byte)
<1> DEFINE p == Slice(a, i, Len(a))
           q == Slice(b, i, Len(b))
<1>1. /\ Len(a) \in Nat /\ Len(b) \in Nat /\ Len(a) <= Len(b) /\ i <= Len(b)
      /\ \A k \in 1 .. Len(a) : a[k] = b[k] /\ Len(a) <= Len(a) /\ Len(b) <= Len(b)
  BY DEF Begins
<1>2. /\ p \in Seq(Byte) /\ Len(p) = Len(a) - i
      /\ \A k \in 1 .. Len(a) - i : p[k] = a[i + k]
  <2>1. Len(a) <= Len(a)
    BY <1>1
  <2> QED BY <1>1, <2>1, ByteSlices, Zenon
<1>3. /\ q \in Seq(Byte) /\ Len(q) = Len(b) - i
      /\ \A k \in 1 .. Len(b) - i : q[k] = b[i + k]
  <2>1. Len(b) <= Len(b)
    BY <1>1
  <2> QED BY <1>1, <2>1, ByteSlices, Zenon
<1> HIDE DEF p, q
<1>4. Begins(p, q)
  <2>1. Len(p) <= Len(q)
    BY <1>1, <1>2, <1>3
  <2>2. \A k \in 1 .. Len(p) : p[k] = q[k]
    <3> SUFFICES ASSUME NEW k \in 1 .. Len(p) PROVE p[k] = q[k]
      OBVIOUS
    <3>1. k \in 1 .. Len(a) - i /\ k \in 1 .. Len(b) - i /\ i + k \in 1 .. Len(a)
      BY <1>1, <1>2
    <3> QED BY <1>1, <1>2, <1>3, <3>1
  <2> QED BY <2>1, <2>2 DEF Begins
<1> QED BY <1>2, <1>3, <1>4 DEF p, q

\* A slice of a is one of what begins with a.
LEMMA BeginsPart ==
  ASSUME NEW a \in Seq(Byte), NEW b \in Seq(Byte), Begins(a, b), NEW i \in Nat, NEW j \in Nat,
         i <= j, j <= Len(a)
  PROVE  Slice(b, i, j) = Slice(a, i, j)
<1>1. Len(a) <= Len(b) /\ \A k \in 1 .. Len(a) : a[k] = b[k]
  BY Zenon DEF Begins
<1>2. Len(a) \in Nat /\ Len(b) \in Nat
  OBVIOUS
<1>3. ASSUME NEW p \in Nat, p = 0 PROVE Slice(b, i, j) = Slice(a, i, j)
  <2>1. p + j <= Len(b) /\ \A k \in i + 1 .. j : b[p + k] = a[k]
    BY <1>1, <1>2, <1>3
  <2>2. Slice(b, p + i, p + j) = Slice(a, i, j)
    BY <2>1, SliceEqual
  <2>3. p + i = i /\ p + j = j
    BY <1>3
  <2> QED BY <2>2, <2>3
<1> QED BY <1>3

-----------------------------------------------------------------------------
(* Functions that follow next and collect rec on the way: that they exist,  *)
(* and what they return.                                                    *)

\* f collects what rec has of an element of S, if anything, and then that of the
\* next.
Chained(f, S, rec, next) ==
  f = [r \in S |-> IF rec[r] = <<>> THEN <<>> ELSE rec[r] \o f[next[r]]]

\* The next is smaller.
Shrinks(S, rec, next, size) ==
  /\ \A r \in S : size[r] \in Nat
  /\ \A r \in S : rec[r] # <<>> => next[r] \in S /\ size[next[r]] < size[r]

UpTo(S, size, n) == {r \in S : size[r] <= n}

\* There is such a function of what is no larger than N.
LEMMA ChainUpTo ==
  ASSUME NEW S, NEW rec, NEW next, NEW size, Shrinks(S, rec, next, size), NEW N \in Nat
  PROVE  \E f : Chained(f, UpTo(S, size, N), rec, next)
<1> DEFINE T == {n \in Nat : ~\E f : Chained(f, UpTo(S, size, n), rec, next)}
           n == Least(T)
<1>1. SUFFICES ASSUME T # {} PROVE FALSE
  OBVIOUS
<1>2. n \in T /\ \A k \in T : n <= k
  <2>1. T \subseteq Nat
    OBVIOUS
  <2> HIDE DEF T
  <2> QED BY <1>1, <2>1, LeastProperties
<1> HIDE DEF n
<1>3. n \in Nat /\ ~\E f : Chained(f, UpTo(S, size, n), rec, next)
  BY <1>2
<1>4. CASE n = 0
  <2>1. \A r \in UpTo(S, size, 0) : rec[r] = <<>>
    BY DEF UpTo, Shrinks
  <2>2. Chained([r \in UpTo(S, size, 0) |-> <<>>], UpTo(S, size, 0), rec, next)
    BY <2>1, Zenon DEF Chained
  <2> QED BY <1>3, <1>4, <2>2
<1>5. CASE n > 0
  <2>1. n - 1 \in Nat /\ n - 1 \notin T
    BY <1>2, <1>3, <1>5
  <2>2. PICK g : Chained(g, UpTo(S, size, n - 1), rec, next)
    BY <2>1
  <2> DEFINE f == [r \in UpTo(S, size, n) |->
                     IF rec[r] = <<>> THEN <<>> ELSE rec[r] \o g[next[r]]]
  <2>3. \A r \in UpTo(S, size, n) : rec[r] # <<>> =>
          next[r] \in UpTo(S, size, n - 1) /\ next[r] \in UpTo(S, size, n)
    BY <1>3, <2>1 DEF UpTo, Shrinks
  <2>4. \A q \in UpTo(S, size, n - 1) :
          g[q] = IF rec[q] = <<>> THEN <<>> ELSE rec[q] \o g[next[q]]
    BY <2>2, Zenon DEF Chained
  <2>5. \A r \in UpTo(S, size, n) : rec[r] # <<>> => f[next[r]] = g[next[r]]
    BY <2>3, <2>4, Zenon
  <2>6. Chained(f, UpTo(S, size, n), rec, next)
    BY <2>5, Zenon DEF Chained
  <2> QED BY <1>3, <2>6
<1> QED BY <1>3, <1>4, <1>5

\* Of what both know, two of them say the same.
LEMMA ChainsAgree ==
  ASSUME NEW S, NEW rec, NEW next, NEW size, Shrinks(S, rec, next, size),
         NEW M \in Nat, NEW N \in Nat, NEW f, NEW g,
         Chained(f, UpTo(S, size, M), rec, next), Chained(g, UpTo(S, size, N), rec, next),
         NEW x \in S, size[x] <= M, size[x] <= N
  PROVE  f[x] = g[x]
<1> DEFINE Bad == {r \in S : size[r] <= M /\ size[r] <= N /\ f[r] # g[r]}
           T == {size[r] : r \in Bad}
           n == Least(T)
<1>1. SUFFICES ASSUME Bad # {} PROVE FALSE
  OBVIOUS
<1>2. n \in T /\ \A k \in T : n <= k
  <2>1. T \subseteq Nat /\ T # {}
    BY <1>1 DEF Shrinks
  <2> HIDE DEF T
  <2> QED BY <2>1, LeastProperties
<1> HIDE DEF n
<1>3. PICK r \in Bad : size[r] = n
  BY <1>2
<1>4. /\ f[r] = IF rec[r] = <<>> THEN <<>> ELSE rec[r] \o f[next[r]]
      /\ g[r] = IF rec[r] = <<>> THEN <<>> ELSE rec[r] \o g[next[r]]
  <2>1. r \in UpTo(S, size, M) /\ r \in UpTo(S, size, N)
    BY DEF UpTo
  <2> QED BY <2>1, Zenon DEF Chained
<1>5. rec[r] # <<>> /\ f[next[r]] # g[next[r]]
  BY <1>3, <1>4, Zenon
<1>6. next[r] \in S /\ size[next[r]] < size[r] /\ size[next[r]] \in Nat /\ size[r] \in Nat
  BY <1>3, <1>5 DEF Shrinks
<1>7. next[r] \in Bad
  BY <1>3, <1>5, <1>6
<1>8. size[next[r]] \in T
  BY <1>7
<1> HIDE DEF T, Bad
<1>9. n <= size[next[r]]
  BY <1>2, <1>8
<1> QED BY <1>3, <1>6, <1>9

\* There is one of all of S.
LEMMA ChainExists ==
  ASSUME NEW S, NEW rec, NEW next, NEW size, Shrinks(S, rec, next, size)
  PROVE  \E f : Chained(f, S, rec, next)
<1> DEFINE level == [n \in Nat |-> CHOOSE f : Chained(f, UpTo(S, size, n), rec, next)]
           f == [r \in S |-> level[size[r]][r]]
<1>1. \A n \in Nat : Chained(level[n], UpTo(S, size, n), rec, next)
  <2>1. TAKE n \in Nat
  <2>2. \E g : Chained(g, UpTo(S, size, n), rec, next)
    BY ChainUpTo
  <2> QED BY <2>2, Zenon
<1> HIDE DEF level
<1>2. ASSUME NEW r \in S, rec[r] # <<>>
      PROVE  /\ level[size[r]][r] = rec[r] \o level[size[r]][next[r]]
             /\ level[size[r]][next[r]] = level[size[next[r]]][next[r]]
  <2>1. /\ size[r] \in Nat /\ next[r] \in S /\ size[next[r]] \in Nat
        /\ size[next[r]] <= size[r] /\ size[r] <= size[r] /\ size[next[r]] <= size[next[r]]
    BY <1>2 DEF Shrinks
  <2>2. r \in UpTo(S, size, size[r])
    BY <2>1 DEF UpTo
  <2>3. /\ Chained(level[size[r]], UpTo(S, size, size[r]), rec, next)
        /\ Chained(level[size[next[r]]], UpTo(S, size, size[next[r]]), rec, next)
    BY <1>1, <2>1, Zenon
  <2>4. level[size[r]][r] = rec[r] \o level[size[r]][next[r]]
    BY <1>2, <2>2, <2>3, Zenon DEF Chained
  <2>5. level[size[r]][next[r]] = level[size[next[r]]][next[r]]
    <3> DEFINE m == size[r]
               k == size[next[r]]
               g == level[m]
               h == level[k]
               q == next[r]
    <3>1. /\ m \in Nat /\ k \in Nat /\ q \in S /\ size[q] <= m /\ size[q] <= k
          /\ Chained(g, UpTo(S, size, m), rec, next) /\ Chained(h, UpTo(S, size, k), rec, next)
      BY <2>1, <2>3, Zenon
    <3>2. g[q] = h[q]
      <4> HIDE DEF g, h, q, m, k
      <4> QED BY <3>1, ChainsAgree
    <3> QED BY <3>2
  <2> QED BY <2>4, <2>5
<1>3. ASSUME NEW r \in S, rec[r] = <<>>
      PROVE  level[size[r]][r] = <<>>
  <2>1. size[r] \in Nat /\ size[r] <= size[r]
    BY DEF Shrinks
  <2>2. r \in UpTo(S, size, size[r])
    BY <2>1 DEF UpTo
  <2> QED BY <1>1, <1>3, <2>1, <2>2, Zenon DEF Chained
<1>4. \A r \in S : rec[r] # <<>> => next[r] \in S
  BY DEF Shrinks
<1>5. Chained(f, S, rec, next)
  BY <1>2, <1>3, <1>4, Zenon DEF Chained
<1> QED BY <1>5

\* What such an f gives are sequences of what rec does.
LEMMA ChainType ==
  ASSUME NEW S, NEW rec, NEW next, NEW size, Shrinks(S, rec, next, size),
         NEW f, Chained(f, S, rec, next), NEW V, \A r \in S : rec[r] \in Seq(V), NEW x \in S
  PROVE  f[x] \in Seq(V)
<1> DEFINE Bad == {r \in S : f[r] \notin Seq(V)}
           T == {size[r] : r \in Bad}
           n == Least(T)
<1>1. SUFFICES ASSUME Bad # {} PROVE FALSE
  OBVIOUS
<1>2. n \in T /\ \A k \in T : n <= k
  <2>1. T \subseteq Nat /\ T # {}
    BY <1>1 DEF Shrinks
  <2> HIDE DEF T
  <2> QED BY <2>1, LeastProperties
<1> HIDE DEF n
<1>3. PICK r \in Bad : size[r] = n
  BY <1>2
<1>4. f[r] = IF rec[r] = <<>> THEN <<>> ELSE rec[r] \o f[next[r]]
  BY Zenon DEF Chained
<1>5. rec[r] # <<>> /\ f[next[r]] \notin Seq(V)
  <2>1. rec[r] \in Seq(V) /\ <<>> \in Seq(V) /\ f[r] \notin Seq(V)
    OBVIOUS
  <2>2. ASSUME f[next[r]] \in Seq(V) PROVE rec[r] \o f[next[r]] \in Seq(V)
    <3> DEFINE u == rec[r]
               v == f[next[r]]
    <3>1. u \in Seq(V) /\ v \in Seq(V)
      BY <2>1, <2>2
    <3> HIDE DEF u, v
    <3>2. u \o v \in Seq(V)
      BY <3>1
    <3> QED BY <3>2 DEF u, v
  <2> QED BY <1>4, <2>1, <2>2, Zenon
<1>6. next[r] \in S /\ size[next[r]] < size[r] /\ size[next[r]] \in Nat /\ size[r] \in Nat
  BY <1>3, <1>5 DEF Shrinks
<1>7. next[r] \in Bad
  BY <1>5, <1>6
<1>8. size[next[r]] \in T
  BY <1>7
<1> HIDE DEF T, Bad
<1>9. n <= size[next[r]]
  BY <1>2, <1>8
<1> QED BY <1>3, <1>6, <1>9
=============================================================================
