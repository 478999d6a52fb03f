------------------------------ MODULE ListProofs ------------------------------
(***************************************************************************)
(* Lemmas about the operators of Lists, for lists of any length.  Induction is  *)
(* over sets of numbers (the library's theorems take a predicate): a nonempty    *)
(* set of natural numbers has a least member.                                    *)
(***************************************************************************)
EXTENDS Lists, SequencesExt, SequenceTheorems, FiniteSetTheorems, WellFoundedInduction,
        TLAPS

\* A nonempty set of natural numbers has a least member.
LEMMA Least ==
    ASSUME NEW T \in SUBSET Nat, T # {}
    PROVE  \E n \in T : \A m \in T : ~(m < n)
<1>1. \E x \in T : \A y \in T : ~(<<y, x>> \in OpToRel(<, Nat))
  BY NatLessThanWellFounded, WFMin
<1>2. QED
  BY <1>1 DEF OpToRel

\* Min picks the least member of a set of naturals.
LEMMA MinIsMember ==
    ASSUME NEW S \in SUBSET Nat, S # {}
    PROVE  Min(S) \in S /\ \A y \in S : Min(S) <= y
<1>1. PICK x \in S : \A y \in S : ~(y < x)
  BY Least
<1>2. \A y \in S : x <= y
  BY <1>1
<1>3. QED
  BY <1>2 DEF Min

\* Max picks the greatest member of a set of numbers up to n.
LEMMA MaxOfNumbers ==
    ASSUME NEW n \in Nat, NEW S \in SUBSET (0..n), S # {}
    PROVE  Max(S) \in S /\ \A y \in S : Max(S) >= y
<1> DEFINE T == {m \in Nat : \E i \in S : m = n - i}
<1>1. PICK i \in S : TRUE
  OBVIOUS
<1>2. n - i \in T
  OBVIOUS
<1>3. ASSUME NEW y \in S PROVE n - y \in T
  OBVIOUS
<1>4. ASSUME NEW m \in T PROVE \E x \in S : m = n - x
  OBVIOUS
<1>5. T \in SUBSET Nat /\ T # {}
  BY <1>2
<1> HIDE DEF T
<1>6. Min(T) \in T /\ \A m \in T : Min(T) <= m
  BY <1>5, MinIsMember
<1>7. PICK x \in S : Min(T) = n - x
  BY <1>4, <1>6
<1>8. \A y \in S : x >= y
  BY <1>3, <1>6, <1>7
<1>9. QED
  BY <1>8 DEF Max

\* Max picks the greatest member of a set of indices.
LEMMA MaxIsMember ==
    ASSUME NEW n \in Nat, NEW S \in SUBSET (1..n), S # {}
    PROVE  Max(S) \in S /\ \A y \in S : Max(S) >= y
<1>1. S \in SUBSET (0..n)
  OBVIOUS
<1>2. QED
  BY <1>1, MaxOfNumbers

\* Induction: a set with 0 and with every successor has every natural number.
LEMMA Induct ==
    ASSUME NEW S, 0 \in S, \A n \in Nat : n \in S => n + 1 \in S
    PROVE  Nat \subseteq S
<1> SUFFICES ASSUME Nat \ S # {} PROVE FALSE
  OBVIOUS
<1>1. PICK n \in Nat \ S : \A m \in Nat \ S : ~(m < n)
  BY Least
<1>2. n # 0 /\ n - 1 \in Nat /\ n - 1 < n
  BY <1>1
<1>3. n - 1 \in S
  BY <1>1, <1>2
<1>4. QED
  BY <1>1, <1>2, <1>3

\* The functions that primitive recursion up to N defines.
Recursive(V, base, step, N) ==
    {g \in [0..N -> V] : g[0] = base /\ \A n \in 1..N : g[n] = step[n][g[n - 1]]}

\* Primitive recursion defines a function.
LEMMA Recursion ==
    ASSUME NEW V, NEW base \in V, NEW step \in [Nat -> [V -> V]], NEW N \in Nat
    PROVE  Recursive(V, base, step, N) # {}
<1> DEFINE S == {M \in Nat : Recursive(V, base, step, M) # {}}
<1>1. 0 \in S
  <2>1. [n \in 0..0 |-> base] \in Recursive(V, base, step, 0)
    BY DEF Recursive
  <2>2. QED
    BY <2>1
<1>2. ASSUME NEW M \in Nat, M \in S PROVE M + 1 \in S
  <2>1. PICK g : g \in Recursive(V, base, step, M)
    BY <1>2
  <2> DEFINE h == [n \in 0..(M + 1) |-> IF n = M + 1 THEN step[M + 1][g[M]] ELSE g[n]]
  <2>2. h \in [0..(M + 1) -> V]
    BY <2>1 DEF Recursive
  <2>3. h[0] = base
    BY <2>1 DEF Recursive
  <2>4. ASSUME NEW n \in 1..(M + 1) PROVE h[n] = step[n][h[n - 1]]
    <3>1. n - 1 \in 0..M /\ h[n - 1] = g[n - 1]
      OBVIOUS
    <3>2. CASE n = M + 1
      <4>1. h[n] = step[n][g[n - 1]]
        BY <3>2
      <4>2. QED
        BY <3>1, <4>1
    <3>3. CASE n # M + 1
      <4>1. n \in 1..M /\ h[n] = g[n]
        BY <3>3
      <4>2. QED
        BY <2>1, <3>1, <4>1 DEF Recursive
    <3>4. QED
      BY <3>2, <3>3
  <2> HIDE DEF h
  <2>5. h \in Recursive(V, base, step, M + 1)
    BY <2>2, <2>3, <2>4 DEF Recursive
  <2>6. QED
    BY <2>5
<1> HIDE DEF S
<1>3. N \in S
  BY <1>1, <1>2, Induct
<1>4. QED
  BY <1>3 DEF S

\* What the loop of Within has kept after n elements, for every n.
Keeping(E, s, S) ==
    {f \in [0..Len(s) -> Seq(E)] :
        /\ f[0] = <<>>
        /\ \A n \in 1..Len(s) :
              f[n] = IF s[n] \in S THEN Append(f[n - 1], s[n]) ELSE f[n - 1]}

\* The recursive function of Within exists.
LEMMA WithinSteps ==
    ASSUME NEW E, NEW s \in Seq(E), NEW S
    PROVE  \E f \in Keeping(E, s, S) : Within(s, S) = f[Len(s)]
<1> DEFINE N == Len(s)
           Take(n, r) == IF s[n] \in S THEN Append(r, s[n]) ELSE r
           Kept(f) == [n \in 0..N |-> IF n = 0 THEN <<>> ELSE Take(n, f[n - 1])]
<1>1. N \in Nat /\ \A n \in 1..N : s[n] \in E
  OBVIOUS
<1>2. \A n \in 1..N, r \in Seq(E) : Take(n, r) \in Seq(E)
  BY <1>1
<1>3. \E f : f = Kept(f)
  <2> HIDE DEF Take, N
  <2>1. PICK step \in [Nat -> [Seq(E) -> Seq(E)]] :
           \A n \in 1..N, r \in Seq(E) : step[n][r] = Take(n, r)
    <3> DEFINE st == [n \in Nat |-> [r \in Seq(E) |-> IF n \in 1..N THEN Take(n, r) ELSE r]]
    <3>1. st \in [Nat -> [Seq(E) -> Seq(E)]]
      BY <1>1, <1>2
    <3>2. \A n \in 1..N, r \in Seq(E) : st[n][r] = Take(n, r)
      BY <1>1
    <3> HIDE DEF st
    <3>3. QED
      BY <3>1, <3>2
  <2>4. PICK g \in [0..N -> Seq(E)] :
           g[0] = <<>> /\ \A n \in 1..N : g[n] = step[n][g[n - 1]]
    <3>1. <<>> \in Seq(E)
      OBVIOUS
    <3>2. Recursive(Seq(E), <<>>, step, N) # {}
      BY <1>1, <3>1, Recursion
    <3>3. QED
      BY <3>2 DEF Recursive
  <2>5. \A n \in 1..N : n - 1 \in 0..N /\ g[n - 1] \in Seq(E)
    BY <1>1
  <2>6. \A n \in 1..N : g[n] = Take(n, g[n - 1])
    BY <2>1, <2>4, <2>5
  <2>7. \A n \in 0..N : n # 0 => n \in 1..N
    BY <1>1
  <2>8. g = Kept(g)
    BY <2>4, <2>6, <2>7
  <2>9. QED
    BY <2>8
<1>4. PICK f : f = Kept(f) /\ Within(s, S) = f[N]
  <2> DEFINE kept == CHOOSE f : f = Kept(f)
  <2>1. Within(s, S) = kept[N]
    BY DEF Within
  <2>2. kept = Kept(kept)
    <3> HIDE DEF Kept
    <3>1. QED
      BY <1>3
  <2> HIDE DEF kept, Kept
  <2>3. QED
    BY <2>1, <2>2
<1>5. f[0] = <<>> /\ \A n \in 1..N : f[n] = Take(n, f[n - 1])
  <2> HIDE DEF Take, N
  <2>1. QED
    BY <1>1, <1>4
<1>6. f \in [0..N -> Seq(E)]
  <2> DEFINE T == {n \in Nat : n \in 0..N => f[n] \in Seq(E)}
  <2> HIDE DEF Take, N
  <2>1. 0 \in T
    <3>1. f[0] \in Seq(E)
      BY <1>5
    <3>2. QED
      BY <3>1
  <2>2. ASSUME NEW n \in Nat, n \in T PROVE n + 1 \in T
    <3> SUFFICES ASSUME n + 1 \in 0..N PROVE f[n + 1] \in Seq(E)
      OBVIOUS
    <3>1. n + 1 \in 1..N /\ (n + 1) - 1 = n /\ n \in 0..N
      BY <1>1
    <3>2. f[n] \in Seq(E)
      BY <2>2, <3>1
    <3>3. QED
      BY <1>2, <1>5, <3>1, <3>2
  <2> HIDE DEF T
  <2>3. Nat \subseteq T
    BY <2>1, <2>2, Induct
  <2>4. \A n \in 0..N : f[n] \in Seq(E)
    BY <1>1, <2>3 DEF T
  <2>5. DOMAIN f = 0..N /\ f = [n \in DOMAIN f |-> f[n]]
    BY <1>4
  <2>6. QED
    BY <2>4, <2>5
<1>7. f \in Keeping(E, s, S)
  BY <1>5, <1>6 DEF Keeping
<1>8. QED
  BY <1>4, <1>7

\* r is the list of those of the first n elements of s that are in S, in order.
Sublist(r, s, n, S) ==
    /\ \A j \in DOMAIN r : \E m \in 1..n : s[m] = r[j] /\ s[m] \in S
    /\ \A m \in 1..n : s[m] \in S => \E j \in DOMAIN r : r[j] = s[m]
    /\ \A j, k \in DOMAIN r : j < k =>
          \E m, l \in 1..n : m < l /\ s[m] = r[j] /\ s[l] = r[k]

\* One more element of s is looked at.
LEMMA SublistStep ==
    ASSUME NEW E, NEW s \in Seq(E), NEW S, NEW r \in Seq(E), NEW n \in 1..Len(s),
           Sublist(r, s, n - 1, S)
    PROVE  Sublist(IF s[n] \in S THEN Append(r, s[n]) ELSE r, s, n, S)
<1>1. n - 1 \in Nat /\ 1..(n - 1) \subseteq 1..n /\ n \in 1..n /\ s[n] \in E
  OBVIOUS
<1>2. \A m \in 1..n : m = n \/ m \in 1..(n - 1)
  OBVIOUS
<1>3. CASE s[n] \notin S
  BY <1>1, <1>2, <1>3 DEF Sublist
<1>4. CASE s[n] \in S
  <2> DEFINE t == Append(r, s[n])
             L == Len(r)
  <2>1. /\ DOMAIN r = 1..L /\ L \in Nat
        /\ DOMAIN t = 1..(L + 1)
        /\ \A j \in 1..L : t[j] = r[j]
        /\ t[L + 1] = s[n]
    BY <1>1
  <2> HIDE DEF t, L
  <2>2. \A j \in DOMAIN t : j \in 1..L \/ j = L + 1
    BY <2>1
  <2>3. ASSUME NEW j \in DOMAIN t PROVE \E m \in 1..n : s[m] = t[j] /\ s[m] \in S
    BY <1>1, <1>4, <2>1, <2>2 DEF Sublist
  <2>4. ASSUME NEW m \in 1..n, s[m] \in S PROVE \E j \in DOMAIN t : t[j] = s[m]
    <3>1. CASE m = n
      BY <2>1, <3>1
    <3>2. CASE m \in 1..(n - 1)
      <4>1. PICK j \in 1..L : r[j] = s[m]
        BY <2>1, <2>4, <3>2 DEF Sublist
      <4>2. j \in DOMAIN t /\ t[j] = s[m]
        BY <2>1, <4>1
      <4>3. QED
        BY <4>2
    <3>3. QED
      BY <1>2, <3>1, <3>2
  <2>5. ASSUME NEW j \in DOMAIN t, NEW k \in DOMAIN t, j < k
        PROVE  \E m, l \in 1..n : m < l /\ s[m] = t[j] /\ s[l] = t[k]
    <3>1. j \in 1..L /\ t[j] = r[j]
      BY <2>1, <2>2, <2>5
    <3>2. CASE k \in 1..L
      <4>1. PICK m \in 1..(n - 1), l \in 1..(n - 1) : m < l /\ s[m] = r[j] /\ s[l] = r[k]
        BY <2>1, <2>5, <3>1, <3>2 DEF Sublist
      <4>2. t[k] = r[k] /\ m \in 1..n /\ l \in 1..n
        BY <1>1, <2>1, <3>2
      <4>3. QED
        BY <3>1, <4>1, <4>2
    <3>3. CASE k = L + 1
      <4>1. PICK m \in 1..(n - 1) : s[m] = r[j]
        BY <2>1, <3>1 DEF Sublist
      <4>2. m < n /\ m \in 1..n /\ t[k] = s[n]
        BY <1>1, <2>1, <3>3
      <4>3. QED
        BY <1>1, <3>1, <4>1, <4>2
    <3>4. QED
      BY <2>2, <3>2, <3>3
  <2>6. Sublist(t, s, n, S)
    BY <2>3, <2>4, <2>5 DEF Sublist
  <2>7. QED
    BY <1>4, <2>6 DEF t
<1>5. QED
  BY <1>3, <1>4

\* What Within returns.
LEMMA WithinIsSublist ==
    ASSUME NEW E, NEW s \in Seq(E), NEW S
    PROVE  Within(s, S) \in Seq(E) /\ Sublist(Within(s, S), s, Len(s), S)
<1>1. PICK f \in [0..Len(s) -> Seq(E)] :
         /\ Within(s, S) = f[Len(s)]
         /\ f[0] = <<>>
         /\ \A n \in 1..Len(s) :
               f[n] = IF s[n] \in S THEN Append(f[n - 1], s[n]) ELSE f[n - 1]
  <2>1. PICK f \in Keeping(E, s, S) : Within(s, S) = f[Len(s)]
    BY WithinSteps
  <2>2. QED
    BY <2>1 DEF Keeping
<1> DEFINE N == Len(s)
           T == {n \in Nat : n \in 0..N => Sublist(f[n], s, n, S)}
<1>2. N \in Nat
  OBVIOUS
<1>3. 0 \in T
  BY <1>1 DEF Sublist
<1>4. ASSUME NEW n \in Nat, n \in T PROVE n + 1 \in T
  <2> SUFFICES ASSUME n + 1 \in 0..N PROVE Sublist(f[n + 1], s, n + 1, S)
    OBVIOUS
  <2>1. n + 1 \in 1..N /\ (n + 1) - 1 = n /\ n \in 0..N
    BY <1>2
  <2>2. Sublist(f[n], s, n, S) /\ f[n] \in Seq(E)
    BY <1>4, <2>1
  <2>3. f[n + 1] = IF s[n + 1] \in S THEN Append(f[n], s[n + 1]) ELSE f[n]
    BY <1>1, <2>1
  <2>4. Sublist(IF s[n + 1] \in S THEN Append(f[n], s[n + 1]) ELSE f[n], s, n + 1, S)
    BY <2>1, <2>2, SublistStep
  <2>5. QED
    BY <2>3, <2>4
<1> HIDE DEF T
<1>5. N \in T
  BY <1>2, <1>3, <1>4, Induct
<1>6. QED
  BY <1>1, <1>2, <1>5 DEF T

\* Nothing is in the empty list.
LEMMA WithinEmpty ==
    ASSUME NEW S
    PROVE  Within(<<>>, S) = <<>>
<1>1. <<>> \in Seq({}) /\ Len(<<>>) = 0
  OBVIOUS
<1>2. PICK f \in [0..Len(<<>>) -> Seq({})] : Within(<<>>, S) = f[Len(<<>>)] /\ f[0] = <<>>
  <2>1. PICK f \in Keeping({}, <<>>, S) : Within(<<>>, S) = f[Len(<<>>)]
    BY <1>1, WithinSteps
  <2>2. QED
    BY <2>1 DEF Keeping
<1>3. QED
  BY <1>1, <1>2

\* One more element at the end.
LEMMA WithinAppend ==
    ASSUME NEW E, NEW s \in Seq(E), NEW x \in E, NEW S, NEW t, t = Append(s, x)
    PROVE  Within(t, S) = IF x \in S THEN Append(Within(s, S), x) ELSE Within(s, S)
<1> DEFINE N == Len(s)
<1>1. /\ t \in Seq(E) /\ N \in Nat /\ Len(t) = N + 1 /\ t[N + 1] = x
      /\ \A n \in 1..N : t[n] = s[n]
  OBVIOUS
<1>2. PICK f \in [0..N -> Seq(E)] :
         /\ Within(s, S) = f[N]
         /\ f[0] = <<>>
         /\ \A n \in 1..N : f[n] = IF s[n] \in S THEN Append(f[n - 1], s[n]) ELSE f[n - 1]
  <2>1. PICK f \in Keeping(E, s, S) : Within(s, S) = f[Len(s)]
    BY WithinSteps
  <2>2. QED
    BY <2>1 DEF Keeping
<1>3. PICK g \in [0..(N + 1) -> Seq(E)] :
         /\ Within(t, S) = g[N + 1]
         /\ g[0] = <<>>
         /\ \A n \in 1..(N + 1) :
               g[n] = IF t[n] \in S THEN Append(g[n - 1], t[n]) ELSE g[n - 1]
  <2>1. PICK g \in Keeping(E, t, S) : Within(t, S) = g[Len(t)]
    BY <1>1, WithinSteps
  <2>2. QED
    BY <1>1, <2>1 DEF Keeping
<1> HIDE DEF N
<1>4. f[N] = g[N]
  <2> DEFINE T == {n \in Nat : n \in 0..N => f[n] = g[n]}
  <2>1. 0 \in T
    BY <1>2, <1>3
  <2>2. ASSUME NEW n \in Nat, n \in T PROVE n + 1 \in T
    <3> SUFFICES ASSUME n + 1 \in 0..N PROVE f[n + 1] = g[n + 1]
      OBVIOUS
    <3>1. n + 1 \in 1..N /\ n + 1 \in 1..(N + 1) /\ (n + 1) - 1 = n /\ n \in 0..N
      BY <1>1
    <3>2. f[n] = g[n] /\ t[n + 1] = s[n + 1]
      BY <1>1, <2>2, <3>1
    <3>3. f[n + 1] = IF s[n + 1] \in S THEN Append(f[n], s[n + 1]) ELSE f[n]
      BY <1>2, <3>1
    <3>4. g[n + 1] = IF t[n + 1] \in S THEN Append(g[n], t[n + 1]) ELSE g[n]
      BY <1>3, <3>1
    <3>5. QED
      BY <3>2, <3>3, <3>4
  <2> HIDE DEF T
  <2>3. N \in T
    BY <1>1, <2>1, <2>2, Induct
  <2>4. QED
    BY <1>1, <2>3 DEF T
<1>5. g[N + 1] = IF x \in S THEN Append(g[N], x) ELSE g[N]
  <2>1. N + 1 \in 1..(N + 1) /\ (N + 1) - 1 = N
    BY <1>1
  <2>2. QED
    BY <1>1, <1>3, <2>1
<1>6. QED
  BY <1>2, <1>3, <1>4, <1>5

\* A list has finitely many elements.
LEMMA ElementsFinite ==
    ASSUME NEW E, NEW s \in Seq(E)
    PROVE  IsFiniteSet({s[k] : k \in DOMAIN s})
<1> DEFINE T == {s[k] : k \in DOMAIN s}
<1>1. DOMAIN s = 1..Len(s) /\ Len(s) \in Nat
  OBVIOUS
<1>2. IsFiniteSet(1..Len(s))
  BY <1>1, FS_Interval
<1>3. s \in Surjection(1..Len(s), T)
  <2>1. s \in [1..Len(s) -> T]
    BY <1>1
  <2>2. \A t \in T : \E k \in 1..Len(s) : s[k] = t
    BY <1>1
  <2>3. QED
    BY <2>1, <2>2 DEF Surjection
<1>4. QED
  BY <1>2, <1>3, FS_Surjection

\* A finite set holds no more different elements than its cardinality.
LEMMA AtLeast ==
    ASSUME NEW T, IsFiniteSet(T), NEW n \in Nat, NEW w,
           \A a \in 1..n : w[a] \in T,
           \A a, b \in 1..n : a < b => w[a] # w[b]
    PROVE  Cardinality(T) >= n
<1> DEFINE f == [a \in 1..n |-> w[a]]
<1>1. f \in [1..n -> T] /\ DOMAIN f = 1..n
  OBVIOUS
<1>2. ASSUME NEW a \in 1..n, NEW b \in 1..n, f[a] = f[b] PROVE a = b
  <2>1. ~(a < b) /\ ~(b < a)
    BY <1>2
  <2>2. QED
    BY <2>1
<1> HIDE DEF f
<1>3. f \in Injection(1..n, T)
  BY <1>1, <1>2 DEF Injection, IsInjective
<1>4. Cardinality(1..n) = n /\ Cardinality(T) \in Nat
  BY FS_Interval, FS_CardinalityType
<1>5. Cardinality(1..n) <= Cardinality(T)
  BY <1>3, FS_Injection
<1>6. QED
  BY <1>4, <1>5

\* Putting an element after two lists is putting it after the second.
AppendsLast(a, b, x) == Append(a \o b, x) = a \o Append(b, x)

LEMMA AppendConcat ==
    ASSUME NEW E, NEW a \in Seq(E), NEW b \in Seq(E), NEW x \in E
    PROVE  AppendsLast(a, b, x)
<1>1. Append(a \o b, x) \in Seq(E) /\ a \o Append(b, x) \in Seq(E)
  OBVIOUS
<1>2. Len(Append(a \o b, x)) = Len(a \o Append(b, x))
  OBVIOUS
<1>3. \A i \in 1..Len(Append(a \o b, x)) : Append(a \o b, x)[i] = (a \o Append(b, x))[i]
  OBVIOUS
<1>4. QED
  BY <1>1, <1>2, <1>3 DEF AppendsLast

\* What Within keeps of two lists put together.
LEMMA WithinConcat ==
    ASSUME NEW E, NEW s \in Seq(E), NEW t \in Seq(E), NEW S
    PROVE  Within(s \o t, S) = Within(s, S) \o Within(t, S)
<1> DEFINE T == {n \in Nat : \A u \in Seq(E) : Len(u) = n =>
                    Within(s \o u, S) = Within(s, S) \o Within(u, S)}
<1>1. Within(s, S) \in Seq(E)
  BY WithinIsSublist
<1>2. 0 \in T
  <2>1. ASSUME NEW u \in Seq(E), Len(u) = 0
        PROVE  Within(s \o u, S) = Within(s, S) \o Within(u, S)
    <3>1. u = <<>> /\ s \o u = s
      BY <2>1
    <3>2. QED
      BY <1>1, <3>1, WithinEmpty
  <2>2. QED
    BY <2>1
<1>3. ASSUME NEW n \in Nat, n \in T PROVE n + 1 \in T
  <2>1. ASSUME NEW u \in Seq(E), Len(u) = n + 1
        PROVE  Within(s \o u, S) = Within(s, S) \o Within(u, S)
    <3> DEFINE v == SubSeq(u, 1, n)
               x == u[n + 1]
    <3>1. v \in Seq(E) /\ Len(v) = n /\ x \in E
      BY <2>1
    <3>2. u = Append(v, x)
      BY <2>1
    <3>3. s \o v \in Seq(E) /\ s \o u = Append(s \o v, x)
      BY <3>1, <3>2
    <3> HIDE DEF v, x
    <3>4. Within(s \o v, S) = Within(s, S) \o Within(v, S)
      BY <1>3, <3>1
    <3>5. Within(u, S) = IF x \in S THEN Append(Within(v, S), x) ELSE Within(v, S)
      BY <3>1, <3>2, WithinAppend
    <3>6. Within(s \o u, S) = IF x \in S THEN Append(Within(s \o v, S), x)
                              ELSE Within(s \o v, S)
      <4>1. PICK w \in Seq(E) : w = s \o v
        BY <3>3
      <4>2. PICK r : r = Append(w, x)
        OBVIOUS
      <4>3. r = s \o u
        BY <3>3, <4>1, <4>2
      <4>4. Within(r, S) = IF x \in S THEN Append(Within(w, S), x) ELSE Within(w, S)
        BY <3>1, <4>2, WithinAppend
      <4>5. QED
        BY <4>1, <4>3, <4>4
    <3>7. Within(v, S) \in Seq(E)
      BY <3>1, WithinIsSublist
    <3>8. Append(Within(s, S) \o Within(v, S), x) = Within(s, S) \o Append(Within(v, S), x)
      <4>1. AppendsLast(Within(s, S), Within(v, S), x)
        BY <1>1, <3>1, <3>7, AppendConcat
      <4>2. QED
        BY <4>1 DEF AppendsLast
    <3>9. QED
      BY <3>4, <3>5, <3>6, <3>8
  <2>2. QED
    BY <2>1
<1> HIDE DEF T
<1>4. Nat \subseteq T
  BY <1>2, <1>3, Induct
<1>5. Len(t) \in T
  BY <1>4
<1>6. QED
  BY <1>5 DEF T

\* The same of a list that is two put together.
Parts(u, s, t, S) == Within(u, S) = Within(s, S) \o Within(t, S)

LEMMA WithinParts ==
    ASSUME NEW E, NEW s \in Seq(E), NEW t \in Seq(E), NEW S
    PROVE  Parts(s \o t, s, t, S)
  BY WithinConcat DEF Parts

\* Within keeps nothing exactly when nothing is in the set.
LEMMA WithinNone ==
    ASSUME NEW E, NEW s \in Seq(E), NEW S
    PROVE  Within(s, S) = <<>> <=> \A k \in 1..Len(s) : s[k] \notin S
<1> DEFINE w == Within(s, S)
<1>1. w \in Seq(E) /\ Sublist(w, s, Len(s), S)
  BY WithinIsSublist
<1> HIDE DEF w
<1>2. ASSUME w = <<>>, NEW k \in 1..Len(s), s[k] \in S PROVE FALSE
  <2>1. DOMAIN w = {}
    BY <1>2
  <2>2. QED
    BY <1>1, <1>2, <2>1 DEF Sublist
<1>3. ASSUME w # <<>> PROVE \E k \in 1..Len(s) : s[k] \in S
  <2>1. 1 \in DOMAIN w
    BY <1>1, <1>3
  <2>2. QED
    BY <1>1, <2>1 DEF Sublist
<1>4. QED
  BY <1>2, <1>3 DEF w

\* Two ends that are left out do not show.
Alike(r, s, S) == Within(r, S) = Within(s, S)

LEMMA WithinEnds ==
    ASSUME NEW E, NEW f \in Seq(E), NEW m \in Seq(E), NEW e \in Seq(E), NEW S,
           Within(f, S) = <<>>, Within(e, S) = <<>>
    PROVE  Alike((f \o m) \o e, m, S)
<1>1. Within(m, S) \in Seq(E)
  BY WithinIsSublist
<1>2. PICK h : h = f \o m /\ h \in Seq(E)
  <2>1. f \o m \in Seq(E)
    OBVIOUS
  <2>2. QED
    BY <2>1
<1>3. Within(h, S) = Within(f, S) \o Within(m, S)
  <2>1. Parts(f \o m, f, m, S)
    BY WithinParts
  <2>2. QED
    BY <1>2, <2>1 DEF Parts
<1>4. PICK r : r = h \o e
  OBVIOUS
<1>5. Within(r, S) = Within(h, S) \o Within(e, S)
  <2>1. Parts(h \o e, h, e, S)
    BY <1>2, WithinParts
  <2>2. QED
    BY <1>4, <2>1 DEF Parts
<1>6. Within(r, S) = Within(m, S)
  BY <1>1, <1>3, <1>5
<1>7. QED
  BY <1>2, <1>4, <1>6 DEF Alike

\* What is left out at both ends does not show.
LEMMA WithinMiddle ==
    ASSUME NEW E, NEW s \in Seq(E), NEW S, NEW a \in 1..Len(s), NEW b \in a..Len(s),
           \A i \in 1..Len(s) : i < a \/ i > b => s[i] \notin S
    PROVE  Alike(SubSeq(s, a, b), s, S)
<1>1. PICK f, m, e : f = SubSeq(s, 1, a - 1) /\ m = SubSeq(s, a, b) /\ e = SubSeq(s, b + 1, Len(s))
  OBVIOUS
<1>2. /\ f \in Seq(E) /\ m \in Seq(E) /\ e \in Seq(E)
      /\ \A i \in 1..Len(f) : i \in 1..(a - 1) /\ f[i] = s[i]
      /\ \A i \in 1..Len(e) : b + i \in (b + 1)..Len(s) /\ e[i] = s[b + i]
      /\ s = (f \o m) \o e
  <2>1. Len(s) \in Nat /\ a \in Nat /\ b \in Nat /\ a <= b /\ b <= Len(s) /\ 1 <= a
    OBVIOUS
  <2>2. \A i \in 1..Len(s) : s[i] \in E
    OBVIOUS
  <2>3. /\ f \in Seq(E) /\ Len(f) = a - 1
        /\ \A i \in 1..(a - 1) : f[i] = s[i]
    BY <1>1
  <2>4. m \in Seq(E)
    BY <1>1, <2>1, <2>2, SubSeqProperties
  <2>5. /\ e \in Seq(E) /\ Len(e) = Len(s) - b
        /\ \A i \in 1..(Len(s) - b) : e[i] = s[b + i]
    BY <1>1
  <2>6. f \o m = SubSeq(s, 1, b)
    BY <1>1, <2>1, ConcatAdjacentSubSeq
  <2>7. SubSeq(s, 1, b) \o e = s
    <3>1. 1 \in 1..Len(s) + 1 /\ b \in (1 - 1)..Len(s) /\ Len(s) \in b..Len(s)
      BY <2>1
    <3>2. SubSeq(s, 1, b) \o SubSeq(s, b + 1, Len(s)) = SubSeq(s, 1, Len(s))
      BY <3>1, ConcatAdjacentSubSeq
    <3>3. SubSeq(s, 1, Len(s)) = s
      BY SubSeqFull
    <3>4. QED
      BY <1>1, <3>2, <3>3
  <2>8. s = (f \o m) \o e
    BY <2>6, <2>7
  <2>9. \A i \in 1..Len(f) : i \in 1..(a - 1) /\ f[i] = s[i]
    BY <2>3
  <2>10. \A i \in 1..Len(e) : b + i \in (b + 1)..Len(s) /\ e[i] = s[b + i]
    BY <2>1, <2>5
  <2>11. QED
    BY <2>3, <2>4, <2>5, <2>8, <2>9, <2>10
<1>3. /\ \A i \in 1..(a - 1) : s[i] \notin S
      /\ \A i \in (b + 1)..Len(s) : s[i] \notin S
  OBVIOUS
<1>4. Within(f, S) = <<>>
  BY <1>2, <1>3, WithinNone
<1>5. Within(e, S) = <<>>
  <2>1. \A i \in 1..Len(e) : e[i] \notin S
    BY <1>2, <1>3
  <2>2. QED
    BY <1>2, <2>1, WithinNone
<1>6. Alike((f \o m) \o e, m, S)
  BY <1>2, <1>4, <1>5, WithinEnds
<1>7. QED
  BY <1>1, <1>2, <1>6 DEF Alike

\* What FlattenSeq has joined after n lists, for every n.
Joining(E, ss) ==
    {f \in [0..Len(ss) -> Seq(E)] :
        f[0] = <<>> /\ \A n \in 1..Len(ss) : f[n] = f[n - 1] \o ss[n]}

\* The recursive function of FlattenSeq exists.
LEMMA FlattenSteps ==
    ASSUME NEW E, NEW ss \in Seq(Seq(E))
    PROVE  \E f \in Joining(E, ss) : FlattenSeq(ss) = f[Len(ss)]
<1> DEFINE N == Len(ss)
           Joined(f) == [i \in 1..N |-> IF i = 1 THEN ss[i] ELSE f[i - 1] \o ss[i]]
<1>1. N \in Nat /\ \A n \in 1..N : ss[n] \in Seq(E)
  OBVIOUS
<1>2. \E f : f \in Joining(E, ss)
  <2> HIDE DEF N
  <2>1. PICK step \in [Nat -> [Seq(E) -> Seq(E)]] :
           \A n \in 1..N, r \in Seq(E) : step[n][r] = r \o ss[n]
    <3> DEFINE st == [n \in Nat |-> [r \in Seq(E) |-> IF n \in 1..N THEN r \o ss[n] ELSE r]]
    <3>1. st \in [Nat -> [Seq(E) -> Seq(E)]]
      BY <1>1
    <3>2. \A n \in 1..N, r \in Seq(E) : st[n][r] = r \o ss[n]
      BY <1>1
    <3> HIDE DEF st
    <3>3. QED
      BY <3>1, <3>2
  <2>2. <<>> \in Seq(E)
    OBVIOUS
  <2>3. Recursive(Seq(E), <<>>, step, N) # {}
    BY <1>1, <2>2, Recursion
  <2>4. PICK g \in [0..N -> Seq(E)] :
           g[0] = <<>> /\ \A n \in 1..N : g[n] = step[n][g[n - 1]]
    BY <2>3 DEF Recursive
  <2>5. \A n \in 1..N : n - 1 \in 0..N /\ g[n - 1] \in Seq(E)
    BY <1>1
  <2>6. \A n \in 1..N : g[n] = g[n - 1] \o ss[n]
    BY <2>1, <2>4, <2>5
  <2>7. g \in Joining(E, ss)
    BY <2>4, <2>6 DEF Joining, N
  <2>8. QED
    BY <2>7
<1>3. PICK g : g \in Joining(E, ss)
  BY <1>2
<1>4. g \in [0..N -> Seq(E)] /\ g[0] = <<>> /\ \A n \in 1..N : g[n] = g[n - 1] \o ss[n]
  BY <1>3 DEF Joining
<1>5. CASE N = 0
  <2>1. ss = <<>>
    BY <1>5
  <2>2. FlattenSeq(ss) = <<>>
    BY <1>5, <2>1 DEF FlattenSeq
  <2>3. g[N] = <<>>
    BY <1>4, <1>5
  <2>4. QED
    BY <1>3, <2>2, <2>3
<1>6. CASE N # 0
  <2> DEFINE flatten == CHOOSE f : f = Joined(f)
             h == [i \in 1..N |-> g[i]]
  <2>1. FlattenSeq(ss) = flatten[N]
    BY <1>6 DEF FlattenSeq
  <2>2. g[1] = ss[1]
    <3>1. 1 \in 1..N /\ 1 - 1 = 0
      BY <1>1, <1>6
    <3>2. <<>> \o ss[1] = ss[1]
      BY <1>1, <3>1
    <3>3. QED
      BY <1>4, <3>1, <3>2
  <2> HIDE DEF N
  <2>3. h = Joined(h)
    <3>1. ASSUME NEW i \in 1..N PROVE h[i] = IF i = 1 THEN ss[i] ELSE h[i - 1] \o ss[i]
      <4>1. CASE i = 1
        BY <2>2, <4>1
      <4>2. CASE i # 1
        <5>1. i - 1 \in 1..N
          BY <1>1, <4>2
        <5>2. h[i - 1] = g[i - 1] /\ h[i] = g[i]
          BY <5>1
        <5>3. QED
          BY <1>4, <4>2, <5>2
      <4>3. QED
        BY <4>1, <4>2
    <3> HIDE DEF h
    <3>2. DOMAIN h = 1..N /\ h = [i \in DOMAIN h |-> h[i]]
      BY DEF h
    <3>3. QED
      BY <3>1, <3>2
  <2>4. flatten = Joined(flatten)
    <3> HIDE DEF Joined, h
    <3>1. QED
      BY <2>3
  <2> HIDE DEF flatten
  <2>5. \A i \in 1..N : flatten[i] = IF i = 1 THEN ss[i] ELSE flatten[i - 1] \o ss[i]
    BY <2>4
  <2>6. flatten[N] = g[N]
    <3> DEFINE T == {n \in Nat : n + 1 \in 1..N => flatten[n + 1] = g[n + 1]}
    <3>1. 0 \in T
      BY <2>2, <2>5
    <3>2. ASSUME NEW n \in Nat, n \in T PROVE n + 1 \in T
      <4> SUFFICES ASSUME (n + 1) + 1 \in 1..N
                   PROVE  flatten[(n + 1) + 1] = g[(n + 1) + 1]
        OBVIOUS
      <4>1. n + 1 \in 1..N /\ ((n + 1) + 1) - 1 = n + 1 /\ (n + 1) + 1 # 1
        BY <1>1
      <4>2. flatten[n + 1] = g[n + 1]
        BY <3>2, <4>1
      <4>3. flatten[(n + 1) + 1] = flatten[n + 1] \o ss[(n + 1) + 1]
        BY <2>5, <4>1
      <4>4. g[(n + 1) + 1] = g[n + 1] \o ss[(n + 1) + 1]
        BY <1>4, <4>1
      <4>5. QED
        BY <4>2, <4>3, <4>4
    <3> HIDE DEF T
    <3>3. N - 1 \in T
      <4>1. N - 1 \in Nat
        BY <1>1, <1>6
      <4>2. QED
        BY <3>1, <3>2, <4>1, Induct
    <3>4. (N - 1) + 1 = N /\ N \in 1..N
      BY <1>1, <1>6
    <3>5. QED
      BY <3>3, <3>4 DEF T
  <2>7. QED
    BY <1>3, <2>1, <2>6 DEF N
<1>7. QED
  BY <1>5, <1>6

\* No list, no text.
LEMMA FlattenEmpty ==
    FlattenSeq(<<>>) = <<>>
BY DEF FlattenSeq

\* One more list at the end.
LEMMA FlattenAppend ==
    ASSUME NEW E, NEW ss \in Seq(Seq(E)), NEW t \in Seq(E)
    PROVE  /\ FlattenSeq(ss) \in Seq(E)
           /\ FlattenSeq(Append(ss, t)) = FlattenSeq(ss) \o t
<1> DEFINE tt == Append(ss, t)
           N == Len(ss)
<1>1. /\ tt \in Seq(Seq(E)) /\ N \in Nat /\ Len(tt) = N + 1 /\ tt[N + 1] = t
      /\ \A n \in 1..N : tt[n] = ss[n]
  OBVIOUS
<1>2. PICK f \in Joining(E, ss) : FlattenSeq(ss) = f[N]
  BY FlattenSteps
<1>3. f \in [0..N -> Seq(E)] /\ f[0] = <<>> /\ \A n \in 1..N : f[n] = f[n - 1] \o ss[n]
  BY <1>2 DEF Joining
<1> HIDE DEF tt
<1>4. PICK g \in Joining(E, tt) : FlattenSeq(tt) = g[N + 1]
  BY <1>1, FlattenSteps
<1>5. /\ g[0] = <<>>
      /\ \A n \in 1..(N + 1) : g[n] = g[n - 1] \o tt[n]
  BY <1>1, <1>4 DEF Joining
<1> HIDE DEF N
<1>6. f[N] = g[N]
  <2> DEFINE T == {n \in Nat : n \in 0..N => f[n] = g[n]}
  <2>1. 0 \in T
    BY <1>3, <1>5
  <2>2. ASSUME NEW n \in Nat, n \in T PROVE n + 1 \in T
    <3> SUFFICES ASSUME n + 1 \in 0..N PROVE f[n + 1] = g[n + 1]
      OBVIOUS
    <3>1. n + 1 \in 1..N /\ n + 1 \in 1..(N + 1) /\ (n + 1) - 1 = n /\ n \in 0..N
      BY <1>1
    <3>2. f[n] = g[n] /\ tt[n + 1] = ss[n + 1]
      BY <1>1, <2>2, <3>1
    <3>3. f[n + 1] = f[n] \o ss[n + 1]
      BY <1>3, <3>1
    <3>4. g[n + 1] = g[n] \o tt[n + 1]
      BY <1>5, <3>1
    <3>5. QED
      BY <3>2, <3>3, <3>4
  <2> HIDE DEF T
  <2>3. N \in T
    BY <1>1, <2>1, <2>2, Induct
  <2>4. QED
    BY <1>1, <2>3 DEF T
<1>7. g[N + 1] = g[N] \o t
  <2>1. N + 1 \in 1..(N + 1) /\ (N + 1) - 1 = N
    BY <1>1
  <2>2. QED
    BY <1>1, <1>5, <2>1
<1>8. f[N] \in Seq(E)
  BY <1>1, <1>3
<1>9. QED
  BY <1>2, <1>4, <1>6, <1>7, <1>8 DEF tt

\* The elements of a sequence put together from two.
LEMMA ElementsOfConcat ==
    ASSUME NEW S, NEW s \in Seq(S), NEW t \in Seq(S)
    PROVE  /\ s \o t \in Seq(S)
           /\ ToSet(s \o t) = ToSet(s) \cup ToSet(t)
<1>1. /\ s \o t \in Seq(S)
      /\ DOMAIN (s \o t) = 1..(Len(s) + Len(t))
      /\ \A i \in 1..(Len(s) + Len(t)) :
            (s \o t)[i] = IF i <= Len(s) THEN s[i] ELSE t[i - Len(s)]
  OBVIOUS
<1>2. \A i \in DOMAIN (s \o t) : (s \o t)[i] \in ToSet(s) \cup ToSet(t)
  BY <1>1 DEF ToSet
<1>3. \A i \in DOMAIN s : s[i] \in ToSet(s \o t)
  BY <1>1 DEF ToSet
<1>4. \A i \in DOMAIN t : t[i] \in ToSet(s \o t)
  <2>1. SUFFICES ASSUME NEW i \in DOMAIN t
                 PROVE  t[i] \in ToSet(s \o t)
    OBVIOUS
  <2>2. /\ Len(s) + i \in DOMAIN (s \o t)
        /\ (s \o t)[Len(s) + i] = t[i]
    BY <1>1
  <2> QED
    BY <2>2 DEF ToSet
<1> QED
  BY <1>1, <1>2, <1>3, <1>4 DEF ToSet

\* The elements of a sequence that is not empty.
LEMMA ElementsOfHeadTail ==
    ASSUME NEW S, NEW s \in Seq(S), s # <<>>
    PROVE  /\ Head(s) \in S /\ Tail(s) \in Seq(S)
           /\ ToSet(s) = {Head(s)} \cup ToSet(Tail(s))
<1>1. /\ Head(s) \in S /\ Tail(s) \in Seq(S)
      /\ DOMAIN s = 1..Len(s) /\ Len(s) \in Nat \ {0}
      /\ DOMAIN Tail(s) = 1..(Len(s) - 1)
      /\ \A i \in 1..(Len(s) - 1) : Tail(s)[i] = s[i + 1]
      /\ Head(s) = s[1]
  OBVIOUS
<1>2. \A i \in DOMAIN s : s[i] \in {Head(s)} \cup ToSet(Tail(s))
  <2>1. SUFFICES ASSUME NEW i \in DOMAIN s, i # 1
                 PROVE  s[i] \in ToSet(Tail(s))
    BY <1>1
  <2>2. i - 1 \in DOMAIN Tail(s) /\ Tail(s)[i - 1] = s[i]
    BY <1>1, <2>1
  <2> QED
    BY <2>2 DEF ToSet
<1>3. /\ Head(s) \in ToSet(s)
      /\ \A i \in DOMAIN Tail(s) : Tail(s)[i] \in ToSet(s)
  BY <1>1 DEF ToSet
<1> QED
  BY <1>1, <1>2, <1>3 DEF ToSet

\* The elements of a sequence with one more at its end.
LEMMA ElementsOfAppend ==
    ASSUME NEW S, NEW s \in Seq(S), NEW x \in S
    PROVE  /\ Append(s, x) \in Seq(S)
           /\ ToSet(Append(s, x)) = ToSet(s) \cup {x}
           /\ IsInjective(s) /\ x \notin ToSet(s) => IsInjective(Append(s, x))
<1>1. /\ Append(s, x) \in Seq(S)
      /\ DOMAIN s = 1..Len(s) /\ Len(s) \in Nat
      /\ DOMAIN Append(s, x) = 1..(Len(s) + 1)
      /\ \A i \in 1..Len(s) : Append(s, x)[i] = s[i]
      /\ Append(s, x)[Len(s) + 1] = x
  OBVIOUS
<1>2. \A i \in DOMAIN Append(s, x) : Append(s, x)[i] \in ToSet(s) \cup {x}
  BY <1>1 DEF ToSet
<1>3. x \in ToSet(Append(s, x)) /\ \A i \in DOMAIN s : s[i] \in ToSet(Append(s, x))
  BY <1>1 DEF ToSet
<1>4. ASSUME IsInjective(s), x \notin ToSet(s),
             NEW i \in DOMAIN Append(s, x), NEW j \in DOMAIN Append(s, x),
             Append(s, x)[i] = Append(s, x)[j]
      PROVE  i = j
  <2>1. CASE i \in DOMAIN s /\ j \in DOMAIN s
    BY <1>1, <1>4, <2>1 DEF IsInjective
  <2>2. CASE i = Len(s) + 1 /\ j \in DOMAIN s
    BY <1>1, <1>4, <2>2 DEF ToSet
  <2>3. CASE j = Len(s) + 1 /\ i \in DOMAIN s
    BY <1>1, <1>4, <2>3 DEF ToSet
  <2> QED
    BY <1>1, <2>1, <2>2, <2>3
<1>5. IsInjective(s) /\ x \notin ToSet(s) => IsInjective(Append(s, x))
  BY <1>4 DEF IsInjective
<1> QED
  BY <1>1, <1>2, <1>3, <1>5 DEF ToSet

\* The elements that Within keeps.
LEMMA ElementsOfWithin ==
    ASSUME NEW E, NEW s \in Seq(E), NEW S
    PROVE  /\ Within(s, S) \in Seq(E)
           /\ ToSet(Within(s, S)) = ToSet(s) \cap S
           /\ IsInjective(s) => IsInjective(Within(s, S))
<1>1. PICK r \in Seq(E) : r = Within(s, S) /\ Sublist(r, s, Len(s), S)
  BY WithinIsSublist
<1>2. DOMAIN s = 1..Len(s) /\ DOMAIN r = 1..Len(r) /\ Len(r) \in Nat
  BY <1>1
<1>3. ToSet(r) = ToSet(s) \cap S
  <2>1. ASSUME NEW j \in DOMAIN r PROVE r[j] \in ToSet(s) \cap S
    BY <1>1, <1>2 DEF Sublist, ToSet
  <2>2. ASSUME NEW m \in DOMAIN s, s[m] \in S PROVE s[m] \in ToSet(r)
    BY <1>1, <1>2, <2>2 DEF Sublist, ToSet
  <2>3. QED
    BY <2>1, <2>2 DEF ToSet
<1>4. ASSUME IsInjective(s), NEW j \in DOMAIN r, NEW k \in DOMAIN r, j < k
      PROVE  r[j] # r[k]
  <2>1. PICK m \in 1..Len(s), l \in 1..Len(s) : m < l /\ s[m] = r[j] /\ s[l] = r[k]
    BY <1>1, <1>4 DEF Sublist
  <2>2. QED
    BY <1>2, <1>4, <2>1 DEF IsInjective
<1>5. ASSUME IsInjective(s) PROVE IsInjective(r)
  <2>1. SUFFICES ASSUME NEW j \in DOMAIN r, NEW k \in DOMAIN r, j # k
                 PROVE  r[j] # r[k]
    BY DEF IsInjective
  <2>2. j < k \/ k < j
    BY <1>2, <2>1
  <2>3. QED
    BY <1>4, <1>5, <2>2
<1>6. QED
  BY <1>1, <1>3, <1>5

\* The positions that Positions takes: those in the set, from the first to the last.
LEMMA PositionsTaken ==
    ASSUME NEW E, NEW s \in Seq(E), NEW P
    PROVE  /\ Positions(s, P) \in Seq(1..Len(s))
           /\ ToSet(Positions(s, P)) = (1..Len(s)) \cap P
           /\ \A j, k \in DOMAIN Positions(s, P) :
                 j < k => Positions(s, P)[j] < Positions(s, P)[k]
<1> DEFINE c == [n \in 1..Len(s) |-> n]
<1>1. /\ c \in Seq(1..Len(s)) /\ Len(c) = Len(s) /\ DOMAIN c = 1..Len(s)
      /\ \A n \in 1..Len(s) : c[n] = n
  OBVIOUS
<1> HIDE DEF c
<1>2. PICK r \in Seq(1..Len(s)) : r = Within(c, P) /\ Sublist(r, c, Len(s), P)
  BY <1>1, WithinIsSublist
<1>3. ToSet(c) = 1..Len(s)
  BY <1>1 DEF ToSet
<1>4. ToSet(r) = (1..Len(s)) \cap P
  BY <1>1, <1>2, <1>3, ElementsOfWithin
<1>5. \A j, k \in DOMAIN r : j < k => r[j] < r[k]
  BY <1>1, <1>2 DEF Sublist
<1>6. Positions(s, P) = r
  BY <1>2 DEF Positions, c
<1>7. QED
  BY <1>2, <1>4, <1>5, <1>6

\* What At returns, element by element.
LEMMA AtPositions ==
    ASSUME NEW E, NEW s \in Seq(E), NEW P
    PROVE  \E ps \in Seq(1..Len(s)) :
              /\ ToSet(ps) = (1..Len(s)) \cap P
              /\ \A j, k \in DOMAIN ps : j < k => ps[j] < ps[k]
              /\ At(s, P) = [k \in 1..Len(ps) |-> s[ps[k]]]
              /\ At(s, P) \in Seq(E)
<1>1. PICK ps \in Seq(1..Len(s)) : ps = Positions(s, P)
  BY PositionsTaken
<1>2. /\ ToSet(ps) = (1..Len(s)) \cap P
      /\ \A j, k \in DOMAIN ps : j < k => ps[j] < ps[k]
  BY <1>1, PositionsTaken
<1>3. At(s, P) = [k \in 1..Len(ps) |-> s[ps[k]]]
  BY <1>1 DEF At
<1>4. \A k \in 1..Len(ps) : s[ps[k]] \in E
  OBVIOUS
<1>5. [k \in 1..Len(ps) |-> s[ps[k]]] \in Seq(E)
  BY <1>4
<1>6. QED
  BY <1>2, <1>3, <1>5

\* The positions at which an element stands for the first time.
Firsts(s) == {n \in 1..Len(s) : \A m \in 1..(n - 1) : s[m] # s[n]}

\* Every element stands somewhere for the first time.
LEMMA FirstStands ==
    ASSUME NEW E, NEW s \in Seq(E), NEW n \in 1..Len(s)
    PROVE  \E m \in Firsts(s) : m <= n /\ s[m] = s[n]
<1> DEFINE T == {m \in 1..n : s[m] = s[n]}
<1>1. n \in T /\ T \subseteq Nat
  OBVIOUS
<1>2. PICK m \in T : \A l \in T : ~(l < m)
  BY <1>1, Least
<1>3. \A l \in 1..(m - 1) : l \in 1..n /\ l < m
  BY <1>2
<1>4. \A l \in 1..(m - 1) : s[l] # s[m]
  BY <1>2, <1>3
<1>5. m \in Firsts(s)
  BY <1>2, <1>4 DEF Firsts
<1>6. QED
  BY <1>2, <1>5

\* Distinct lists every element once.
LEMMA DistinctElements ==
    ASSUME NEW E, NEW s \in Seq(E)
    PROVE  /\ Distinct(s) \in Seq(E)
           /\ ToSet(Distinct(s)) = ToSet(s)
           /\ IsInjective(Distinct(s))
<1>1. PICK ps \in Seq(1..Len(s)) :
              /\ ToSet(ps) = (1..Len(s)) \cap Firsts(s)
              /\ \A j, k \in DOMAIN ps : j < k => ps[j] < ps[k]
              /\ At(s, Firsts(s)) = [k \in 1..Len(ps) |-> s[ps[k]]]
              /\ At(s, Firsts(s)) \in Seq(E)
  BY AtPositions
<1>2. PICK d \in Seq(E) : /\ d = Distinct(s) /\ DOMAIN d = 1..Len(ps)
                          /\ \A k \in 1..Len(ps) : d[k] = s[ps[k]]
  BY <1>1 DEF Distinct, Firsts
<1>3. DOMAIN ps = 1..Len(ps) /\ DOMAIN s = 1..Len(s)
  OBVIOUS
<1>4. \A k \in 1..Len(ps) : ps[k] \in Firsts(s) /\ ps[k] \in 1..Len(s)
  BY <1>1, <1>3 DEF ToSet
<1>5. ToSet(d) \subseteq ToSet(s)
  BY <1>2, <1>3, <1>4 DEF ToSet
<1>6. ToSet(s) \subseteq ToSet(d)
  <2>1. SUFFICES ASSUME NEW n \in 1..Len(s) PROVE s[n] \in ToSet(d)
    BY <1>3 DEF ToSet
  <2>2. PICK m \in Firsts(s) : s[m] = s[n]
    BY FirstStands
  <2>3. PICK k \in 1..Len(ps) : ps[k] = m
    BY <1>1, <1>3 DEF ToSet, Firsts
  <2>4. QED
    BY <1>2, <2>2, <2>3 DEF ToSet
<1>7. ASSUME NEW j \in 1..Len(ps), NEW k \in 1..Len(ps), j < k
      PROVE  d[j] # d[k]
  <2>1. ps[j] < ps[k] /\ ps[j] \in 1..Len(s) /\ ps[k] \in Firsts(s)
    BY <1>1, <1>3, <1>4, <1>7
  <2>2. ps[j] \in 1..(ps[k] - 1)
    BY <1>4, <2>1
  <2>3. QED
    BY <1>2, <2>1, <2>2 DEF Firsts
<1>8. IsInjective(d)
  <2>1. SUFFICES ASSUME NEW j \in 1..Len(ps), NEW k \in 1..Len(ps), j # k
                 PROVE  d[j] # d[k]
    BY <1>2 DEF IsInjective
  <2>2. j < k \/ k < j
    BY <2>1
  <2>3. QED
    BY <1>7, <2>2
<1>9. QED
  BY <1>2, <1>5, <1>6, <1>8

\* Of two lists put together, what is in the first comes first.
LEMMA DistinctLeads ==
    ASSUME NEW E, NEW a \in Seq(E), NEW b \in Seq(E),
           NEW j \in 1..Len(Distinct(a \o b)), Distinct(a \o b)[j] \in ToSet(a),
           NEW i \in 1..j
    PROVE  Distinct(a \o b)[i] \in ToSet(a)
<1>1. PICK s \in Seq(E) : s = a \o b
  <2>1. a \o b \in Seq(E)
    OBVIOUS
  <2>2. QED
    BY <2>1
<1>2. PICK ps \in Seq(1..Len(s)) :
              /\ ToSet(ps) = (1..Len(s)) \cap Firsts(s)
              /\ \A h, k \in DOMAIN ps : h < k => ps[h] < ps[k]
              /\ At(s, Firsts(s)) = [k \in 1..Len(ps) |-> s[ps[k]]]
              /\ At(s, Firsts(s)) \in Seq(E)
  BY AtPositions
<1>3. PICK d \in Seq(E) : /\ d = Distinct(a \o b) /\ Len(d) = Len(ps)
                          /\ \A k \in 1..Len(ps) : d[k] = s[ps[k]]
  <2>1. Distinct(a \o b) = At(s, Firsts(s))
    BY <1>1 DEF Distinct, Firsts
  <2>2. PICK d \in Seq(E) : d = Distinct(a \o b) /\ d = [k \in 1..Len(ps) |-> s[ps[k]]]
    BY <1>2, <2>1
  <2>3. Len(ps) \in Nat
    OBVIOUS
  <2>4. DOMAIN d = 1..Len(ps) /\ \A k \in 1..Len(ps) : d[k] = s[ps[k]]
    BY <2>2
  <2>5. Len(d) = Len(ps)
    BY <2>3, <2>4
  <2>6. QED
    BY <2>2, <2>4, <2>5
<1>4. /\ j \in 1..Len(ps) /\ i \in 1..Len(ps) /\ DOMAIN ps = 1..Len(ps)
      /\ d[j] \in ToSet(a) /\ i <= j
  BY <1>3
<1>5. /\ Len(s) = Len(a) + Len(b) /\ Len(a) \in Nat /\ Len(b) \in Nat
      /\ \A n \in 1..Len(a) : s[n] = a[n]
      /\ DOMAIN a = 1..Len(a)
  BY <1>1
<1>6. ps[j] \in Firsts(s) /\ ps[j] \in 1..Len(s) /\ ps[i] \in 1..Len(s)
  BY <1>2, <1>4 DEF ToSet
<1>7. PICK n \in 1..Len(a) : s[n] = s[ps[j]]
  <2>1. PICK n \in DOMAIN a : d[j] = a[n]
    BY <1>4 DEF ToSet
  <2>2. QED
    BY <1>3, <1>4, <1>5, <2>1
<1>8. ps[j] <= n
  <2>1. CASE n < ps[j]
    <3>1. n \in 1..(ps[j] - 1)
      BY <1>6, <2>1
    <3>2. QED
      BY <1>6, <1>7, <3>1 DEF Firsts
  <2>2. CASE ~(n < ps[j])
    BY <1>6, <2>2
  <2>3. QED
    BY <2>1, <2>2
<1>9. ps[i] <= ps[j]
  <2>1. CASE i = j
    BY <1>6, <2>1
  <2>2. CASE i # j
    <3>1. i < j
      BY <1>4, <2>2
    <3>2. ps[i] < ps[j]
      BY <1>2, <1>4, <3>1
    <3>3. QED
      BY <1>6, <3>2
  <2>3. QED
    BY <2>1, <2>2
<1>10. ps[i] \in 1..Len(a)
  BY <1>5, <1>6, <1>8, <1>9
<1>11. QED
  BY <1>3, <1>4, <1>5, <1>10 DEF ToSet

\* The elements of the lists that FlattenSeq joins.
LEMMA ElementsOfFlatten ==
    ASSUME NEW E, NEW ss \in Seq(Seq(E))
    PROVE  /\ FlattenSeq(ss) \in Seq(E)
           /\ ToSet(FlattenSeq(ss)) = UNION {ToSet(ss[k]) : k \in DOMAIN ss}
<1> DEFINE N == Len(ss)
<1>1. PICK f \in Joining(E, ss) : FlattenSeq(ss) = f[N]
  BY FlattenSteps
<1>2. /\ f \in [0..N -> Seq(E)] /\ f[0] = <<>> /\ \A n \in 1..N : f[n] = f[n - 1] \o ss[n]
      /\ N \in Nat /\ DOMAIN ss = 1..N /\ \A n \in 1..N : ss[n] \in Seq(E)
  <2>1. N \in Nat /\ DOMAIN ss = 1..N /\ \A n \in 1..N : ss[n] \in Seq(E)
    OBVIOUS
  <2>2. QED
    BY <1>1, <2>1 DEF Joining
<1> DEFINE T == {n \in Nat : n \in 0..N =>
                    ToSet(f[n]) = UNION {ToSet(ss[k]) : k \in 1..n}}
<1> HIDE DEF N
<1>3. 0 \in T
  BY <1>2 DEF ToSet
<1>4. ASSUME NEW n \in Nat, n \in T PROVE n + 1 \in T
  <2> SUFFICES ASSUME n + 1 \in 0..N
               PROVE  ToSet(f[n + 1]) = UNION {ToSet(ss[k]) : k \in 1..(n + 1)}
    OBVIOUS
  <2>1. n + 1 \in 1..N /\ (n + 1) - 1 = n /\ n \in 0..N
    BY <1>2
  <2>2. f[n + 1] = f[n] \o ss[n + 1] /\ f[n] \in Seq(E) /\ ss[n + 1] \in Seq(E)
    BY <1>2, <2>1
  <2>3. ToSet(f[n + 1]) = ToSet(f[n]) \cup ToSet(ss[n + 1])
    BY <2>2, ElementsOfConcat
  <2>4. 1..(n + 1) = (1..n) \cup {n + 1}
    OBVIOUS
  <2>5. QED
    BY <1>4, <2>1, <2>3, <2>4
<1> HIDE DEF T
<1>5. N \in T
  BY <1>2, <1>3, <1>4, Induct
<1>6. QED
  BY <1>1, <1>2, <1>5 DEF T

\* An order of a finite set holds all of it.
LEMMA OrderHoldsAll ==
    ASSUME NEW S, IsFiniteSet(S), NEW o \in SetToSeqs(S)
    PROVE  o \in Seq(S) /\ ToSet(o) = S
<1>1. PICK n \in Nat : n = Cardinality(S)
  BY FS_CardinalityType
<1>2. o \in [1..n -> S] /\ \A i, j \in 1..n : i # j => o[i] # o[j]
  BY <1>1 DEF SetToSeqs
<1>3. o \in Injection(1..n, S)
  BY <1>2 DEF Injection, IsInjective
<1>4. Cardinality(1..n) = n
  BY FS_Interval
<1>5. o \in Surjection(1..n, S)
  BY <1>1, <1>3, <1>4, FS_Injection
<1>6. QED
  BY <1>2, <1>5 DEF Surjection, ToSet

\* Induction up to N.
LEMMA InductTo ==
    ASSUME NEW N \in Nat, NEW S, 0 \in S, \A n \in 1..N : n - 1 \in S => n \in S
    PROVE  0..N \subseteq S
<1> DEFINE T == {n \in Nat : n \in 0..N => n \in S}
<1>1. 0 \in T
  OBVIOUS
<1>2. ASSUME NEW n \in Nat, n \in T PROVE n + 1 \in T
  <2>1. n + 1 \in 0..N => n + 1 \in 1..N /\ (n + 1) - 1 = n /\ n \in 0..N
    OBVIOUS
  <2>2. QED
    BY <1>2, <2>1
<1> HIDE DEF T
<1>3. Nat \subseteq T
  BY <1>1, <1>2, Induct
<1>4. QED
  BY <1>3 DEF T

\* What the loop of Total has summed up after n elements, for every n.
Adding(s) ==
    {f \in [0..Len(s) -> Int] :
        f[0] = 0 /\ \A n \in 1..Len(s) : f[n] = f[n - 1] + s[n]}

\* The recursive function of Total exists.
LEMMA TotalSteps ==
    ASSUME NEW s \in Seq(Int)
    PROVE  \E f \in Adding(s) : Total(s) = f[Len(s)]
<1> DEFINE N == Len(s)
           Add(n, r) == r + s[n]
           Added(f) == [n \in 0..N |-> IF n = 0 THEN 0 ELSE Add(n, f[n - 1])]
<1>1. N \in Nat /\ \A n \in 1..N : s[n] \in Int
  OBVIOUS
<1>2. \A n \in 1..N, r \in Int : Add(n, r) \in Int
  BY <1>1
<1>3. \E f : f = Added(f)
  <2> HIDE DEF Add, N
  <2>1. PICK step \in [Nat -> [Int -> Int]] :
           \A n \in 1..N, r \in Int : step[n][r] = Add(n, r)
    <3> DEFINE st == [n \in Nat |-> [r \in Int |-> IF n \in 1..N THEN Add(n, r) ELSE r]]
    <3>1. st \in [Nat -> [Int -> Int]]
      BY <1>1, <1>2
    <3>2. \A n \in 1..N, r \in Int : st[n][r] = Add(n, r)
      BY <1>1
    <3> HIDE DEF st
    <3>3. QED
      BY <3>1, <3>2
  <2>2. PICK g \in [0..N -> Int] : g[0] = 0 /\ \A n \in 1..N : g[n] = step[n][g[n - 1]]
    <3>1. 0 \in Int
      OBVIOUS
    <3>2. Recursive(Int, 0, step, N) # {}
      BY <1>1, <3>1, Recursion
    <3>3. QED
      BY <3>2 DEF Recursive
  <2>3. \A n \in 1..N : n - 1 \in 0..N /\ g[n - 1] \in Int
    BY <1>1
  <2>4. \A n \in 1..N : g[n] = Add(n, g[n - 1])
    BY <2>1, <2>2, <2>3
  <2>5. \A n \in 0..N : n # 0 => n \in 1..N
    BY <1>1
  <2>6. g = Added(g)
    BY <2>2, <2>4, <2>5
  <2>7. QED
    BY <2>6
<1>4. PICK f : f = Added(f) /\ Total(s) = f[N]
  <2> DEFINE sum == CHOOSE f : f = Added(f)
  <2>1. Total(s) = sum[N]
    BY DEF Total
  <2>2. sum = Added(sum)
    <3> HIDE DEF Added
    <3>1. QED
      BY <1>3
  <2> HIDE DEF sum, Added
  <2>3. QED
    BY <2>1, <2>2
<1>5. f[0] = 0 /\ \A n \in 1..N : f[n] = Add(n, f[n - 1])
  <2> HIDE DEF Add, N
  <2>1. QED
    BY <1>1, <1>4
<1>6. f \in [0..N -> Int]
  <2> DEFINE T == {n \in 0..N : f[n] \in Int}
  <2> HIDE DEF Add, N
  <2>1. 0 \in T
    BY <1>1, <1>5
  <2>2. ASSUME NEW n \in 1..N, f[n - 1] \in Int PROVE f[n] \in Int
    BY <1>2, <1>5, <2>2
  <2>3. \A n \in 1..N : n - 1 \in T => n \in T
    BY <1>1, <2>2
  <2> HIDE DEF T
  <2>4. 0..N \subseteq T
    BY <1>1, <2>1, <2>3, InductTo
  <2>5. \A n \in 0..N : f[n] \in Int
    BY <2>4 DEF T
  <2>6. DOMAIN f = 0..N /\ f = [n \in DOMAIN f |-> f[n]]
    BY <1>4
  <2>7. QED
    BY <2>5, <2>6
<1>7. f \in Adding(s)
  BY <1>5, <1>6 DEF Adding
<1>8. QED
  BY <1>4, <1>7

\* Nothing sums up to 0.
LEMMA TotalEmpty == Total(<<>>) = 0
<1>1. <<>> \in Seq(Int) /\ Len(<<>>) = 0
  OBVIOUS
<1>2. PICK f \in Adding(<<>>) : Total(<<>>) = f[Len(<<>>)]
  BY <1>1, TotalSteps
<1>3. QED
  BY <1>1, <1>2 DEF Adding

\* One more number at the end.
LEMMA TotalAppend ==
    ASSUME NEW s \in Seq(Int), NEW x \in Int, NEW t, t = Append(s, x)
    PROVE  Total(t) = Total(s) + x /\ Total(s) \in Int
<1> DEFINE N == Len(s)
<1>1. /\ t \in Seq(Int) /\ N \in Nat /\ Len(t) = N + 1 /\ t[N + 1] = x
      /\ \A n \in 1..N : t[n] = s[n]
  OBVIOUS
<1>2. PICK f \in [0..N -> Int] :
         Total(s) = f[N] /\ f[0] = 0 /\ \A n \in 1..N : f[n] = f[n - 1] + s[n]
  <2>1. PICK f \in Adding(s) : Total(s) = f[Len(s)]
    BY TotalSteps
  <2>2. QED
    BY <2>1 DEF Adding
<1>3. PICK g \in [0..(N + 1) -> Int] :
         Total(t) = g[N + 1] /\ g[0] = 0 /\ \A n \in 1..(N + 1) : g[n] = g[n - 1] + t[n]
  <2>1. PICK g \in Adding(t) : Total(t) = g[Len(t)]
    BY <1>1, TotalSteps
  <2>2. QED
    BY <1>1, <2>1 DEF Adding
<1> HIDE DEF N
<1>4. f[N] = g[N]
  <2> DEFINE T == {n \in 0..N : f[n] = g[n]}
  <2>1. 0 \in T
    BY <1>1, <1>2, <1>3
  <2>2. ASSUME NEW n \in 1..N, n - 1 \in T PROVE n \in T
    <3>1. n \in 0..N /\ n \in 1..(N + 1) /\ f[n - 1] = g[n - 1]
      BY <1>1, <2>2
    <3>2. f[n] = f[n - 1] + s[n] /\ g[n] = g[n - 1] + t[n] /\ t[n] = s[n]
      BY <1>1, <1>2, <1>3, <3>1
    <3>3. QED
      BY <3>1, <3>2
  <2> HIDE DEF T
  <2>3. 0..N \subseteq T
    BY <1>1, <2>1, <2>2, InductTo
  <2>4. N \in T
    BY <1>1, <2>3
  <2>5. QED
    BY <2>4 DEF T
<1>5. N + 1 \in 1..(N + 1) /\ (N + 1) - 1 = N /\ f[N] \in Int
  BY <1>1, <1>2
<1>6. g[N + 1] = g[N] + x
  BY <1>1, <1>3, <1>5
<1>7. QED
  BY <1>2, <1>3, <1>4, <1>5, <1>6
==============================================================================
