----------------------------- MODULE Recursion -----------------------------
(***************************************************************************)
(* What the proofs of several components need and the library states only   *)
(* for operators: induction over the naturals, stated for sets; that a       *)
(* recursive definition of a function is met; powers of two; finite images    *)
(* and greatest elements; and sequences that are put together from others.    *)
(***************************************************************************)
EXTENDS Integers, SequencesExt, FiniteSetTheorems, FunctionTheorems, WellFoundedInduction, TLAPS

(* Every non-empty set of naturals has a least element. *)
LEMMA LeastOfNats ==
    ASSUME NEW T, T \subseteq Nat, T # {}
    PROVE  \E m \in T : \A k \in T : m <= k
<1>1. PICK m \in T : \A k \in T : ~(<<k, m>> \in OpToRel(<, Nat))
  BY NatLessThanWellFounded, WFMin
<1>2. \A k \in T : ~(k < m)
  BY <1>1 DEF OpToRel
<1> QED BY <1>2

(* A set with 0 in it and with every successor of its naturals has them all. *)
LEMMA SetInduction ==
    ASSUME NEW S, 0 \in S, \A n \in Nat : n \in S => n + 1 \in S
    PROVE  \A n \in Nat : n \in S
<1> DEFINE T == {n \in Nat : n \notin S}
<1> SUFFICES ASSUME T # {} PROVE FALSE
  OBVIOUS
<1>1. PICK m \in T : \A k \in T : m <= k
  BY LeastOfNats
<1>2. m \in Nat /\ m # 0 /\ m - 1 \in Nat
  OBVIOUS
<1>3. m - 1 \in S
  BY <1>1, <1>2
<1>4. (m - 1) + 1 \in S
  BY <1>2, <1>3
<1> QED BY <1>2, <1>4

(* What a recursive function of the naturals is up to n: it starts with a and  *)
(* goes on with step.                                                        *)
Follows(h, a, step, n) ==
    h[0] = a /\ \A i \in 1 .. n : h[i] = step[<<h[i - 1], i>>]

LEMMA FollowsUnique ==
    ASSUME NEW g, NEW h, NEW a, NEW step, NEW n \in Nat,
           Follows(g, a, step, n), Follows(h, a, step, n)
    PROVE  \A i \in 0 .. n : g[i] = h[i]
<1> DEFINE S == {i \in Nat : i <= n => g[i] = h[i]}
<1>1. 0 \in S
  BY DEF Follows
<1>2. ASSUME NEW i \in Nat, i \in S PROVE i + 1 \in S
  <2>1. i + 1 <= n => g[i + 1] = step[<<g[i], i + 1>>] /\ h[i + 1] = step[<<h[i], i + 1>>]
    BY DEF Follows
  <2> QED BY <1>2, <2>1
<1>3. \A i \in Nat : i \in S
  BY <1>1, <1>2, SetInduction
<1> QED BY <1>3

LEMMA FollowsExists ==
    ASSUME NEW S, NEW a \in S, NEW step \in [S \X Nat -> S], NEW n \in Nat
    PROVE  \E h \in [0 .. n -> S] : Follows(h, a, step, n)
<1> DEFINE T == {k \in Nat : \E h \in [0 .. k -> S] : Follows(h, a, step, k)}
<1>1. 0 \in T
  <2>1. [i \in 0 .. 0 |-> a] \in [0 .. 0 -> S] /\ Follows([i \in 0 .. 0 |-> a], a, step, 0)
    BY DEF Follows
  <2> QED BY <2>1
<1>2. ASSUME NEW k \in Nat, k \in T PROVE k + 1 \in T
  <2>1. PICK h \in [0 .. k -> S] : Follows(h, a, step, k)
    BY <1>2
  <2> DEFINE g == [i \in 0 .. k + 1 |-> IF i = k + 1 THEN step[<<h[k], k + 1>>] ELSE h[i]]
  <2>2. step[<<h[k], k + 1>>] \in S
    OBVIOUS
  <2>3. g \in [0 .. k + 1 -> S]
    BY <2>2
  <2>4. \A i \in 1 .. k + 1 : g[i] = step[<<g[i - 1], i>>]
    BY <2>1 DEF Follows
  <2>5. g[0] = a
    BY <2>1 DEF Follows
  <2> HIDE DEF g
  <2>6. Follows(g, a, step, k + 1)
    BY <2>4, <2>5 DEF Follows
  <2> QED BY <2>3, <2>6
<1>3. \A k \in Nat : k \in T
  BY <1>1, <1>2, SetInduction
<1> QED BY <1>3

(* A function of the naturals with a first value and a step is well defined.  *)
Recursive(f, a, step) ==
    f[0] = a /\ \A n \in Nat \ {0} : f[n] = step[<<f[n - 1], n>>]

LEMMA RecursiveExists ==
    ASSUME NEW S, NEW a \in S, NEW step \in [S \X Nat -> S]
    PROVE  \E f \in [Nat -> S] : Recursive(f, a, step)
<1> DEFINE up == [n \in Nat |-> CHOOSE h \in [0 .. n -> S] : Follows(h, a, step, n)]
           f == [n \in Nat |-> up[n][n]]
<1>1. \A n \in Nat : up[n] \in [0 .. n -> S] /\ Follows(up[n], a, step, n)
  BY FollowsExists
<1> HIDE DEF up
<1>2. f \in [Nat -> S]
  BY <1>1
<1>3. ASSUME NEW n \in Nat \ {0} PROVE f[n] = step[<<f[n - 1], n>>]
  <2> DEFINE g == up[n]
             h == up[n - 1]
  <2>1. n - 1 \in Nat /\ f[n] = g[n] /\ f[n - 1] = h[n - 1]
    OBVIOUS
  <2>2. Follows(g, a, step, n) /\ Follows(h, a, step, n - 1)
    BY <1>1, <2>1
  <2> HIDE DEF f, g, h
  <2>3. Follows(g, a, step, n - 1) /\ g[n] = step[<<g[n - 1], n>>]
    BY <2>2 DEF Follows
  <2>4. g[n - 1] = h[n - 1]
    BY <2>1, <2>2, <2>3, FollowsUnique
  <2> QED BY <2>1, <2>3, <2>4
<1>4. f[0] = a
  BY <1>1 DEF Follows
<1>5. Recursive(f, a, step)
  BY <1>3, <1>4 DEF Recursive
<1> QED BY <1>2, <1>5
-----------------------------------------------------------------------------
(* The powers of two count the subsets, and a new element doubles those.      *)
LEMMA PowerOfTwo ==
    2 ^ 0 = 1 /\ \A n \in Nat : 2 ^ n \in Nat /\ 2 ^ (n + 1) = 2 * 2 ^ n
<1>1. \A n \in Nat : /\ IsFiniteSet(1 .. n) /\ Cardinality(1 .. n) = n
                     /\ IsFiniteSet(SUBSET (1 .. n))
                     /\ Cardinality(SUBSET (1 .. n)) = 2 ^ n
  <2> TAKE n \in Nat
  <2>1. IsFiniteSet(1 .. n) /\ Cardinality(1 .. n) = n
    BY FS_Interval
  <2> QED BY <2>1, FS_SUBSET
<1>2. 2 ^ 0 = 1
  <2>1. SUBSET (1 .. 0) = {{}}
    OBVIOUS
  <2> QED BY <1>1, <2>1, FS_Singleton
<1>3. ASSUME NEW n \in Nat
      PROVE  2 ^ n \in Nat /\ 2 ^ (n + 1) = 2 * 2 ^ n
  <2> DEFINE S == SUBSET (1 .. n)
             P == S \X {0, 1}
             T == SUBSET (1 .. n + 1)
             f == [p \in P |-> IF p[2] = 0 THEN p[1] ELSE p[1] \cup {n + 1}]
  <2>1. f \in [P -> T]
    OBVIOUS
  <2>2. ASSUME NEW p \in P, NEW q \in P, f[p] = f[q] PROVE p = q
    <3>1. n + 1 \notin p[1] /\ n + 1 \notin q[1]
      OBVIOUS
    <3>2. p[2] = q[2] /\ p[1] = q[1]
      BY <2>2, <3>1
    <3> QED BY <3>2
  <2>3. ASSUME NEW t \in T PROVE \E p \in P : f[p] = t
    <3>1. CASE n + 1 \in t
      <4>1. t \ {n + 1} \in S
        OBVIOUS
      <4>2. <<t \ {n + 1}, 1>> \in P
        BY <4>1
      <4>3. f[<<t \ {n + 1}, 1>>] = t
        BY <3>1, <4>2
      <4> QED BY <4>2, <4>3
    <3>2. CASE n + 1 \notin t
      <4>1. t \in S
        BY <3>2
      <4>2. <<t, 0>> \in P
        BY <4>1
      <4>3. f[<<t, 0>>] = t
        BY <4>2
      <4> QED BY <4>2, <4>3
    <3> QED BY <3>1, <3>2
  <2> HIDE DEF f
  <2>4. ExistsBijection(P, T)
    <3>1. f \in Injection(P, T)
      BY <2>1, <2>2, Fun_IsInj
    <3>2. f \in Surjection(P, T)
      BY <2>1, <2>3, Fun_IsSurj
    <3> QED BY <3>1, <3>2 DEF ExistsBijection, Bijection
  <2>5. IsFiniteSet({0, 1}) /\ Cardinality({0, 1}) = 2
    <3>1. IsFiniteSet({0}) /\ Cardinality({0}) = 1
      BY FS_Singleton
    <3>2. {0, 1} = {0} \cup {1}
      OBVIOUS
    <3> QED BY <3>1, <3>2, FS_AddElement
  <2>6. IsFiniteSet(P) /\ Cardinality(P) = Cardinality(S) * 2
    <3>1. IsFiniteSet(S)
      BY <1>1
    <3> HIDE DEF S
    <3> QED BY <2>5, <3>1, FS_Product
  <2>7. Cardinality(T) = Cardinality(P)
    BY <2>4, <2>6, FS_Bijection
  <2>8. Cardinality(S) \in Nat
    BY <1>1, FS_CardinalityType
  <2>9. Cardinality(S) = 2 ^ n /\ Cardinality(T) = 2 ^ (n + 1)
    <3>1. n + 1 \in Nat
      OBVIOUS
    <3> QED BY <1>1, <3>1
  <2> QED BY <2>6, <2>7, <2>8, <2>9
<1> QED BY <1>2, <1>3

LEMMA PowersGrow ==
    ASSUME NEW m \in Nat, NEW n \in Nat, m <= n
    PROVE  2 ^ m <= 2 ^ n /\ 1 <= 2 ^ m
<1> DEFINE S == {k \in Nat : 1 <= 2 ^ k /\ (m <= k => 2 ^ m <= 2 ^ k)}
<1>1. 0 \in S
  <2>1. 2 ^ 0 = 1
    BY PowerOfTwo
  <2>2. m <= 0 => m = 0
    OBVIOUS
  <2>3. m <= 0 => 2 ^ m = 2 ^ 0
    BY <2>2, Zenon
  <2> QED BY <2>1, <2>3
<1>2. ASSUME NEW k \in Nat, k \in S PROVE k + 1 \in S
  <2>1. 2 ^ k \in Nat /\ 2 ^ m \in Nat /\ 2 ^ (k + 1) = 2 * 2 ^ k
    BY PowerOfTwo
  <2>2. CASE m = k + 1
    BY <1>2, <2>1, <2>2
  <2>3. CASE m # k + 1
    BY <1>2, <2>1, <2>3
  <2> QED BY <2>2, <2>3
<1>3. \A k \in Nat : k \in S
  BY <1>1, <1>2, SetInduction
<1> QED BY <1>3

-----------------------------------------------------------------------------
(* The values of a function on a finite set are finitely many. *)
LEMMA FiniteImage ==
    ASSUME NEW S, IsFiniteSet(S), NEW f
    PROVE  IsFiniteSet({f[x] : x \in S})
<1> DEFINE T == {f[x] : x \in S}
           g == [x \in S |-> f[x]]
<1>1. g \in [S -> T] /\ \A t \in T : \E x \in S : g[x] = t
  OBVIOUS
<1> HIDE DEF g, T
<1>2. g \in Surjection(S, T)
  BY <1>1, Fun_IsSurj
<1>3. IsFiniteSet(T)
  BY <1>2, FS_Surjection
<1> QED BY <1>3 DEF T

(* Every non-empty finite set of naturals has a greatest element. *)
LEMMA GreatestOfFinite ==
    ASSUME NEW T, T \subseteq Nat, T # {}, IsFiniteSet(T)
    PROVE  \E m \in T : \A k \in T : k <= m
<1> DEFINE Greatest(X) == \E m \in X : \A k \in X : k <= m
           Of(X, n) == X \subseteq Nat /\ X # {} /\ IsFiniteSet(X) /\ Cardinality(X) = n
           S == {n \in Nat : \A X : Of(X, n) => Greatest(X)}
<1>1. 0 \in S
  <2> SUFFICES ASSUME NEW X, Of(X, 0) PROVE Greatest(X)
    OBVIOUS
  <2> QED BY FS_EmptySet
<1>2. ASSUME NEW n \in Nat, n \in S PROVE n + 1 \in S
  <2> SUFFICES ASSUME NEW X, Of(X, n + 1) PROVE Greatest(X)
    OBVIOUS
  <2>1. PICK x \in X : TRUE
    OBVIOUS
  <2> DEFINE Y == X \ {x}
  <2>2. IsFiniteSet(Y) /\ Cardinality(Y) = n
    <3>1. IsFiniteSet(X) /\ Cardinality(X) = n + 1
      OBVIOUS
    <3>2. IsFiniteSet(Y) /\ Cardinality(Y) = Cardinality(X) - 1
      BY <2>1, <3>1, FS_RemoveElement
    <3> QED BY <3>1, <3>2
  <2>3. CASE Y = {}
    BY <2>1, <2>3
  <2>4. CASE Y # {}
    <3>1. Of(Y, n)
      BY <2>2, <2>4
    <3>2. PICK m \in Y : \A k \in Y : k <= m
      BY <1>2, <3>1
    <3>3. \A k \in X : k = x \/ k \in Y
      OBVIOUS
    <3>4. CASE x <= m
      BY <3>2, <3>3, <3>4
    <3>5. CASE ~(x <= m)
      BY <2>1, <3>2, <3>3, <3>5
    <3> QED BY <3>4, <3>5
  <2> QED BY <2>3, <2>4
<1>3. \A n \in Nat : n \in S
  BY <1>1, <1>2, SetInduction
<1>4. Cardinality(T) \in Nat
  BY FS_CardinalityType
<1> QED BY <1>3, <1>4

-----------------------------------------------------------------------------
(* Sequences that are made of other sequences, element by element.        *)

LEMMA ElementsMakeSeq ==
    ASSUME NEW S, NEW n \in Nat, NEW f, f = [i \in 1 .. n |-> f[i]], \A i \in 1 .. n : f[i] \in S
    PROVE  f \in Seq(S) /\ Len(f) = n /\ DOMAIN f = 1 .. n
<1>1. f \in [1 .. n -> S]
  OBVIOUS
<1> QED BY <1>1

(* A sequence of sequences made one of, element by element. *)
Spread(t, g) == FlattenSeq([i \in DOMAIN t |-> g[t[i]]])

(* Two sequences, one after the other.  (Kept closed, \o confuses the provers.) *)
Joined(a, b) == a \o b

LEMMA JoinedType == \A S : \A a, b \in Seq(S) : Joined(a, b) \in Seq(S)
BY DEF Joined

LEMMA JoinedEmpty == \A S : \A a \in Seq(S) : Joined(<<>>, a) = a /\ Joined(a, <<>>) = a
BY DEF Joined

(* The functions that give a sequence over S for each element of T. *)
Blocks(T, S) == [T -> Seq(S)]

(* FlattenSeq adds the sequences from left to right. *)
LEMMA FlattenFollows ==
    ASSUME NEW S, NEW s \in Seq(Seq(S)), NEW h, h[0] = <<>>,
           \A i \in 1 .. Len(s) : h[i] = Joined(h[i - 1], s[i])
    PROVE  FlattenSeq(s) = h[Len(s)]
<1>1. PICK n \in Nat : n = Len(s)
  OBVIOUS
<1>2. \A i \in 1 .. n : s[i] \in Seq(S)
  BY <1>1
<1>3. CASE n = 0
  <2>1. s = <<>> /\ Len(s) = 0
    <3>1. \A U, u : u \in Seq(U) /\ Len(u) = 0 => u = <<>>
      OBVIOUS
    <3> QED BY <1>1, <1>3, <3>1, Zenon
  <2> QED BY <2>1 DEF FlattenSeq
<1>4. CASE n # 0
  <2> DEFINE F(f) == [i \in 1 .. n |-> IF i = 1 THEN s[i] ELSE f[i - 1] \o s[i]]
             G(f) == [i \in 1 .. n |-> IF i = 1 THEN s[i] ELSE Joined(f[i - 1], s[i])]
             g == [i \in 1 .. n |-> h[i]]
             c == CHOOSE f : f = F(f)
  <2>1. h[1] = s[1]
    <3>1. s[1] \in Seq(S) /\ h[1] = Joined(h[1 - 1], s[1]) /\ 1 - 1 = 0
      BY <1>1, <1>2, <1>4
    <3> QED BY <3>1, JoinedEmpty
  <2>2. g = G(g)
    <3>1. ASSUME NEW i \in 1 .. n PROVE g[i] = IF i = 1 THEN s[i] ELSE Joined(g[i - 1], s[i])
      <4>1. CASE i = 1
        BY <2>1, <4>1
      <4>2. CASE i # 1
        <5>1. i - 1 \in 1 .. n /\ h[i] = Joined(h[i - 1], s[i])
          BY <1>1, <4>2
        <5> QED BY <4>2, <5>1
      <4> QED BY <4>1, <4>2
    <3> QED BY <3>1
  <2>3. c = F(c)
    BY <2>2, Zenon DEF Joined
  <2>4. c = G(c)
    BY <2>3, Zenon DEF Joined
  <2>5. FlattenSeq(s) = c[n]
    BY <1>1, <1>4, Zenon DEF FlattenSeq
  <2> HIDE DEF c, F
  <2> DEFINE T == {i \in Nat : i + 1 <= n => c[i + 1] = h[i + 1]}
  <2>6. 0 \in T
    BY <2>1, <2>4
  <2>7. ASSUME NEW i \in Nat, i \in T PROVE i + 1 \in T
    <3> SUFFICES ASSUME i + 2 <= n PROVE c[i + 2] = h[i + 2]
      OBVIOUS
    <3>1. i + 2 \in 1 .. n /\ (i + 2) - 1 = i + 1 /\ i + 2 # 1
      OBVIOUS
    <3>2. c[i + 2] = Joined(c[i + 1], s[i + 2])
      BY <2>4, <3>1
    <3>3. h[i + 2] = Joined(h[i + 1], s[i + 2])
      BY <1>1, <3>1
    <3> QED BY <2>7, <3>2, <3>3
  <2>8. \A i \in Nat : i \in T
    BY <2>6, <2>7, SetInduction
  <2>9. n - 1 \in T /\ (n - 1) + 1 = n
    BY <1>4, <2>8
  <2> QED BY <1>1, <2>5, <2>9
<1> QED BY <1>3, <1>4

LEMMA SpreadAppend ==
    ASSUME NEW S, NEW T, NEW g \in Blocks(T, S), NEW t \in Seq(T), NEW x \in T
    PROVE  /\ Spread(t, g) \in Seq(S)
           /\ Spread(Append(t, x), g) = Joined(Spread(t, g), g[x])
<1> DEFINE u == Append(t, x)
<1>1. PICK n \in Nat : n = Len(t)
  OBVIOUS
<1>2. u \in Seq(T) /\ Len(u) = n + 1 /\ u[n + 1] = x /\ \A i \in 1 .. n : u[i] = t[i]
  BY <1>1
<1>3. \A i \in 1 .. n + 1 : u[i] \in T /\ g[u[i]] \in Seq(S)
  BY <1>2 DEF Blocks
<1> HIDE DEF u
<1> DEFINE step == [p \in Seq(S) \X Nat |->
                      Joined(p[1], IF p[2] \in 1 .. n + 1 THEN g[u[p[2]]] ELSE <<>>)]
<1>4. step \in [Seq(S) \X Nat -> Seq(S)]
  <2>1. ASSUME NEW p \in Seq(S) \X Nat
        PROVE  Joined(p[1], IF p[2] \in 1 .. n + 1 THEN g[u[p[2]]] ELSE <<>>) \in Seq(S)
    <3>1. p[1] \in Seq(S) /\ (IF p[2] \in 1 .. n + 1 THEN g[u[p[2]]] ELSE <<>>) \in Seq(S)
      BY <1>3
    <3> HIDE DEF step
    <3> QED BY <3>1, JoinedType
  <2> QED BY <2>1
<1>5. \A h \in Seq(S), i \in 1 .. n + 1 : step[<<h, i>>] = Joined(h, g[u[i]])
  OBVIOUS
<1>6. <<>> \in Seq(S) /\ n + 1 \in Nat
  OBVIOUS
<1> HIDE DEF step
<1>7. PICK h \in [0 .. n + 1 -> Seq(S)] : Follows(h, <<>>, step, n + 1)
  BY <1>4, <1>6, FollowsExists
<1>8. h[0] = <<>> /\ \A i \in 1 .. n + 1 : h[i] = step[<<h[i - 1], i>>]
  BY <1>7 DEF Follows
<1>9. \A i \in 1 .. n + 1 : h[i] \in Seq(S) /\ h[i] = Joined(h[i - 1], g[u[i]])
  <2> TAKE i \in 1 .. n + 1
  <2>1. h[i] \in Seq(S) /\ h[i - 1] \in Seq(S)
    BY <1>7
  <2> QED BY <1>5, <1>8, <2>1
<1>10. ASSUME NEW v \in Seq(T), Len(v) <= n + 1, \A i \in 1 .. Len(v) : v[i] = u[i]
       PROVE  Spread(v, g) = h[Len(v)]
  <2> DEFINE s == [i \in DOMAIN v |-> g[v[i]]]
  <2>1. Len(v) \in Nat /\ DOMAIN v = 1 .. Len(v)
    OBVIOUS
  <2>2. s \in Seq(Seq(S)) /\ Len(s) = Len(v) /\ \A i \in 1 .. Len(v) : s[i] = g[u[i]]
    <3>1. ASSUME NEW i \in 1 .. Len(v) PROVE g[v[i]] \in Seq(S) /\ g[v[i]] = g[u[i]]
      BY <1>3, <1>10, <2>1
    <3>2. s \in [1 .. Len(v) -> Seq(Seq(S))] \/ \A i \in 1 .. Len(v) : s[i] = g[u[i]]
      BY <2>1, <3>1
    <3> QED BY <2>1, <3>1
  <2> HIDE DEF s
  <2>3. \A i \in 1 .. Len(s) : h[i] = Joined(h[i - 1], s[i])
    <3> TAKE i \in 1 .. Len(s)
    <3>1. i \in 1 .. n + 1 /\ s[i] = g[u[i]]
      BY <1>10, <2>1, <2>2
    <3> QED BY <1>9, <3>1
  <2>4. FlattenSeq(s) = h[Len(s)]
    BY <1>8, <2>2, <2>3, FlattenFollows
  <2> QED BY <2>2, <2>4 DEF Spread, s
<1>11. Spread(t, g) = h[n]
  BY <1>1, <1>2, <1>10
<1>12. Spread(u, g) = h[n + 1]
  <2>1. n + 1 <= n + 1
    BY <1>1
  <2> QED BY <1>1, <1>2, <1>10, <2>1
<1> QED BY <1>2, <1>3, <1>7, <1>9, <1>11, <1>12 DEF u

(* What is proved of the empty sequence and of those one longer, is of all. *)
LEMMA SeqInduction ==
    ASSUME NEW T, NEW P, <<>> \in P,
           \A t \in Seq(T) : t \in P => \A x \in T : Append(t, x) \in P
    PROVE  \A t \in Seq(T) : t \in P
<1> DEFINE S == {n \in Nat : \A t \in Seq(T) : Len(t) = n => t \in P}
<1>1. 0 \in S
  <2> SUFFICES ASSUME NEW t \in Seq(T), Len(t) = 0 PROVE t \in P
    OBVIOUS
  <2>1. t = <<>>
    OBVIOUS
  <2> QED BY <2>1
<1>2. ASSUME NEW n \in Nat, n \in S PROVE n + 1 \in S
  <2> SUFFICES ASSUME NEW t \in Seq(T), Len(t) = n + 1 PROVE t \in P
    OBVIOUS
  <2> DEFINE u == SubSeq(t, 1, n)
  <2>1. u \in Seq(T) /\ Len(u) = n /\ t[n + 1] \in T /\ t = Append(u, t[n + 1])
    OBVIOUS
  <2>2. u \in P
    BY <1>2, <2>1
  <2> QED BY <2>1, <2>2
<1>3. \A n \in Nat : n \in S
  BY <1>1, <1>2, SetInduction
<1> SUFFICES ASSUME NEW t \in Seq(T) PROVE t \in P
  OBVIOUS
<1>4. Len(t) \in Nat /\ Len(t) \in S
  BY <1>3
<1> QED BY <1>4

LEMMA SpreadFacts ==
    ASSUME NEW S, NEW T, NEW g \in Blocks(T, S)
    PROVE  /\ Spread(<<>>, g) = <<>>
           /\ \A t \in Seq(T) : Spread(t, g) \in Seq(S)
           /\ \A t \in Seq(T), x \in T : Spread(Append(t, x), g) = Joined(Spread(t, g), g[x])
<1>1. Spread(<<>>, g) = <<>>
  <2>1. [i \in DOMAIN <<>> |-> g[(<<>>)[i]]] = <<>>
    OBVIOUS
  <2>2. FlattenSeq(<<>>) = <<>>
    BY DEF FlattenSeq
  <2> QED BY <2>1, <2>2 DEF Spread
<1>2. ASSUME NEW t \in Seq(T) PROVE Spread(t, g) \in Seq(S)
  <2>1. CASE t = <<>>
    <3>1. <<>> \in Seq(S)
      OBVIOUS
    <3> QED BY <1>1, <2>1, <3>1, Zenon
  <2>2. CASE t # <<>>
    <3>1. t[1] \in T
      BY <2>2
    <3> QED BY <3>1, SpreadAppend
  <2> QED BY <2>1, <2>2
<1> QED BY <1>1, <1>2, SpreadAppend

LEMMA SpreadJoined ==
    ASSUME NEW S, NEW T, NEW g \in Blocks(T, S), NEW s \in Seq(T), NEW t \in Seq(T)
    PROVE  Spread(Joined(s, t), g) = Joined(Spread(s, g), Spread(t, g))
<1> DEFINE P == {u \in Seq(T) : Spread(Joined(s, u), g) = Joined(Spread(s, g), Spread(u, g))}
<1>1. <<>> \in P
  <2>1. Joined(s, <<>>) = s /\ Joined(Spread(s, g), <<>>) = Spread(s, g)
    BY JoinedEmpty, SpreadFacts
  <2> QED BY <2>1, SpreadFacts
<1>2. ASSUME NEW u \in Seq(T), u \in P, NEW x \in T PROVE Append(u, x) \in P
  <2>1. Joined(s, Append(u, x)) = Append(Joined(s, u), x) /\ Joined(s, u) \in Seq(T)
    BY DEF Joined
  <2>2. Spread(Joined(s, Append(u, x)), g) = Joined(Spread(Joined(s, u), g), g[x])
    BY <2>1, SpreadFacts
  <2>3. Spread(Append(u, x), g) = Joined(Spread(u, g), g[x])
    BY SpreadFacts
  <2>4. Spread(s, g) \in Seq(S) /\ Spread(u, g) \in Seq(S) /\ g[x] \in Seq(S)
    BY SpreadFacts DEF Blocks
  <2>5. \A a, b, c \in Seq(S) : Joined(Joined(a, b), c) = Joined(a, Joined(b, c))
    BY SMTT(30) DEF Joined
  <2>6. Append(u, x) \in Seq(T)
    OBVIOUS
  <2> QED BY <1>2, <2>2, <2>3, <2>4, <2>5, <2>6
<1>3. \A u \in Seq(T) : u \in P
  BY <1>1, <1>2, SeqInduction
<1> QED BY <1>3

LEMMA SpreadSame ==
    ASSUME NEW T, NEW t \in Seq(T), NEW g, NEW h, \A i \in DOMAIN t : g[t[i]] = h[t[i]]
    PROVE  Spread(t, g) = Spread(t, h)
<1>1. [i \in DOMAIN t |-> g[t[i]]] = [i \in DOMAIN t |-> h[t[i]]]
  OBVIOUS
<1> QED BY <1>1, Zenon DEF Spread

(* One after the other, or at once. *)
LEMMA SpreadTwice ==
    ASSUME NEW R, NEW S, NEW T, NEW g \in Blocks(T, S), NEW h \in Blocks(S, R), NEW t \in Seq(T),
           NEW both, \A x \in T : both[x] = Spread(g[x], h)
    PROVE  Spread(Spread(t, g), h) = Spread(t, both)
<1> DEFINE k == [x \in T |-> Spread(g[x], h)]
           P == {u \in Seq(T) : Spread(Spread(u, g), h) = Spread(u, k)}
<1>1. k \in Blocks(T, R)
  BY SpreadFacts DEF Blocks
<1> HIDE DEF k
<1>2. <<>> \in P
  <2>1. Spread(<<>>, g) = <<>> /\ Spread(<<>>, h) = <<>> /\ Spread(<<>>, k) = <<>>
    BY <1>1, SpreadFacts
  <2> QED BY <2>1
<1>3. ASSUME NEW u \in Seq(T), u \in P, NEW x \in T PROVE Append(u, x) \in P
  <2>1. /\ Spread(Append(u, x), g) = Joined(Spread(u, g), g[x])
        /\ Spread(u, g) \in Seq(S) /\ g[x] \in Seq(S)
    BY SpreadFacts DEF Blocks
  <2>2. Spread(Joined(Spread(u, g), g[x]), h) = Joined(Spread(Spread(u, g), h), Spread(g[x], h))
    BY <2>1, SpreadJoined
  <2>3. Spread(Append(u, x), k) = Joined(Spread(u, k), k[x])
    BY <1>1, SpreadFacts
  <2>4. k[x] = Spread(g[x], h)
    BY DEF k
  <2>5. Append(u, x) \in Seq(T)
    OBVIOUS
  <2> QED BY <1>3, <2>1, <2>2, <2>3, <2>4, <2>5
<1>4. \A u \in Seq(T) : u \in P
  BY <1>2, <1>3, SeqInduction
<1>5. \A i \in DOMAIN t : k[t[i]] = both[t[i]]
  BY DEF k
<1> QED BY <1>4, <1>5, SpreadSame

LEMMA SpreadNothing ==
    ASSUME NEW T, NEW t \in Seq(T)
    PROVE  Spread(t, [x \in T |-> <<x>>]) = t
<1> DEFINE g == [x \in T |-> <<x>>]
           P == {u \in Seq(T) : Spread(u, g) = u}
<1>1. g \in Blocks(T, T)
  BY DEF Blocks
<1>2. \A x \in T : g[x] = <<x>>
  OBVIOUS
<1> HIDE DEF g
<1>3. <<>> \in P
  BY <1>1, SpreadFacts
<1>4. ASSUME NEW u \in Seq(T), u \in P, NEW x \in T PROVE Append(u, x) \in P
  <2>1. Spread(Append(u, x), g) = Joined(Spread(u, g), g[x])
    BY <1>1, SpreadFacts
  <2>2. Joined(u, <<x>>) = Append(u, x) /\ Append(u, x) \in Seq(T)
    BY DEF Joined
  <2> QED BY <1>2, <1>4, <2>1, <2>2
<1>5. \A u \in Seq(T) : u \in P
  BY <1>3, <1>4, SeqInduction
<1> QED BY <1>5 DEF g

(* One element on its own. *)
LEMMA SpreadOne ==
    ASSUME NEW S, NEW T, NEW g \in Blocks(T, S), NEW x \in T
    PROVE  Spread(<<x>>, g) = g[x]
<1>1. Append(<<>>, x) = <<x>> /\ <<>> \in Seq(T)
  OBVIOUS
<1>2. Spread(<<>>, g) = <<>> /\ Spread(Append(<<>>, x), g) = Joined(Spread(<<>>, g), g[x])
  <2>1. \A t \in Seq(T), y \in T : Spread(Append(t, y), g) = Joined(Spread(t, g), g[y])
    BY SpreadFacts
  <2>2. Spread(<<>>, g) = <<>>
    BY SpreadFacts
  <2> QED BY <1>1, <2>1, <2>2, Zenon
<1>3. g[x] \in Seq(S)
  BY DEF Blocks
<1> QED BY <1>1, <1>2, <1>3, JoinedEmpty

(* Whatever is in a block is in the whole. *)
LEMMA SpreadHas ==
    ASSUME NEW S, NEW T, NEW g \in Blocks(T, S), NEW t \in Seq(T)
    PROVE  \A i \in 1 .. Len(t) : \A j \in 1 .. Len(g[t[i]]) :
              \E k \in 1 .. Len(Spread(t, g)) : Spread(t, g)[k] = g[t[i]][j]
<1> DEFINE Has(u) == \A i \in 1 .. Len(u) : \A j \in 1 .. Len(g[u[i]]) :
                        \E k \in 1 .. Len(Spread(u, g)) : Spread(u, g)[k] = g[u[i]][j]
           P == {u \in Seq(T) : Has(u)}
<1>1. <<>> \in P
  OBVIOUS
<1>2. ASSUME NEW u \in Seq(T), u \in P, NEW x \in T PROVE Append(u, x) \in P
  <2> DEFINE v == Append(u, x)
  <2>1. v \in Seq(T) /\ Len(v) = Len(u) + 1 /\ v[Len(u) + 1] = x /\ Len(u) \in Nat
        /\ \A i \in 1 .. Len(u) : v[i] = u[i]
    OBVIOUS
  <2>2. Spread(v, g) = Joined(Spread(u, g), g[x])
        /\ Spread(u, g) \in Seq(S) /\ g[x] \in Seq(S)
    BY SpreadFacts DEF Blocks
  <2> HIDE DEF v
  <2> SUFFICES ASSUME NEW i \in 1 .. Len(v), NEW j \in 1 .. Len(g[v[i]])
               PROVE  \E k \in 1 .. Len(Spread(v, g)) : Spread(v, g)[k] = g[v[i]][j]
    BY <2>1 DEF v
  <2>3. \A a, b \in Seq(S) :
           /\ Len(Joined(a, b)) = Len(a) + Len(b) /\ Len(a) \in Nat /\ Len(b) \in Nat
           /\ \A k \in 1 .. Len(a) : Joined(a, b)[k] = a[k]
           /\ \A k \in 1 .. Len(b) : Joined(a, b)[Len(a) + k] = b[k]
    BY DEF Joined
  <2>4. CASE i \in 1 .. Len(u)
    <3>1. PICK k \in 1 .. Len(Spread(u, g)) : Spread(u, g)[k] = g[u[i]][j]
      BY <1>2, <2>1, <2>4
    <3>2. k \in 1 .. Len(Spread(v, g)) /\ Spread(v, g)[k] = Spread(u, g)[k]
      BY <2>2, <2>3, SMTT(30)
    <3> QED BY <2>1, <2>4, <3>1, <3>2
  <2>5. CASE i = Len(u) + 1
    <3>1. Len(Spread(u, g)) + j \in 1 .. Len(Spread(v, g))
          /\ Spread(v, g)[Len(Spread(u, g)) + j] = g[x][j]
      BY <2>1, <2>2, <2>3, <2>5, SMTT(30)
    <3> QED BY <2>1, <2>5, <3>1
  <2> QED BY <2>1, <2>4, <2>5
<1>3. \A u \in Seq(T) : u \in P
  BY <1>1, <1>2, SeqInduction
<1> QED BY <1>3
=============================================================================
