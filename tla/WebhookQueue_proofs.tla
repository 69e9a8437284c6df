------------------------ MODULE WebhookQueue_proofs ------------------------
(***************************************************************************)
(* Proofs about WebhookQueue, for any webhooks, bounds and sizes.  That no *)
(* event is lost assumes that no race is open; that they come in order     *)
(* only that none is enqueued before the copy has been loaded.             *)
(***************************************************************************)
EXTENDS WebhookQueue, SequenceTheorems, FiniteSetTheorems, WellFoundedInduction, TLAPS

USE BoundsAssumption DEF BoundsAssumption

-----------------------------------------------------------------------------
\* Lists

\* list has the elements of q, in their order.
Embeds(list, q) ==
    \E f \in [1..Len(q) -> 1..Len(list)] :
        /\ \A i, j \in 1..Len(q) : i < j => f[i] < f[j]
        /\ \A i \in 1..Len(q) : q[i] = list[f[i]]

\* The members of lists that are joined, extended or cut.
LEMMA Members ==
    ASSUME NEW S, NEW s \in Seq(S), NEW t \in Seq(S)
    PROVE  /\ ToSet(s) \subseteq S
           /\ ToSet(s \o t) = ToSet(s) \cup ToSet(t)
           /\ ToSet(<<>>) = {}
           /\ \A e \in S : ToSet(Append(s, e)) = ToSet(s) \cup {e}
           /\ \A k \in 0..Len(s) :
                 ToSet(SubSeq(s, 1, k)) \cup ToSet(SubSeq(s, k + 1, Len(s))) = ToSet(s)
  <1>1. ToSet(s) \subseteq S /\ ToSet(<<>>) = {}
    BY DEF ToSet
  <1>2. ToSet(s \o t) = ToSet(s) \cup ToSet(t)
    <2>1. /\ Len(s \o t) = Len(s) + Len(t) /\ Len(s) \in Nat /\ Len(t) \in Nat
          /\ DOMAIN (s \o t) = 1..Len(s \o t)
          /\ DOMAIN s = 1..Len(s) /\ DOMAIN t = 1..Len(t)
      OBVIOUS
    <2>2. \A i \in 1..Len(s) : (s \o t)[i] = s[i]
      OBVIOUS
    <2>3. \A i \in 1..Len(t) : (s \o t)[Len(s) + i] = t[i] /\ Len(s) + i \in 1..Len(s \o t)
      BY ConcatProperties
    <2>4. \A i \in 1..Len(s \o t) : i \in 1..Len(s) \/ i - Len(s) \in 1..Len(t)
      BY <2>1
    <2>5. ASSUME NEW e \in ToSet(s \o t) PROVE e \in ToSet(s) \cup ToSet(t)
      <3>1. PICK i \in 1..Len(s \o t) : e = (s \o t)[i]
        BY <2>1 DEF ToSet
      <3>2. CASE i \in 1..Len(s)
        BY <2>1, <2>2, <3>1, <3>2 DEF ToSet
      <3>3. CASE i - Len(s) \in 1..Len(t)
        <4>1. e = t[i - Len(s)]
          BY <2>1, <2>3, <3>1, <3>3
        <4> QED BY <2>1, <3>3, <4>1 DEF ToSet
      <3> QED BY <2>4, <3>2, <3>3
    <2>6. ASSUME NEW e \in ToSet(s) \cup ToSet(t) PROVE e \in ToSet(s \o t)
      <3>1. CASE e \in ToSet(s)
        <4>1. PICK i \in 1..Len(s) : e = s[i]
          BY <2>1, <3>1 DEF ToSet
        <4>2. i \in 1..Len(s \o t) /\ e = (s \o t)[i]
          BY <2>1, <2>2, <4>1
        <4> QED BY <2>1, <4>2 DEF ToSet
      <3>2. CASE e \in ToSet(t)
        <4>1. PICK i \in 1..Len(t) : e = t[i]
          BY <2>1, <3>2 DEF ToSet
        <4>2. Len(s) + i \in 1..Len(s \o t) /\ e = (s \o t)[Len(s) + i]
          BY <2>3, <4>1
        <4> QED BY <2>1, <4>2 DEF ToSet
      <3> QED BY <3>1, <3>2
    <2> QED BY <2>5, <2>6
  <1>3. ASSUME NEW e \in S PROVE ToSet(Append(s, e)) = ToSet(s) \cup {e}
    BY AppendProperties DEF ToSet
  <1>4. ASSUME NEW k \in 0..Len(s)
        PROVE  ToSet(SubSeq(s, 1, k)) \cup ToSet(SubSeq(s, k + 1, Len(s))) = ToSet(s)
    <2> DEFINE a == SubSeq(s, 1, k)
               b == SubSeq(s, k + 1, Len(s))
    <2>1. Len(a) = k /\ DOMAIN a = 1..k /\ \A i \in 1..k : a[i] = s[i]
      OBVIOUS
    <2>2. /\ Len(b) = Len(s) - k /\ DOMAIN b = 1..Len(s) - k
          /\ \A i \in 1..Len(s) - k : b[i] = s[k + i]
      OBVIOUS
    <2>3. DOMAIN s = 1..Len(s) /\ \A i \in 1..Len(s) : i \in 1..k \/ i - k \in 1..Len(s) - k
      OBVIOUS
    <2> HIDE DEF a, b
    <2>4. \A i \in 1..Len(s) - k : k + i \in 1..Len(s)
      OBVIOUS
    <2>5. ToSet(a) \cup ToSet(b) = ToSet(s)
      <3>1. ASSUME NEW e \in ToSet(s) PROVE e \in ToSet(a) \cup ToSet(b)
        <4>1. PICK i \in 1..Len(s) : e = s[i]
          BY <2>3 DEF ToSet
        <4>2. CASE i \in 1..k
          BY <2>1, <4>1, <4>2 DEF ToSet
        <4>3. CASE i - k \in 1..Len(s) - k
          <5>1. e = b[i - k]
            BY <2>2, <4>1, <4>3
          <5> QED BY <2>2, <4>3, <5>1 DEF ToSet
        <4> QED BY <2>3, <4>2, <4>3
      <3>2. ToSet(a) \subseteq ToSet(s)
        BY <2>1, <2>3 DEF ToSet
      <3>3. ToSet(b) \subseteq ToSet(s)
        BY <2>2, <2>3, <2>4 DEF ToSet
      <3> QED BY <3>1, <3>2, <3>3
    <2> QED BY <2>5 DEF a, b
  <1> QED BY <1>1, <1>2, <1>3, <1>4

\* A set of natural numbers that is not empty has a smallest element.
LEMMA Smallest ==
    ASSUME NEW S \in SUBSET Nat, S # {}
    PROVE  \E n \in S : \A m \in S : n <= m
  <1>1. PICK n \in S : \A m \in S : <<m, n>> \notin OpToRel(<, Nat)
    BY NatLessThanWellFounded, WFMin
  <1>2. \A m \in S : ~(m < n)
    BY <1>1 DEF OpToRel
  <1> QED BY <1>2

LEMMA EmbedsMembers ==
    ASSUME NEW S, NEW l \in Seq(S), NEW q \in Seq(S), Embeds(l, q)
    PROVE  ToSet(q) \subseteq ToSet(l)
  <1>1. PICK f \in [1..Len(q) -> 1..Len(l)] : \A i \in 1..Len(q) : q[i] = l[f[i]]
    BY DEF Embeds
  <1>2. DOMAIN q = 1..Len(q) /\ DOMAIN l = 1..Len(l)
    OBVIOUS
  <1> QED BY <1>1, <1>2 DEF ToSet

LEMMA EmbedsSelf ==
    ASSUME NEW S, NEW l \in Seq(S)
    PROVE  Embeds(l, l) /\ Embeds(l, <<>>)
  <1>1. Embeds(l, l)
    <2> DEFINE f == [i \in 1..Len(l) |-> i]
    <2>1. f \in [1..Len(l) -> 1..Len(l)] /\ \A i \in 1..Len(l) : f[i] = i
      OBVIOUS
    <2> HIDE DEF f
    <2> QED BY <2>1 DEF Embeds
  <1>2. Embeds(l, <<>>)
    <2> DEFINE f == [i \in 1..Len(<<>>) |-> i]
    <2>1. f \in [1..Len(<<>>) -> 1..Len(l)] /\ 1..Len(<<>>) = {}
      OBVIOUS
    <2> HIDE DEF f
    <2>2. /\ \A i, j \in 1..Len(<<>>) : i < j => f[i] < f[j]
          /\ \A i \in 1..Len(<<>>) : <<>>[i] = l[f[i]]
      BY <2>1
    <2> QED BY <2>1, <2>2, Zenon DEF Embeds
  <1> QED BY <1>1, <1>2

LEMMA EmbedsPart ==
    ASSUME NEW S, NEW l \in Seq(S), NEW m \in Seq(S), NEW q \in Seq(S),
           Embeds(l, m), Embeds(m, q)
    PROVE  Embeds(l, q)
  <1>1. PICK f \in [1..Len(m) -> 1..Len(l)] :
            /\ \A i, j \in 1..Len(m) : i < j => f[i] < f[j]
            /\ \A i \in 1..Len(m) : m[i] = l[f[i]]
    BY DEF Embeds
  <1>2. PICK g \in [1..Len(q) -> 1..Len(m)] :
            /\ \A i, j \in 1..Len(q) : i < j => g[i] < g[j]
            /\ \A i \in 1..Len(q) : q[i] = m[g[i]]
    BY DEF Embeds
  <1> DEFINE h == [i \in 1..Len(q) |-> f[g[i]]]
  <1>3. h \in [1..Len(q) -> 1..Len(l)] /\ \A i \in 1..Len(q) : h[i] = f[g[i]]
    OBVIOUS
  <1> HIDE DEF h
  <1>4. \A i \in 1..Len(q) : g[i] \in 1..Len(m) /\ q[i] = l[h[i]]
    BY <1>1, <1>2, <1>3
  <1>5. \A i, j \in 1..Len(q) : i < j => h[i] < h[j]
    BY <1>1, <1>2, <1>3, <1>4
  <1> QED BY <1>3, <1>4, <1>5 DEF Embeds

LEMMA EmbedsHead ==
    ASSUME NEW S, NEW l \in Seq(S), NEW q \in Seq(S), NEW w \in Seq(S), Embeds(l, q \o w)
    PROVE  Embeds(l, q)
  <1> DEFINE m == q \o w
  <1>1. /\ m \in Seq(S) /\ Len(q) \in Nat /\ Len(m) \in Nat /\ Len(q) <= Len(m)
        /\ \A i \in 1..Len(q) : m[i] = q[i]
    OBVIOUS
  <1> HIDE DEF m
  <1> DEFINE f == [i \in 1..Len(q) |-> i]
  <1>2. f \in [1..Len(q) -> 1..Len(m)] /\ \A i \in 1..Len(q) : f[i] = i
    BY <1>1
  <1> HIDE DEF f
  <1>3. Embeds(m, q)
    <2>1. /\ \A i, j \in 1..Len(q) : i < j => f[i] < f[j]
          /\ \A i \in 1..Len(q) : q[i] = m[f[i]]
      BY <1>1, <1>2
    <2> QED BY <1>2, <2>1, Zenon DEF Embeds
  <1> QED BY <1>1, <1>3, EmbedsPart DEF m

LEMMA EmbedsConcat ==
    ASSUME NEW S, NEW l \in Seq(S), NEW q \in Seq(S), NEW w \in Seq(S), Embeds(l, q)
    PROVE  Embeds(l \o w, q \o w)
  <1>1. PICK f \in [1..Len(q) -> 1..Len(l)] :
            /\ \A i, j \in 1..Len(q) : i < j => f[i] < f[j]
            /\ \A i \in 1..Len(q) : q[i] = l[f[i]]
    BY DEF Embeds
  <1> DEFINE a == l \o w
             b == q \o w
             g == [i \in 1..Len(b) |-> IF i <= Len(q) THEN f[i] ELSE Len(l) + (i - Len(q))]
  <1>2. /\ Len(a) = Len(l) + Len(w) /\ Len(b) = Len(q) + Len(w)
        /\ Len(q) \in Nat /\ Len(l) \in Nat /\ Len(w) \in Nat
    OBVIOUS
  <1>3. /\ \A i \in 1..Len(a) : a[i] = IF i <= Len(l) THEN l[i] ELSE w[i - Len(l)]
        /\ \A i \in 1..Len(b) : b[i] = IF i <= Len(q) THEN q[i] ELSE w[i - Len(q)]
    BY <1>2, ConcatProperties
  <1> HIDE DEF a, b
  <1>4. ASSUME NEW i \in 1..Len(b)
        PROVE  g[i] \in 1..Len(a) /\ b[i] = a[g[i]]
    <2>1. CASE i <= Len(q)
      <3>1. i \in 1..Len(q) /\ g[i] = f[i] /\ f[i] \in 1..Len(l)
        BY <1>2, <2>1
      <3>2. f[i] \in 1..Len(a) /\ a[f[i]] = l[f[i]]
        BY <1>2, <1>3, <3>1
      <3> HIDE DEF g
      <3> QED BY <1>1, <1>3, <2>1, <3>1, <3>2
    <2>2. CASE ~(i <= Len(q))
      <3>1. g[i] = Len(l) + (i - Len(q)) /\ i - Len(q) \in 1..Len(w)
        BY <1>2, <2>2
      <3> HIDE DEF g
      <3>2. g[i] \in 1..Len(a) /\ ~(g[i] <= Len(l)) /\ g[i] - Len(l) = i - Len(q)
        BY <1>2, <3>1
      <3> QED BY <1>3, <2>2, <3>2
    <2> QED BY <2>1, <2>2
  <1>5. g \in [1..Len(b) -> 1..Len(a)]
    BY <1>4
  <1>6. ASSUME NEW i \in 1..Len(b), NEW j \in 1..Len(b), i < j PROVE g[i] < g[j]
    BY <1>1, <1>2, <1>6
  <1> HIDE DEF g
  <1> QED BY <1>4, <1>5, <1>6 DEF Embeds, a, b

\* An element is at the same place or further on in the list that has it.
LEMMA EmbedsFurther ==
    ASSUME NEW n \in Nat, NEW m \in Nat, NEW f \in [1..n -> 1..m],
           \A i, j \in 1..n : i < j => f[i] < f[j]
    PROVE  \A i \in 1..n : i <= f[i]
  <1> DEFINE Wrong == {i \in 1..n : ~(i <= f[i])}
  <1>1. ASSUME Wrong # {} PROVE FALSE
    <2>1. PICK i \in Wrong : \A j \in Wrong : i <= j
      <3>1. Wrong \in SUBSET Nat
        OBVIOUS
      <3> HIDE DEF Wrong
      <3> QED BY <1>1, <3>1, Smallest
    <2>2. i \in 1..n /\ ~(i <= f[i]) /\ \A j \in 1..n : j < i => j <= f[j]
      BY <2>1
    <2> HIDE DEF Wrong
    <2>3. CASE i = 1
      BY <2>2, <2>3
    <2>4. CASE i > 1
      <3>1. i - 1 \in 1..n /\ i - 1 <= f[i - 1] /\ f[i - 1] < f[i]
        BY <2>2, <2>4
      <3> QED BY <2>2, <3>1
    <2> QED BY <2>2, <2>3, <2>4
  <1> QED BY <1>1

\* What is cut off at the head of both leaves the rest.
LEMMA EmbedsTrim ==
    ASSUME NEW S, NEW l \in Seq(S), NEW b \in Seq(S), NEW r \in Seq(S), Embeds(l, b \o r)
    PROVE  /\ Len(b) <= Len(l)
           /\ SubSeq(l, Len(b) + 1, Len(l)) \in Seq(S)
           /\ Embeds(SubSeq(l, Len(b) + 1, Len(l)), r)
  <1> DEFINE m == b \o r
             c == SubSeq(l, Len(b) + 1, Len(l))
  <1>1. /\ Len(m) = Len(b) + Len(r) /\ Len(b) \in Nat /\ Len(r) \in Nat /\ Len(l) \in Nat
        /\ \A i \in 1..Len(r) : m[Len(b) + i] = r[i]
    BY ConcatProperties
  <1>2. PICK f \in [1..Len(m) -> 1..Len(l)] :
            /\ \A i, j \in 1..Len(m) : i < j => f[i] < f[j]
            /\ \A i \in 1..Len(m) : m[i] = l[f[i]]
    BY DEF Embeds
  <1> HIDE DEF m
  <1>3. Len(m) \in Nat /\ \A i \in 1..Len(m) : i <= f[i]
    <2>1. Len(m) \in Nat
      BY <1>1
    <2> QED BY <1>1, <1>2, <2>1, EmbedsFurther
  <1>4. Len(b) <= Len(l)
    <2>1. CASE Len(b) = 0
      BY <1>1, <2>1
    <2>2. CASE Len(b) # 0
      <3>1. Len(b) \in 1..Len(m)
        BY <1>1, <2>2
      <3>2. Len(b) <= f[Len(b)] /\ f[Len(b)] \in 1..Len(l)
        BY <1>2, <1>3, <3>1
      <3> QED BY <1>1, <3>2
    <2> QED BY <2>1, <2>2
  <1>5. /\ c \in Seq(S) /\ Len(c) = Len(l) - Len(b)
        /\ \A i \in 1..Len(l) - Len(b) : c[i] = l[Len(b) + i]
    BY <1>1, <1>4
  <1> HIDE DEF c
  <1> DEFINE g == [i \in 1..Len(r) |-> f[Len(b) + i] - Len(b)]
  <1>6. ASSUME NEW i \in 1..Len(r)
        PROVE  g[i] = f[Len(b) + i] - Len(b) /\ g[i] \in 1..Len(c) /\ r[i] = c[g[i]]
    <2>1. Len(b) + i \in 1..Len(m) /\ g[i] = f[Len(b) + i] - Len(b)
      BY <1>1
    <2> HIDE DEF g
    <2>2. f[Len(b) + i] \in 1..Len(l) /\ Len(b) + i <= f[Len(b) + i]
      BY <1>2, <1>3, <2>1
    <2>3. g[i] \in 1..Len(l) - Len(b) /\ Len(b) + g[i] = f[Len(b) + i]
      BY <1>1, <2>1, <2>2
    <2>4. c[g[i]] = l[f[Len(b) + i]] /\ l[f[Len(b) + i]] = r[i]
      BY <1>1, <1>2, <1>5, <2>1, <2>3
    <2> QED BY <1>5, <2>1, <2>3, <2>4
  <1>7. g \in [1..Len(r) -> 1..Len(c)]
    BY <1>6
  <1>8. ASSUME NEW i \in 1..Len(r), NEW j \in 1..Len(r), i < j PROVE g[i] < g[j]
    <2>1. Len(b) + i \in 1..Len(m) /\ Len(b) + j \in 1..Len(m) /\ Len(b) + i < Len(b) + j
      BY <1>1, <1>8
    <2>2. f[Len(b) + i] < f[Len(b) + j] /\ f[Len(b) + i] \in Int /\ f[Len(b) + j] \in Int
      BY <1>2, <2>1
    <2>3. g[i] = f[Len(b) + i] - Len(b) /\ g[j] = f[Len(b) + j] - Len(b)
      BY <1>6
    <2> HIDE DEF g
    <2> QED BY <1>1, <2>2, <2>3
  <1> HIDE DEF g
  <1>9. Embeds(c, r)
    BY <1>6, <1>7, <1>8 DEF Embeds
  <1> QED BY <1>4, <1>5, <1>9 DEF c

\* A list that is cut off at its head is in the list.
LEMMA EmbedsCut ==
    ASSUME NEW S, NEW l \in Seq(S), NEW k \in 0..Len(l)
    PROVE  SubSeq(l, k + 1, Len(l)) \in Seq(S) /\ Embeds(l, SubSeq(l, k + 1, Len(l)))
  <1> DEFINE c == SubSeq(l, k + 1, Len(l))
             f == [i \in 1..Len(c) |-> k + i]
  <1>1. /\ c \in Seq(S) /\ Len(c) = Len(l) - k /\ Len(l) \in Nat
        /\ \A i \in 1..Len(l) - k : c[i] = l[k + i]
    OBVIOUS
  <1> HIDE DEF c
  <1>2. f \in [1..Len(c) -> 1..Len(l)] /\ \A i \in 1..Len(c) : f[i] = k + i
    BY <1>1
  <1> HIDE DEF f
  <1>3. Embeds(l, c)
    <2>1. \A i, j \in 1..Len(c) : i < j => f[i] < f[j]
      BY <1>1, <1>2
    <2>2. \A i \in 1..Len(c) : c[i] = l[f[i]]
      BY <1>1, <1>2
    <2> QED BY <1>2, <2>1, <2>2, Zenon DEF Embeds
  <1> QED BY <1>1, <1>3 DEF c

\* Cutting the head commutes with adding at the end.
LEMMA CutConcat ==
    ASSUME NEW S, NEW l \in Seq(S), NEW w \in Seq(S), NEW k \in 0..Len(l)
    PROVE  SubSeq(l \o w, k + 1, Len(l \o w)) = SubSeq(l, k + 1, Len(l)) \o w
  <1> DEFINE m == l \o w
             a == SubSeq(m, k + 1, Len(m))
             c == SubSeq(l, k + 1, Len(l))
             b == c \o w
  <1>1. /\ m \in Seq(S) /\ Len(m) = Len(l) + Len(w) /\ Len(l) \in Nat /\ Len(w) \in Nat
        /\ \A i \in 1..Len(m) : m[i] = IF i <= Len(l) THEN l[i] ELSE w[i - Len(l)]
    BY ConcatProperties
  <1>2. /\ c \in Seq(S) /\ Len(c) = Len(l) - k /\ \A i \in 1..Len(l) - k : c[i] = l[k + i]
    OBVIOUS
  <1> HIDE DEF m, c
  <1>3. /\ a \in Seq(S) /\ Len(a) = Len(m) - k /\ \A i \in 1..Len(m) - k : a[i] = m[k + i]
    BY <1>1
  <1>4. /\ b \in Seq(S) /\ Len(b) = Len(c) + Len(w)
        /\ \A i \in 1..Len(b) : b[i] = IF i <= Len(c) THEN c[i] ELSE w[i - Len(c)]
    BY <1>2, ConcatProperties
  <1> HIDE DEF a, b
  <1>5. Len(a) = Len(b)
    BY <1>1, <1>2, <1>3, <1>4
  <1>6. ASSUME NEW i \in 1..Len(a) PROVE a[i] = b[i]
    <2>1. k + i \in 1..Len(m) /\ a[i] = m[k + i] /\ i \in 1..Len(b)
      BY <1>1, <1>3, <1>5
    <2>2. CASE i <= Len(c)
      <3>1. k + i <= Len(l) /\ i \in 1..Len(l) - k
        BY <1>2, <2>2
      <3> QED BY <1>1, <1>2, <1>4, <2>1, <2>2, <3>1
    <2>3. CASE ~(i <= Len(c))
      <3>1. ~(k + i <= Len(l)) /\ k + i - Len(l) = i - Len(c)
        BY <1>1, <1>2, <2>1, <2>3
      <3>2. m[k + i] = w[k + i - Len(l)]
        BY <1>1, <2>1, <3>1
      <3>3. b[i] = w[i - Len(c)]
        BY <1>4, <2>1, <2>3
      <3> QED BY <2>1, <3>1, <3>2, <3>3
    <2> QED BY <2>2, <2>3
  <1>7. a = b
    BY <1>3, <1>4, <1>5, <1>6, SeqEqual
  <1> QED BY <1>7 DEF a, b, m, c

\* Listing all of 1..n in order gives each number its own place.
LEMMA OrderedAll ==
    ASSUME NEW n \in Nat, NEW p \in Ordered(1..n)
    PROVE  p \in [1..n -> 1..n] /\ \A i \in 1..n : p[i] = i
  <1>1. Cardinality(1..n) = n
    BY FS_Interval
  <1>2. /\ p \in [1..n -> 1..n] /\ Range(p) = 1..n
        /\ \A i, j \in 1..n : i < j => p[i] < p[j]
    BY <1>1 DEF Ordered
  <1> DEFINE Wrong == {i \in 1..n : p[i] # i}
  <1>3. ASSUME Wrong # {} PROVE FALSE
    <2>1. PICK i \in Wrong : \A j \in Wrong : i <= j
      <3>1. Wrong \in SUBSET Nat
        OBVIOUS
      <3> HIDE DEF Wrong
      <3> QED BY <1>3, <3>1, Smallest
    <2>2. i \in 1..n /\ p[i] # i /\ \A j \in 1..n : j < i => p[j] = j
      BY <2>1
    <2> HIDE DEF Wrong
    <2>3. p[i] > i
      <3>1. CASE i = 1
        BY <1>2, <2>2, <3>1
      <3>2. CASE i > 1
        <4>1. i - 1 \in 1..n /\ p[i - 1] = i - 1 /\ p[i - 1] < p[i]
          BY <1>2, <2>2, <3>2
        <4> QED BY <1>2, <2>2, <4>1
      <3> QED BY <2>2, <3>1, <3>2
    <2>4. PICK k \in 1..n : p[k] = i
      <3>1. i \in Range(p) /\ DOMAIN p = 1..n
        BY <1>2, <2>2
      <3> QED BY <3>1 DEF Range
    <2> QED BY <1>2, <2>2, <2>3, <2>4
  <1> QED BY <1>2, <1>3

-----------------------------------------------------------------------------
\* Types

\* A batch is the head of its queue.
LEMMA BatchFacts ==
    ASSUME NEW queue \in Seq(Events)
    PROVE  \E k \in 0..Len(queue) : BatchOf(queue) = SubSeq(queue, 1, k)
  <1> DEFINE longest == IF Len(queue) < BatchSize THEN Len(queue) ELSE BatchSize
             same == {k \in 1..longest : \A i \in 1..k : queue[i].hook = queue[1].hook}
  <1>1. longest \in Nat /\ longest <= Len(queue)
    OBVIOUS
  <1>2. IsFiniteSet(1..longest) /\ Cardinality(1..longest) = longest
    <2> HIDE DEF longest
    <2> QED BY <1>1, FS_Interval
  <1>3. same \in SUBSET (1..longest)
    OBVIOUS
  <1>4. BatchOf(queue) = SubSeq(queue, 1, Cardinality(same))
    BY DEF BatchOf
  <1> HIDE DEF same, longest
  <1>5. IsFiniteSet(same) /\ Cardinality(same) <= longest
    BY <1>2, <1>3, FS_Subset
  <1>6. Cardinality(same) \in Nat
    BY <1>5, FS_CardinalityType
  <1> QED BY <1>1, <1>4, <1>5, <1>6

\* The events in memory that a clearing leaves.
Others(hooks) == {e \in ToSet(memory) : e.hook \notin hooks}

\* What a clearing leaves: the events of other webhooks, in their order; all of
\* the queue, if it removes nothing.
LEMMA KeptFacts ==
    ASSUME memory \in Seq(Events), NEW hooks, NEW place \in Ordered(Staying(hooks)),
           NEW kept, kept = [i \in DOMAIN place |-> memory[place[i]]]
    PROVE  /\ kept \in Seq(Events)
           /\ ToSet(kept) = Others(hooks)
           /\ Embeds(memory, kept)
           /\ Len(kept) <= Len(memory)
           /\ ~(Len(kept) < Len(memory)) => kept = memory
  <1> DEFINE S == Staying(hooks)
             n == Cardinality(S)
  <1>1. Len(memory) \in Nat /\ DOMAIN memory = 1..Len(memory) /\ S \in SUBSET (1..Len(memory))
    BY DEF Staying
  <1>2. IsFiniteSet(1..Len(memory)) /\ Cardinality(1..Len(memory)) = Len(memory)
    BY <1>1, FS_Interval
  <1>3. /\ place \in [1..n -> S] /\ Range(place) = S
        /\ \A i, j \in DOMAIN place : i < j => place[i] < place[j]
    BY DEF Ordered
  <1>4. \A i \in S : memory[i].hook \notin hooks
    BY DEF Staying
  <1>5. \A i \in 1..Len(memory) : memory[i].hook \notin hooks => i \in S
    BY <1>1 DEF Staying
  <1>6. place \in Ordered(S)
    OBVIOUS
  <1> HIDE DEF S
  <1>7. IsFiniteSet(S) /\ n <= Len(memory) /\ (n = Len(memory) => S = 1..Len(memory))
    BY <1>1, <1>2, FS_Subset
  <1>8. n \in Nat
    BY <1>7, FS_CardinalityType
  <1> HIDE DEF n
  <1>9. kept \in Seq(Events) /\ Len(kept) = n /\ DOMAIN kept = 1..n
        /\ \A i \in 1..n : kept[i] = memory[place[i]]
    <2>1. DOMAIN place = 1..n /\ \A i \in 1..n : place[i] \in 1..Len(memory)
      BY <1>1, <1>3
    <2>2. \A i \in 1..n : memory[place[i]] \in Events
      BY <2>1
    <2>3. kept = [i \in 1..n |-> memory[place[i]]]
      BY <2>1
    <2>4. kept \in [1..n -> Events] /\ \A i \in 1..n : kept[i] = memory[place[i]]
      BY <2>2, <2>3
    <2> QED BY <1>8, <2>4
  <1>10. ToSet(kept) = Others(hooks)
    <2>1. ASSUME NEW e \in ToSet(kept) PROVE e \in ToSet(memory) /\ e.hook \notin hooks
      BY <1>1, <1>3, <1>4, <1>9 DEF ToSet
    <2>2. ASSUME NEW e \in ToSet(memory), e.hook \notin hooks PROVE e \in ToSet(kept)
      <3>1. PICK i \in S : e = memory[i]
        BY <1>1, <1>5, <2>2 DEF ToSet
      <3>2. PICK k \in 1..n : place[k] = i
        BY <1>3, <3>1 DEF Range
      <3> QED BY <1>9, <3>1, <3>2 DEF ToSet
    <2> QED BY <2>1, <2>2 DEF Others
  <1>11. Embeds(memory, kept)
    <2>1. place \in [1..Len(kept) -> 1..Len(memory)] /\ DOMAIN place = 1..Len(kept)
      BY <1>1, <1>3, <1>9
    <2> QED BY <1>3, <1>9, <2>1 DEF Embeds
  <1>12. ASSUME ~(n < Len(memory)) PROVE kept = memory
    <2>1. n = Len(memory) /\ S = 1..Len(memory)
      <3>1. n = Len(memory)
        <4>1. n \in Nat /\ Len(memory) \in Nat /\ n <= Len(memory)
          BY <1>1, <1>7, <1>8
        <4> QED BY <1>12, <4>1
      <3> QED BY <1>7, <3>1
    <2>2. \A i \in 1..Len(memory) : place[i] = i
      BY <1>1, <1>6, <2>1, OrderedAll
    <2>3. \A i \in 1..Len(memory) : kept[i] = memory[i]
      BY <1>9, <2>1, <2>2
    <2> QED BY <1>1, <1>9, <2>1, <2>3
  <1> QED BY <1>1, <1>7, <1>8, <1>9, <1>10, <1>11, <1>12

LEMMA InitTypeOK == Init => TypeOK
  <1>1. <<>> \in Seq(Events) /\ 0 \in 0..MaxEvents
    OBVIOUS
  <1> QED BY <1>1 DEF Init, TypeOK

\* The events of a call have the numbers that follow, in their order.
LEMMA NewEventsFacts ==
    ASSUME TypeOK, NEW hooks \in Calls, accepted + Len(hooks) <= MaxEvents
    PROVE  /\ Len(hooks) \in Nat /\ accepted + Len(hooks) \in 0..MaxEvents
           /\ NewEvents(hooks) \in Seq(Events) /\ Len(NewEvents(hooks)) = Len(hooks)
           /\ \A i \in 1..Len(hooks) : NewEvents(hooks)[i].n = accepted + i
           /\ \A e \in ToSet(NewEvents(hooks)) : e.n \in accepted + 1..accepted + Len(hooks)
           /\ accepted + 1..accepted + Len(hooks) \subseteq Numbers(ToSet(NewEvents(hooks)))
  <1>1. PICK k \in 1..MaxPerCall : hooks \in [1..k -> Hooks]
    BY DEF Calls
  <1>2. k \in Nat /\ Len(hooks) = k /\ DOMAIN hooks = 1..k /\ accepted \in Nat
    BY <1>1 DEF TypeOK
  <1> DEFINE new == NewEvents(hooks)
  <1>3. new = [i \in 1..k |-> [n |-> accepted + i, hook |-> hooks[i]]]
    BY <1>2 DEF NewEvents
  <1>4. \A i \in 1..k : [n |-> accepted + i, hook |-> hooks[i]] \in Events
    BY <1>1, <1>2 DEF Events
  <1>5. /\ new \in [1..k -> Events] /\ DOMAIN new = 1..k
        /\ \A i \in 1..k : new[i].n = accepted + i
    BY <1>3, <1>4
  <1> HIDE DEF new
  <1>6. new \in Seq(Events) /\ Len(new) = k
    BY <1>2, <1>5
  <1>7. \A e \in ToSet(new) : e.n \in accepted + 1..accepted + k
    BY <1>2, <1>5 DEF ToSet
  <1>8. ASSUME NEW n \in accepted + 1..accepted + k PROVE n \in Numbers(ToSet(new))
    <2>1. n - accepted \in 1..k /\ new[n - accepted].n = n
      BY <1>2, <1>5
    <2>2. new[n - accepted] \in ToSet(new)
      BY <1>5, <2>1 DEF ToSet
    <2> QED BY <2>1, <2>2 DEF Numbers
  <1> QED BY <1>2, <1>5, <1>6, <1>7, <1>8 DEF new

LEMMA StartTypes ==
    ASSUME TypeOK, Starts, UNCHANGED <<redis, accepted, ghostVars>>
    PROVE  TypeOK'
  <1>1. <<>> \in Seq(Events)
    OBVIOUS
  <1> QED BY <1>1 DEF TypeOK, Starts, ghostVars

LEMMA LoopTypes ==
    ASSUME TypeOK, LoopActs
    PROVE  TypeOK'
  <1> USE DEF TypeOK, queueVars, loopFrame, startVars, callVars, boundVars, ghostVars, NextTurn
  <1>1. ToSet(batch) \subseteq Events
    BY Members
  <1>2. CASE LoopTakes
    <2>1. BatchOf(memory) \in Seq(Events)
      <3>1. PICK k \in 0..Len(memory) : BatchOf(memory) = SubSeq(memory, 1, k)
        BY BatchFacts
      <3> QED BY <3>1
    <2> QED BY <1>2, <2>1 DEF LoopTakes
  <1>3. CASE Sends
    BY <1>1, <1>3 DEF Sends
  <1>4. CASE GivesUp \/ LoopAborted \/ LoopFails \/ LoopEnds
    <2>1. <<>> \in Seq(Events)
      OBVIOUS
    <2> QED BY <1>4, <2>1 DEF GivesUp, LoopAborted, LoopFails, LoopEnds
  <1>5. CASE LoopRemoves
    <2>1. SubSeq(memory, Len(batch) + 1, Len(memory)) \in Seq(Events)
      OBVIOUS
    <2>2. SubSeq(memory, Len(batch) + 1, Len(memory)) \o batch \in Seq(Events)
      BY <2>1
    <2> QED BY <1>1, <1>5, <2>1, <2>2 DEF LoopRemoves
  <1>6. CASE LoopWrites
    <2>1. SubSeq(redis, Len(batch) + 1, Len(redis)) \in Seq(Events)
      OBVIOUS
    <2>2. Trimmed(redis) \in Seq(Events) /\ <<>> \in Seq(Events)
      BY <2>1 DEF Trimmed
    <2> QED BY <1>6, <2>2 DEF LoopWrites
  <1> QED BY <1>2, <1>3, <1>4, <1>5, <1>6 DEF LoopActs

LEMMA NextTypes == TypeOK /\ [Next]_vars => TypeOK'
  <1> SUFFICES ASSUME TypeOK, [Next]_vars PROVE TypeOK'
    OBVIOUS
  <1> USE DEF queueVars, loopVars, startVars, callVars, boundVars, ghostVars
  <1>1. CASE UNCHANGED vars
    BY <1>1 DEF vars, TypeOK
  <1>2. CASE LoadReads
    BY <1>2 DEF LoadReads, TypeOK
  <1>3. CASE LoadEnds
    BY <1>3 DEF LoadEnds, LoopStarts, Prepended, TypeOK
  <1>4. ASSUME NEW hooks \in Calls, EnqueueBegins(hooks) PROVE TypeOK'
    <2> DEFINE new == NewEvents(hooks)
    <2>1. new \in Seq(Events) /\ accepted' \in 0..MaxEvents
      BY <1>4, NewEventsFacts DEF EnqueueBegins
    <2>2. /\ redis' = redis \o new /\ inHand' = new /\ caller' = "pushing"
          /\ UNCHANGED <<memory, startVars, loopVars, boundVars, ghostVars>>
      BY <1>4 DEF EnqueueBegins
    <2> HIDE DEF new
    <2>3. redis' \in Seq(Events) /\ inHand' \in Seq(Events)
      BY <2>1, <2>2 DEF TypeOK
    <2> QED BY <2>1, <2>2, <2>3 DEF TypeOK
  <1>5. CASE EnqueuePushes \/ EnqueueReturns
    <2>1. <<>> \in Seq(Events) /\ Added(inHand) \in Seq(Events)
      BY DEF Added, TypeOK
    <2> QED BY <1>5, <2>1 DEF EnqueuePushes, EnqueueReturns, LoopStarts, TypeOK
  <1>9. CASE EnqueueFails
    <2>1. <<>> \in Seq(Events) /\ ToSet(inHand) \subseteq Events
      BY Members DEF TypeOK
    <2> QED BY <1>9, <2>1 DEF EnqueueFails, TypeOK
  <1>6. ASSUME NEW hooks, Clear(hooks) PROVE TypeOK'
    <2>1. PICK place \in Ordered(Staying(hooks)) :
            LET kept == [i \in DOMAIN place |-> memory[place[i]]]
            IN  /\ memory' = kept
                /\ redis' \in {kept, redis}
                /\ aborted' \in BOOLEAN
                /\ discarded' = discarded \cup {e \in ToSet(memory) : e.hook \in hooks}
                /\ UNCHANGED <<startVars, callVars, loop, batch, success, writeBack, delivered,
                               postponed>>
      BY <1>6 DEF Clear, Replaces, LoopAborts
    <2>2. [i \in DOMAIN place |-> memory[place[i]]] \in Seq(Events)
      BY KeptFacts DEF TypeOK
    <2>3. ToSet(memory) \subseteq Events
      BY Members DEF TypeOK
    <2>4. memory' \in Seq(Events) /\ redis' \in Seq(Events)
      BY <2>1, <2>2 DEF TypeOK
    <2>5. discarded' \subseteq Events
      BY <2>1, <2>3 DEF TypeOK
    <2> QED BY <2>1, <2>4, <2>5 DEF TypeOK
  <1>7. CASE Shutdown
    BY <1>7 DEF Shutdown, LoopAborts, TypeOK
  <1>8. CASE Restart \/ Crash
    BY <1>8, StartTypes DEF Restart, Crash
  <1> QED
    BY <1>1, <1>2, <1>3, <1>4, <1>5, <1>6, <1>7, <1>8, <1>9, LoopTypes DEF Next, Clears

\* Every variable keeps its type, whatever races.
THEOREM TypeCorrect == Spec => []TypeOK
  BY InitTypeOK, NextTypes, PTL DEF Spec

-----------------------------------------------------------------------------
\* Before the copy is loaded, and at the head of the queue

\* Until the copy has been loaded nothing else happens, and what was read of it
\* is what it is.
Loading ==
    /\ loading # "done" => /\ memory = <<>> /\ inHand = <<>>
                           /\ caller = "idle" /\ loop = "off"
    /\ loaded = IF loading = "read" THEN redis ELSE <<>>

\* The local variables of a caller and of the loop are empty when not in use.
AtRest ==
    /\ caller # "pushing" => inHand = <<>>
    /\ loop # "recording" => writeBack = <<>>

\* While nobody has cleared the queue, the batch is its head; a batch that
\* was sent has been delivered.
BatchRight ==
    /\ loop \in {"sending", "answered"} /\ ~aborted =>
          \E k \in 0..Len(memory) : batch = SubSeq(memory, 1, k)
    /\ loop = "answered" /\ success => ToSet(batch) \subseteq delivered

BaseInv == TypeOK /\ Loading /\ AtRest /\ BatchRight

LEMMA NoEvents ==
    ASSUME NEW q \in Seq(Events)
    PROVE  q \o <<>> = q /\ <<>> \o q = q /\ <<>> \in Seq(Events)
  BY ConcatEmptySeq

\* A batch is the head of its queue, and stays so while events are added to it.
LEMMA NextBatch ==
    ASSUME BaseInv, Loading', [Next]_vars
    PROVE  BatchRight'
  <1> USE DEF BaseInv, queueVars, loopFrame, startVars, callVars, loopVars, boundVars, ghostVars
  <1>1. memory \in Seq(Events) /\ inHand \in Seq(Events)
    BY DEF TypeOK
  <1>2. CASE EnqueuePushes
    <2>1. memory' = memory \o inHand /\ Len(memory') = Len(memory) + Len(inHand)
      BY <1>1, <1>2 DEF EnqueuePushes, Added
    <2>2. ASSUME NEW k \in 0..Len(memory), batch = SubSeq(memory, 1, k)
          PROVE  k \in 0..Len(memory') /\ batch = SubSeq(memory', 1, k)
      <3>1. CASE k = 0
        BY <1>1, <2>1, <2>2, <3>1, SubSeqEmpty
      <3>2. CASE k \in 1..Len(memory)
        BY <1>1, <2>1, <2>2, <3>2, SubSeqOfConcat1
      <3> QED BY <1>1, <3>1, <3>2
    <2>3. loop' = loop \/ (loop = "off" /\ loop' = "top")
      BY <1>2 DEF EnqueuePushes, LoopStarts
    <2> QED BY <1>2, <2>2, <2>3 DEF EnqueuePushes, BatchRight
  <1>3. CASE LoopTakes
    BY <1>1, <1>3, BatchFacts DEF LoopTakes, BatchRight
  <1>4. CASE LoadEnds
    <2>1. loop' \in {"off", "top"}
      BY <1>4 DEF LoadEnds, LoopStarts, Loading
    <2> QED BY <2>1 DEF BatchRight
  <1>5. CASE Sends \/ GivesUp \/ LoopAborted \/ LoopRemoves \/ LoopWrites \/ LoopFails \/ LoopEnds
    BY <1>5 DEF Sends, GivesUp, LoopAborted, LoopRemoves, LoopWrites, LoopFails, LoopEnds,
       NextTurn, BatchRight
  <1>6. ASSUME NEW hooks, Clear(hooks) PROVE BatchRight'
    <2>1. /\ aborted' <=> loop \in {"sending", "answered"}
          /\ UNCHANGED <<loop, batch, success, delivered>>
      BY <1>6 DEF Clear, LoopAborts
    <2> QED BY <2>1 DEF BatchRight
  <1>7. CASE Restart \/ Crash
    BY <1>7 DEF Restart, Crash, Starts, BatchRight
  <1>8. CASE Shutdown
    BY <1>8 DEF Shutdown, LoopAborts, BatchRight
  <1>9. CASE \/ LoadReads \/ EnqueueReturns \/ EnqueueFails \/ UNCHANGED vars
             \/ \E hooks \in Calls : EnqueueBegins(hooks)
    <2>1. UNCHANGED <<memory, loop, batch, aborted, success, delivered>>
      BY <1>9 DEF LoadReads, EnqueueReturns, EnqueueFails, EnqueueBegins, vars
    <2> QED BY <2>1 DEF BatchRight
  <1> QED BY <1>2, <1>3, <1>4, <1>5, <1>6, <1>7, <1>8, <1>9 DEF Next, LoopActs, Clears

LEMMA NextBase ==
    ASSUME "load" \notin Races, BaseInv, [Next]_vars
    PROVE  BaseInv'
  <1> USE DEF BaseInv, queueVars, loopFrame, startVars, callVars, loopVars, boundVars, ghostVars
  <1>1. TypeOK'
    BY NextTypes
  <1>2. Loading' /\ AtRest'
    <2>1. CASE LoadReads \/ LoadEnds
      BY <2>1 DEF LoadReads, LoadEnds, Loading, AtRest, LoopStarts
    <2>2. ASSUME NEW hooks \in Calls, EnqueueBegins(hooks) PROVE Loading' /\ AtRest'
      BY <2>2 DEF EnqueueBegins, Loading, AtRest
    <2>3. CASE EnqueuePushes \/ EnqueueReturns \/ EnqueueFails \/ Shutdown
      BY <2>3 DEF EnqueuePushes, EnqueueReturns, EnqueueFails, Shutdown, LoopStarts, Loading,
         AtRest
    <2>4. CASE LoopTakes \/ Sends \/ GivesUp \/ LoopAborted \/ LoopEnds
      BY <2>4 DEF LoopTakes, Sends, GivesUp, LoopAborted, LoopEnds, NextTurn, Loading, AtRest
    <2>5. CASE LoopRemoves \/ LoopWrites \/ LoopFails
      BY <2>5 DEF LoopRemoves, LoopWrites, LoopFails, NextTurn, Loading, AtRest
    <2>6. ASSUME NEW hooks, Clear(hooks) PROVE Loading' /\ AtRest'
      BY <2>6 DEF Clear, Loading, AtRest
    <2>7. CASE Restart \/ Crash
      BY <2>7 DEF Restart, Crash, Starts, Loading, AtRest
    <2>8. CASE UNCHANGED vars
      BY <2>8 DEF vars, Loading, AtRest
    <2> QED BY <2>1, <2>2, <2>3, <2>4, <2>5, <2>6, <2>7, <2>8 DEF Next, LoopActs, Clears
  <1> QED BY <1>1, <1>2, NextBatch

\* Nothing happens before the copy is loaded; a batch is taken from the head.
LEMMA BaseHolds == ASSUME "load" \notin Races PROVE Spec => []BaseInv
  <1>1. Init => BaseInv
    BY InitTypeOK DEF Init, BaseInv, Loading, AtRest, BatchRight
  <1> QED BY <1>1, NextBase, PTL DEF Spec

-----------------------------------------------------------------------------
\* The copy has what is in memory

\* The copy has, in its order, what is in memory and on its way there; while the
\* loop is recording, it will have it once the MULTI has run.
Mirrored ==
    loading = "done" =>
        /\ loop # "recording" => Embeds(redis, memory \o inHand)
        /\ loop = "recording" =>
              /\ Len(batch) <= Len(redis)
              /\ Embeds(Trimmed(redis), memory \o inHand)
              /\ ToSet(batch) \subseteq delivered \cup discarded \cup postponed
              /\ ToSet(writeBack) \subseteq ToSet(redis) \cap postponed

MirrorInv == BaseInv /\ Mirrored

LEMMA LoadMirror ==
    ASSUME MirrorInv, LoadReads \/ LoadEnds
    PROVE  Mirrored'
  <1> USE DEF MirrorInv, BaseInv, queueVars, startVars, callVars, loopVars, boundVars, ghostVars
  <1>1. CASE LoadReads
    BY <1>1 DEF LoadReads, Mirrored
  <1>2. CASE LoadEnds
    <2>1. memory = <<>> /\ inHand = <<>> /\ loaded = redis /\ loop = "off"
      BY <1>2 DEF LoadEnds, Loading
    <2>2. memory' = redis /\ redis' = redis /\ inHand' = <<>> /\ redis \in Seq(Events)
      BY <1>2, <2>1, NoEvents DEF LoadEnds, Prepended, TypeOK
    <2>3. memory' \o inHand' = redis
      BY <2>2, NoEvents
    <2>4. Embeds(redis', memory' \o inHand')
      BY <2>2, <2>3, EmbedsSelf
    <2>5. loading' = "done" /\ loop' \in {"off", "top"}
      BY <1>2, <2>1 DEF LoadEnds, LoopStarts
    <2> QED BY <2>4, <2>5 DEF Mirrored
  <1> QED BY <1>1, <1>2

LEMMA EnqueueMirror ==
    ASSUME MirrorInv, Races = {},
           \/ (\E hooks \in Calls : EnqueueBegins(hooks)) \/ EnqueuePushes
           \/ EnqueueFails \/ EnqueueReturns
    PROVE  Mirrored'
  <1> USE DEF MirrorInv, BaseInv, queueVars, startVars, callVars, loopVars, boundVars, ghostVars
  <1>1. ASSUME NEW hooks \in Calls, EnqueueBegins(hooks) PROVE Mirrored'
    <2> DEFINE new == NewEvents(hooks)
    <2>1. new \in Seq(Events)
      BY <1>1, NewEventsFacts DEF EnqueueBegins
    <2>2. /\ caller = "idle" /\ inHand = <<>> /\ loading = "done"
          /\ loop # "recording" \/ writeBack = <<>>
          /\ redis' = redis \o new /\ inHand' = new /\ caller' = "pushing"
          /\ UNCHANGED <<memory, startVars, loopVars, boundVars, ghostVars>>
      BY <1>1 DEF EnqueueBegins, AtRest
    <2> HIDE DEF new
    <2>3. /\ memory \in Seq(Events) /\ redis \in Seq(Events) /\ batch \in Seq(Events)
          /\ memory \o inHand = memory
      BY <2>1, <2>2, NoEvents DEF TypeOK
    <2>5. ASSUME loop # "recording" PROVE Embeds(redis', memory' \o inHand')
      <3>1. Embeds(redis, memory)
        BY <2>2, <2>3, <2>5 DEF Mirrored
      <3>2. Embeds(redis \o new, memory \o new)
        BY <2>1, <2>3, <3>1, EmbedsConcat
      <3> QED BY <2>2, <3>2
    <2>6. ASSUME loop = "recording"
          PROVE  /\ Len(batch) <= Len(redis')
                 /\ Embeds(Trimmed(redis)', memory' \o inHand')
      <3> DEFINE cut == SubSeq(redis, Len(batch) + 1, Len(redis))
      <3>1. writeBack = <<>> /\ Len(batch) <= Len(redis) /\ Embeds(Trimmed(redis), memory)
        BY <2>2, <2>3, <2>6 DEF Mirrored
      <3>2. /\ Len(redis') = Len(redis) + Len(new) /\ Len(redis) \in Nat /\ Len(batch) \in Nat
            /\ Len(new) \in Nat
        BY <2>1, <2>2, <2>3
      <3>3. cut \in Seq(Events)
        BY <2>3
      <3>4. Trimmed(redis) = cut
        BY <3>1, <3>3, NoEvents DEF Trimmed
      <3>5. SubSeq(redis', Len(batch) + 1, Len(redis')) = cut \o new
        <4>1. Len(batch) \in 0..Len(redis)
          BY <3>1, <3>2
        <4> QED BY <2>1, <2>2, <2>3, <4>1, CutConcat
      <3>6. Trimmed(redis)' = cut \o new
        <4>1. cut \o new \in Seq(Events)
          BY <2>1, <2>3, <3>3
        <4> QED BY <2>2, <3>1, <3>5, <4>1, NoEvents DEF Trimmed
      <3> HIDE DEF cut
      <3>7. Embeds(cut \o new, memory \o new)
        BY <2>1, <2>3, <3>1, <3>3, <3>4, EmbedsConcat
      <3> QED BY <2>2, <3>1, <3>2, <3>6, <3>7
    <2>7. ToSet(redis) \subseteq ToSet(redis')
      BY <2>1, <2>2, <2>3, Members
    <2> QED BY <2>2, <2>5, <2>6, <2>7 DEF Mirrored
  <1>2. CASE EnqueuePushes
    <2>1. memory' = memory \o inHand /\ inHand' = <<>> /\ memory' \in Seq(Events)
      BY <1>2 DEF EnqueuePushes, Added, TypeOK
    <2>2. memory' \o inHand' = memory \o inHand
      BY <2>1, NoEvents
    <2>3. loop' = loop \/ (loop = "off" /\ loop' = "top")
      BY <1>2 DEF EnqueuePushes, LoopStarts
    <2> QED BY <1>2, <2>2, <2>3 DEF EnqueuePushes, Mirrored, Trimmed
  <1>3. CASE EnqueueReturns
    BY <1>3 DEF EnqueueReturns, Mirrored, Trimmed
  <1>4. CASE EnqueueFails
    <2>1. /\ memory \in Seq(Events) /\ inHand \in Seq(Events) /\ redis \in Seq(Events)
          /\ inHand' = <<>> /\ discarded \subseteq discarded'
          /\ UNCHANGED <<memory, redis, loading, loop, batch, writeBack, delivered, postponed>>
      BY <1>4 DEF EnqueueFails, TypeOK
    <2>2. memory' \o inHand' = memory
      BY <2>1, NoEvents
    <2>3. Trimmed(redis) \in Seq(Events) /\ Trimmed(redis)' = Trimmed(redis)
      <3>1. SubSeq(redis, Len(batch) + 1, Len(redis)) \in Seq(Events)
        BY <2>1 DEF TypeOK
      <3> QED BY <2>1, <3>1 DEF TypeOK, Trimmed
    <2>4. \A l \in Seq(Events) : Embeds(l, memory \o inHand) => Embeds(l, memory)
      BY <2>1, EmbedsHead
    <2> QED BY <2>1, <2>2, <2>3, <2>4 DEF Mirrored
  <1> QED BY <1>1, <1>2, <1>3, <1>4

\* What the loop is about to take off the memory: its batch, then the rest.
LEMMA BatchSplit ==
    ASSUME BaseInv, loop = "answered", ~aborted
    PROVE  LET rest == SubSeq(memory, Len(batch) + 1, Len(memory))
           IN  /\ rest \in Seq(Events) /\ batch \in Seq(Events) /\ inHand \in Seq(Events)
               /\ memory = batch \o rest
               /\ memory \o inHand = batch \o (rest \o inHand)
               /\ ToSet(batch) \cup ToSet(rest) = ToSet(memory)
  <1> DEFINE rest == SubSeq(memory, Len(batch) + 1, Len(memory))
  <1>1. PICK k \in 0..Len(memory) : batch = SubSeq(memory, 1, k)
    BY DEF BaseInv, BatchRight
  <1>2. memory \in Seq(Events) /\ inHand \in Seq(Events) /\ Len(batch) = k
    BY <1>1 DEF BaseInv, TypeOK
  <1>3. rest \in Seq(Events) /\ batch \in Seq(Events)
    BY <1>2 DEF BaseInv, TypeOK
  <1>4. memory = batch \o rest
    <2>1. SubSeq(memory, 1, k) \o SubSeq(memory, k + 1, Len(memory))
            = SubSeq(memory, 1, Len(memory))
      <3>1. 1 \in 1..Len(memory) + 1 /\ k \in 1 - 1..Len(memory) /\ Len(memory) \in k..Len(memory)
        BY <1>2
      <3> QED BY <1>2, <3>1, ConcatAdjacentSubSeq
    <2> QED BY <1>1, <1>2, <2>1, SubSeqFull
  <1>5. ToSet(batch) \cup ToSet(rest) = ToSet(memory)
    BY <1>1, <1>2, Members
  <1> HIDE DEF rest
  <1>6. memory \o inHand = batch \o (rest \o inHand)
    BY <1>2, <1>3, <1>4, ConcatAssociative
  <1> QED BY <1>2, <1>3, <1>4, <1>5, <1>6 DEF rest

LEMMA LoopRemovesMirror ==
    ASSUME MirrorInv, Races = {}, LoopRemoves
    PROVE  Mirrored'
  <1> DEFINE rest == SubSeq(memory, Len(batch) + 1, Len(memory))
             cut == SubSeq(redis, Len(batch) + 1, Len(redis))
  <1>1. loop = "answered" /\ ~aborted
    BY DEF LoopRemoves, GoesOn
  <1>2. /\ rest \in Seq(Events) /\ batch \in Seq(Events) /\ inHand \in Seq(Events)
        /\ memory \o inHand = batch \o (rest \o inHand)
        /\ ToSet(batch) \cup ToSet(rest) = ToSet(memory)
    BY <1>1, BatchSplit DEF MirrorInv
  <1>3. /\ redis \in Seq(Events) /\ memory \in Seq(Events)
        /\ Embeds(redis, memory \o inHand)
    BY <1>1 DEF MirrorInv, BaseInv, TypeOK, Loading, Mirrored
  <1>4. ToSet(memory) \subseteq ToSet(redis)
    <2> DEFINE queue == memory \o inHand
    <2>1. queue \in Seq(Events)
      BY <1>2, <1>3
    <2>2. ToSet(queue) = ToSet(memory) \cup ToSet(inHand)
      <3>1. memory \in Seq(Events) /\ inHand \in Seq(Events)
        BY <1>2, <1>3
      <3> HIDE DEF rest
      <3> QED BY <3>1, Members
    <2> HIDE DEF queue
    <2>3. ToSet(queue) \subseteq ToSet(redis)
      BY <1>3, <2>1, EmbedsMembers DEF queue
    <2> QED BY <2>2, <2>3
  <1>5. /\ loop' = "recording" /\ loading' = "done" /\ loading = "done"
        /\ writeBack' = IF PutBack(rest) THEN batch ELSE <<>>
        /\ memory' = IF PutBack(rest) THEN rest \o batch ELSE rest
        /\ postponed' = IF PutBack(rest) THEN postponed \cup ToSet(batch) ELSE postponed
        /\ discarded' = IF ~success /\ Draining(rest) THEN discarded \cup ToSet(batch)
                        ELSE discarded
        /\ UNCHANGED <<redis, loaded, inHand, caller, batch, delivered>>
    BY <1>1 DEF LoopRemoves, MirrorInv, BaseInv, Loading, loopFrame, startVars, callVars
  <1>6. PutBack(rest) => inHand = <<>>
    BY DEF LoopRemoves, MirrorInv, BaseInv, AtRest
  <1>7. ToSet(batch) \subseteq delivered \cup discarded' \cup postponed'
    BY <1>1, <1>5 DEF MirrorInv, BaseInv, BatchRight, PutBack
  <1>8. rest \o inHand \in Seq(Events)
    BY <1>2
  <1> HIDE DEF rest
  <1>9. Len(batch) <= Len(redis) /\ cut \in Seq(Events) /\ Embeds(cut, rest \o inHand)
    BY <1>2, <1>3, <1>8, EmbedsTrim
  <1>10. Trimmed(redis)' = cut \o writeBack'
    BY <1>5 DEF Trimmed
  <1> HIDE DEF cut
  <1>11. Embeds(Trimmed(redis)', memory' \o inHand')
    <2>1. CASE PutBack(rest)
      <3>1. Embeds(cut, rest)
        BY <1>2, <1>6, <1>9, <2>1, NoEvents
      <3>2. Embeds(cut \o batch, rest \o batch)
        BY <1>2, <1>9, <3>1, EmbedsConcat
      <3>3. memory' \o inHand' = rest \o batch
        <4>1. rest \o batch \in Seq(Events)
          BY <1>2
        <4> QED BY <1>5, <1>6, <2>1, <4>1, NoEvents
      <3> QED BY <1>5, <1>10, <2>1, <3>2, <3>3
    <2>2. CASE ~PutBack(rest)
      BY <1>5, <1>9, <1>10, <2>2, NoEvents
    <2> QED BY <2>1, <2>2
  <1>12. ToSet(writeBack') \subseteq ToSet(redis') \cap postponed'
    <2>1. ToSet(<<>>) = {}
      BY <1>2, Members
    <2> QED BY <1>2, <1>4, <1>5, <2>1
  <1> QED BY <1>5, <1>7, <1>9, <1>11, <1>12 DEF Mirrored

LEMMA LoopMirror ==
    ASSUME MirrorInv, Races = {}, LoopActs
    PROVE  Mirrored'
  <1> USE DEF MirrorInv, BaseInv, queueVars, loopFrame, startVars, callVars, boundVars, ghostVars
  <1>1. memory \in Seq(Events) /\ redis \in Seq(Events) /\ batch \in Seq(Events)
        /\ inHand \in Seq(Events)
    BY DEF TypeOK
  <1>2. CASE LoopTakes
    BY <1>2 DEF LoopTakes, Mirrored
  <1>3. CASE Sends \/ GivesUp \/ LoopAborted
    BY <1>3 DEF Sends, GivesUp, LoopAborted, NextTurn, Mirrored
  <1>4. CASE LoopWrites
    BY <1>4 DEF LoopWrites, NextTurn, AtRest, Mirrored
  <1>5. CASE LoopFails
    <2> DEFINE cut == SubSeq(redis, Len(batch) + 1, Len(redis))
    <2>1. writeBack = <<>> /\ loading = "done" /\ loop = "recording"
      BY <1>5 DEF LoopFails, Loading
    <2>2. cut \in Seq(Events) /\ memory \o inHand \in Seq(Events) /\ Len(batch) \in 0..Len(redis)
      BY <1>1, <2>1 DEF Mirrored
    <2>3. Embeds(cut, memory \o inHand)
      BY <2>1, <2>2, NoEvents DEF Mirrored, Trimmed
    <2>4. Embeds(redis, cut)
      BY <1>1, <2>2, EmbedsCut
    <2> HIDE DEF cut
    <2>5. Embeds(redis, memory \o inHand)
      BY <1>1, <2>2, <2>3, <2>4, EmbedsPart
    <2> QED BY <1>5, <2>5 DEF LoopFails, NextTurn, Mirrored
  <1>6. CASE LoopEnds
    BY <1>6 DEF LoopEnds, Mirrored
  <1> QED BY <1>2, <1>3, <1>4, <1>5, <1>6, LoopRemovesMirror DEF LoopActs

\* After a clearing between the two writes of nobody else the copy has what is in
\* memory, be it replaced or not.
LEMMA ClearMirror ==
    ASSUME MirrorInv, Races = {}, NEW hooks, Clear(hooks)
    PROVE  Mirrored'
  <1>1. PICK place \in Ordered(Staying(hooks)) :
          LET kept == [i \in DOMAIN place |-> memory[place[i]]]
          IN  /\ loading = "done" /\ loop # "recording" /\ caller # "pushing"
              /\ memory' = kept
              /\ redis' \in {kept, redis}
              /\ UNCHANGED <<startVars, callVars, loop>>
    BY DEF Clear, Replaces
  <1>2. PICK kept : kept = [i \in DOMAIN place |-> memory[place[i]]]
    OBVIOUS
  <1>3. memory \in Seq(Events) /\ redis \in Seq(Events)
    BY DEF MirrorInv, BaseInv, TypeOK
  <1>4. kept \in Seq(Events) /\ Embeds(memory, kept)
    BY <1>2, <1>3, KeptFacts
  <1>5. memory' = kept /\ redis' \in {kept, redis}
    BY <1>1, <1>2
  <1>6. inHand = <<>> /\ inHand' = <<>>
    BY <1>1 DEF MirrorInv, BaseInv, AtRest, callVars
  <1>7. memory \o inHand = memory /\ memory' \o inHand' = kept
    BY <1>3, <1>4, <1>5, <1>6, NoEvents
  <1>8. Embeds(redis, memory)
    BY <1>1, <1>7 DEF MirrorInv, Mirrored
  <1>9. Embeds(redis, kept) /\ Embeds(kept, kept)
    BY <1>3, <1>4, <1>8, EmbedsPart, EmbedsSelf
  <1> QED
    BY <1>1, <1>5, <1>7, <1>9 DEF Mirrored, startVars, callVars

LEMMA StartMirror ==
    ASSUME MirrorInv, Starts
    PROVE  Mirrored'
  BY DEF Starts, Mirrored

\* The copy has, in its order, what is in memory or on its way there, between the
\* steps of callers, the loop and users.
THEOREM Mirroring ==
    ASSUME Races = {} PROVE Spec => []MirrorInv
  <1>1. Init => Mirrored
    BY DEF Init, Mirrored
  <1>2. MirrorInv /\ [Next]_vars => Mirrored'
    <2>1. CASE UNCHANGED vars
      BY <2>1 DEF vars, queueVars, startVars, callVars, loopVars, ghostVars, MirrorInv,
         Mirrored, Trimmed
    <2>2. CASE Shutdown
      BY <2>2 DEF Shutdown, LoopAborts, queueVars, callVars, ghostVars, MirrorInv, Mirrored,
         Trimmed
    <2> QED
      BY <2>1, <2>2, LoadMirror, EnqueueMirror, LoopMirror, ClearMirror, StartMirror
         DEF Next, Clears, Restart, Crash
  <1>3. Spec => []BaseInv
    BY BaseHolds
  <1>4. MirrorInv <=> BaseInv /\ Mirrored
    BY DEF MirrorInv
  <1> QED BY <1>1, <1>2, <1>3, <1>4, PTL DEF Spec

-----------------------------------------------------------------------------
\* No event is lost

\* What is in memory, or on its way there, is in the copy.
MemoryIsCopied ==
    MirrorInv /\ loading = "done"
        => ToSet(memory) \cup ToSet(inHand) \subseteq ToSet(redis)

LEMMA MemoryCopied == MemoryIsCopied
  <1> SUFFICES ASSUME MirrorInv, loading = "done"
               PROVE  ToSet(memory) \cup ToSet(inHand) \subseteq ToSet(redis)
    BY DEF MemoryIsCopied
  <1>1. /\ memory \in Seq(Events) /\ redis \in Seq(Events) /\ inHand \in Seq(Events)
        /\ memory \o inHand \in Seq(Events) /\ batch \in Seq(Events) /\ writeBack \in Seq(Events)
    BY DEF MirrorInv, BaseInv, TypeOK
  <1>2. ToSet(memory \o inHand) = ToSet(memory) \cup ToSet(inHand)
    BY <1>1, Members
  <1>3. CASE loop # "recording"
    BY <1>1, <1>2, <1>3, EmbedsMembers DEF MirrorInv, BaseInv, Mirrored
  <1>4. CASE loop = "recording"
    <2> DEFINE cut == SubSeq(redis, Len(batch) + 1, Len(redis))
    <2>1. /\ Len(batch) \in 0..Len(redis) /\ cut \in Seq(Events)
          /\ Embeds(cut \o writeBack, memory \o inHand)
          /\ ToSet(writeBack) \subseteq ToSet(redis)
      BY <1>1, <1>4 DEF MirrorInv, BaseInv, Mirrored, Trimmed
    <2>2. ToSet(cut) \subseteq ToSet(redis)
      BY <1>1, <2>1, Members
    <2> HIDE DEF cut
    <2>3. ToSet(cut \o writeBack) \subseteq ToSet(redis)
      BY <1>1, <2>1, <2>2, Members
    <2>4. cut \o writeBack \in Seq(Events)
      BY <1>1, <2>1
    <2>5. ToSet(memory \o inHand) \subseteq ToSet(cut \o writeBack)
      BY <1>1, <2>1, <2>4, EmbedsMembers
    <2> QED BY <1>2, <2>3, <2>5
  <1> QED BY <1>3, <1>4

LEMMA MemoryCopiedNext == MemoryIsCopied'
  BY MemoryCopied, PTL

LossInv == BackedUp /\ NotForgotten

\* Steps that make nothing more to send, and lose nothing.
LEMMA LossQuiet ==
    ASSUME MirrorInv, LossInv, Unsent' \subseteq Unsent, ToSet(redis) \subseteq ToSet(redis'),
           \/ loading' # "done"
           \/ loading = "done" /\ ToSet(memory) \cup ToSet(inHand)
                                     \subseteq ToSet(memory') \cup ToSet(inHand')
    PROVE  LossInv'
  BY DEF LossInv, BackedUp, NotForgotten, Numbers

\* An event that leaves the memory was handled.
LEMMA LossHandled ==
    ASSUME MirrorInv, MirrorInv', LossInv, UNCHANGED <<accepted, loading>>, loading = "done",
           delivered \subseteq delivered', discarded \subseteq discarded',
           ToSet(memory) \cup ToSet(inHand)
               \subseteq ToSet(memory') \cup ToSet(inHand') \cup delivered' \cup discarded'
    PROVE  LossInv'
  <1>1. Unsent' \subseteq Unsent
    BY DEF Unsent, Numbers
  <1>2. ASSUME NEW n \in Unsent'
        PROVE  n \in Numbers(ToSet(memory') \cup ToSet(inHand'))
    <2>1. PICK e \in ToSet(memory) \cup ToSet(inHand) : n = e.n
      BY <1>1, <1>2 DEF LossInv, NotForgotten, Numbers
    <2>2. e \notin delivered' \cup discarded'
      BY <1>2, <2>1 DEF Unsent, Numbers
    <2> QED BY <2>1, <2>2 DEF Numbers
  <1>3. NotForgotten'
    BY <1>2 DEF NotForgotten
  <1>4. (ToSet(memory) \cup ToSet(inHand))' \subseteq ToSet(redis')
    BY MemoryCopiedNext DEF MemoryIsCopied
  <1>5. BackedUp'
    BY <1>2, <1>4 DEF BackedUp, Numbers
  <1> QED BY <1>3, <1>5 DEF LossInv

LEMMA LossStep ==
    ASSUME Races = {}, MirrorInv, MirrorInv', LossInv, [Next]_vars
    PROVE  LossInv'
  <1> USE DEF queueVars, loopFrame, startVars, callVars, loopVars, boundVars, ghostVars
  <1>1. /\ memory \in Seq(Events) /\ redis \in Seq(Events) /\ batch \in Seq(Events)
        /\ inHand \in Seq(Events) /\ memory' \in Seq(Events) /\ accepted \in Nat
        /\ writeBack \in Seq(Events) /\ redis' \in Seq(Events) /\ inHand' \in Seq(Events)
    BY DEF MirrorInv, BaseInv, TypeOK
  <1>2. CASE UNCHANGED <<queueVars, accepted, inHand, loading, ghostVars>>
    BY <1>2 DEF LossInv, BackedUp, NotForgotten, Unsent
  <1>3. CASE LoadReads
    BY <1>3, LossQuiet DEF LoadReads, Unsent
  <1>4. CASE LoadEnds
    <2>1. memory' = redis /\ redis' = redis /\ Unsent' = Unsent
      BY <1>1, <1>4, NoEvents DEF LoadEnds, Prepended, MirrorInv, BaseInv, Loading, Unsent
    <2> QED BY <2>1 DEF LossInv, BackedUp, NotForgotten, Numbers
  <1>5. ASSUME NEW hooks \in Calls, EnqueueBegins(hooks) PROVE LossInv'
    <2> DEFINE new == NewEvents(hooks)
    <2>1. /\ new \in Seq(Events) /\ redis' = redis \o new /\ inHand' = new
          /\ inHand = <<>> /\ memory' = memory /\ loading = "done" /\ loading' = "done"
          /\ UNCHANGED <<delivered, discarded>> /\ accepted' = accepted + Len(hooks)
          /\ Len(hooks) \in Nat
          /\ accepted + 1..accepted + Len(hooks) \subseteq Numbers(ToSet(new))
      BY <1>5, NewEventsFacts DEF EnqueueBegins, MirrorInv, BaseInv, AtRest
    <2> HIDE DEF new
    <2>2. Unsent' \subseteq Unsent \cup Numbers(ToSet(new))
      BY <1>1, <2>1 DEF Unsent
    <2>3. ToSet(redis') = ToSet(redis) \cup ToSet(new) /\ ToSet(inHand) = {}
      BY <1>1, <2>1, Members
    <2> QED BY <2>1, <2>2, <2>3 DEF LossInv, BackedUp, NotForgotten, Numbers
  <1>13. CASE EnqueueFails
    <2>1. loading = "done"
      BY <1>13 DEF EnqueueFails, MirrorInv, BaseInv, Loading
    <2> QED BY <1>13, <2>1, LossHandled DEF EnqueueFails
  <1>6. CASE EnqueuePushes
    <2>1. memory' = memory \o inHand /\ UNCHANGED <<redis, loading>> /\ Unsent' = Unsent
      BY <1>6 DEF EnqueuePushes, Added, Unsent
    <2>2. ToSet(memory') = ToSet(memory) \cup ToSet(inHand)
      BY <1>1, <2>1, Members
    <2>3. loading = "done"
      BY <1>6 DEF EnqueuePushes, MirrorInv, BaseInv, Loading
    <2> QED BY <2>1, <2>2, <2>3, LossQuiet
  <1>7. CASE Sends
    <2>1. UNCHANGED <<memory, redis, inHand, loading>> /\ Unsent' \subseteq Unsent
      BY <1>7 DEF Sends, Unsent, Numbers
    <2> QED BY <1>7, <2>1, LossQuiet DEF Sends, MirrorInv, BaseInv, Loading
  <1>8. CASE LoopRemoves
    <2> DEFINE rest == SubSeq(memory, Len(batch) + 1, Len(memory))
    <2>1. loop = "answered" /\ ~aborted
      BY <1>8 DEF LoopRemoves, GoesOn
    <2>2. ToSet(batch) \cup ToSet(rest) = ToSet(memory) /\ rest \in Seq(Events)
      BY <2>1, BatchSplit DEF MirrorInv
    <2>3. /\ memory' = IF PutBack(rest) THEN rest \o batch ELSE rest
          /\ discarded' = IF ~success /\ Draining(rest) THEN discarded \cup ToSet(batch)
                          ELSE discarded
          /\ UNCHANGED <<redis, accepted, loading, inHand, delivered>>
      BY <1>8 DEF LoopRemoves
    <2>4. loading = "done" /\ (success => ToSet(batch) \subseteq delivered)
      BY <2>1 DEF MirrorInv, BaseInv, Loading, BatchRight
    <2> HIDE DEF rest
    <2>5. ToSet(rest \o batch) = ToSet(rest) \cup ToSet(batch)
      BY <1>1, <2>2, Members
    <2>6. ToSet(memory) \subseteq ToSet(memory') \cup delivered \cup discarded'
      BY <2>2, <2>3, <2>4, <2>5 DEF PutBack
    <2> QED BY <2>3, <2>4, <2>6, LossHandled
  <1>9. CASE LoopWrites
    <2>1. loading = "done"
      BY <1>9 DEF LoopWrites, MirrorInv, BaseInv, Loading
    <2> QED BY <1>9, <2>1, LossHandled DEF LoopWrites
  <1>10. ASSUME NEW hooks, Clear(hooks) PROVE LossInv'
    <2>1. PICK place \in Ordered(Staying(hooks)) :
            LET kept == [i \in DOMAIN place |-> memory[place[i]]]
            IN  /\ loading = "done" /\ memory' = kept
                /\ discarded' = discarded \cup {e \in ToSet(memory) : e.hook \in hooks}
                /\ UNCHANGED <<accepted, loading, inHand, delivered>>
      BY <1>10 DEF Clear
    <2> DEFINE kept == [i \in DOMAIN place |-> memory[place[i]]]
    <2>2. PICK list : list = kept
      OBVIOUS
    <2>3. memory' = list
      BY <2>1, <2>2
    <2>4. ToSet(list) = Others(hooks)
      BY <1>1, <2>2, KeptFacts
    <2>5. ToSet(memory) \subseteq ToSet(memory') \cup discarded'
      BY <2>1, <2>3, <2>4 DEF Others
    <2> QED BY <2>1, <2>5, LossHandled
  <1>11. CASE Restart \/ Crash
    <2>1. loading' = "reading" /\ redis' = redis /\ Unsent' = Unsent
      BY <1>11 DEF Restart, Crash, Starts, Unsent
    <2> QED BY <2>1, LossQuiet
  <1>12. CASE EnqueueReturns \/ Shutdown \/ LoopTakes \/ GivesUp \/ LoopAborted
                \/ LoopFails \/ LoopEnds \/ UNCHANGED vars
    BY <1>2, <1>12 DEF EnqueueReturns, Shutdown, LoopTakes, GivesUp, LoopAborted, LoopFails,
       LoopEnds, vars
  <1> QED
    BY <1>3, <1>4, <1>5, <1>6, <1>7, <1>8, <1>9, <1>10, <1>11, <1>12, <1>13
       DEF Next, LoopActs, Clears

THEOREM NoLoss == ASSUME Races = {} PROVE Spec => []LossInv
  <1>1. Init => LossInv
    BY DEF Init, LossInv, BackedUp, NotForgotten, Unsent, Numbers
  <1>2. MirrorInv /\ MirrorInv' /\ LossInv /\ [Next]_vars => LossInv'
    BY LossStep
  <1> QED BY <1>1, <1>2, Mirroring, PTL DEF Spec

\* Whatever the loop, a caller or a user is in the middle of, every event that
\* is still to be sent is in the copy.
THEOREM CopyIsComplete == ASSUME Races = {} PROVE Spec => []BackedUp
  BY NoLoss, PTL DEF LossInv

\* ... and, once the copy has been loaded, in memory or on its way there.
THEOREM MemoryIsComplete == ASSUME Races = {} PROVE Spec => []NotForgotten
  BY NoLoss, PTL DEF LossInv

-----------------------------------------------------------------------------
\* Events are delivered in their order

\* The events that nothing has happened to yet.
Fresh == Events \ (delivered \cup discarded \cup postponed)

\* Those of list that are in F come after events with smaller numbers only.
InTurn(list, F) ==
    \A i, j \in 1..Len(list) : (i < j /\ list[j] \in F) => list[i].n < list[j].n

\* What is in memory, and on its way there.
Queue == memory \o inHand

Numbered ==
    \A e \in ToSet(redis) \cup ToSet(Queue) \cup ToSet(writeBack) \cup delivered : e.n <= accepted

\* What the copy has and the memory has not was handled.
LeftOver == loading = "done" => ToSet(redis) \cap Fresh \subseteq ToSet(Queue)

\* Nothing fresh is behind what was delivered.
Passed == \A e \in delivered, f \in (ToSet(redis) \cup ToSet(Queue)) \cap Fresh : e.n <= f.n

OrderInv == /\ Numbered /\ InTurn(redis, Fresh) /\ InTurn(Queue, Fresh) /\ LeftOver /\ Passed
            /\ ToSet(writeBack) \subseteq postponed

\* A list stays in turn when its head is cut off, and old events are added.
LEMMA TurnTrimmed ==
    ASSUME NEW l \in Seq(Events), NEW w \in Seq(Events), NEW F, NEW k \in Nat,
           InTurn(l, F), ToSet(w) \cap F = {}
    PROVE  InTurn(SubSeq(l, k + 1, Len(l)) \o w, F)
  <1> DEFINE c == SubSeq(l, k + 1, Len(l))
             m == c \o w
  <1>1. /\ c \in Seq(Events) /\ Len(c) = IF k <= Len(l) THEN Len(l) - k ELSE 0
        /\ \A i \in 1..Len(l) - k : c[i] = l[k + i]
    OBVIOUS
  <1> HIDE DEF c
  <1>2. /\ Len(m) = Len(c) + Len(w) /\ Len(w) \in Nat /\ DOMAIN w = 1..Len(w)
        /\ \A i \in 1..Len(m) : m[i] = IF i <= Len(c) THEN c[i] ELSE w[i - Len(c)]
    <2>1. Len(w) \in Nat /\ DOMAIN w = 1..Len(w)
      OBVIOUS
    <2>2. Len(m) = Len(c) + Len(w)
      BY <1>1, ConcatProperties
    <2>3. \A i \in 1..Len(c) + Len(w) : m[i] = IF i <= Len(c) THEN c[i] ELSE w[i - Len(c)]
      BY <1>1, ConcatProperties
    <2> HIDE DEF m
    <2> QED BY <2>1, <2>2, <2>3
  <1> HIDE DEF m
  <1>3. SUFFICES ASSUME NEW i \in 1..Len(m), NEW j \in 1..Len(m), i < j, m[j] \in F
                 PROVE  m[i].n < m[j].n
    BY DEF InTurn, m, c
  <1>4. j <= Len(c)
    <2> SUFFICES ASSUME ~(j <= Len(c)) PROVE FALSE
      OBVIOUS
    <2>1. j - Len(c) \in 1..Len(w) /\ m[j] = w[j - Len(c)]
      BY <1>1, <1>2
    <2> QED BY <1>2, <1>3, <2>1 DEF ToSet
  <1>5. m[j] = l[k + j] /\ m[i] = l[k + i]
    <2>1. i \in 1..Len(l) - k /\ j \in 1..Len(l) - k /\ i <= Len(c)
      BY <1>1, <1>3, <1>4
    <2>2. m[j] = c[j] /\ m[i] = c[i]
      BY <1>2, <1>4, <2>1
    <2> QED BY <1>1, <2>1, <2>2
  <1>6. k + i \in 1..Len(l) /\ k + j \in 1..Len(l) /\ k + i < k + j
    BY <1>1, <1>3, <1>4
  <1>7. l[k + j] \in F
    BY <1>3, <1>5
  <1> QED BY <1>5, <1>6, <1>7 DEF InTurn

\* Where the elements of two lists are when they are joined.
LEMMA Joined ==
    ASSUME NEW s \in Seq(Events), NEW t \in Seq(Events)
    PROVE  /\ s \o t \in Seq(Events) /\ Len(s \o t) = Len(s) + Len(t)
           /\ Len(s) \in Nat /\ Len(t) \in Nat
           /\ \A i \in 1..Len(s) : (s \o t)[i] = s[i]
           /\ \A i \in 1..Len(t) : (s \o t)[Len(s) + i] = t[i]
  <1> DEFINE m == s \o t
  <1>1. /\ m \in Seq(Events) /\ Len(m) = Len(s) + Len(t) /\ Len(s) \in Nat /\ Len(t) \in Nat
        /\ \A i \in 1..Len(m) : m[i] = IF i <= Len(s) THEN s[i] ELSE t[i - Len(s)]
    BY ConcatProperties
  <1> HIDE DEF m
  <1>2. ASSUME NEW i \in 1..Len(s) PROVE m[i] = s[i]
    BY <1>1
  <1>3. ASSUME NEW i \in 1..Len(t) PROVE m[Len(s) + i] = t[i]
    <2>1. PICK k \in 1..Len(m) : k = Len(s) + i
      BY <1>1
    <2>2. k - Len(s) = i /\ ~(k <= Len(s))
      BY <1>1, <2>1
    <2>3. m[k] = t[k - Len(s)]
      BY <1>1, <2>2
    <2> QED BY <2>1, <2>2, <2>3
  <1> QED BY <1>1, <1>2, <1>3 DEF m

\* ... and when newer events are added.
LEMMA TurnJoined ==
    ASSUME NEW l \in Seq(Events), NEW w \in Seq(Events), NEW F, InTurn(l, F),
           \A i, j \in 1..Len(w) : i < j => w[i].n < w[j].n,
           \A d \in ToSet(l), e \in ToSet(w) : d.n < e.n
    PROVE  InTurn(l \o w, F)
  <1> DEFINE m == l \o w
  <1>1. /\ Len(m) = Len(l) + Len(w) /\ Len(l) \in Nat /\ Len(w) \in Nat
        /\ DOMAIN l = 1..Len(l) /\ DOMAIN w = 1..Len(w)
        /\ \A i \in 1..Len(l) : m[i] = l[i]
        /\ \A i \in 1..Len(w) : m[Len(l) + i] = w[i]
    BY Joined
  <1> HIDE DEF m
  <1> SUFFICES ASSUME NEW i \in 1..Len(m), NEW j \in 1..Len(m), i < j, m[j] \in F
               PROVE  m[i].n < m[j].n
    BY DEF InTurn, m
  <1>2. CASE j <= Len(l)
    <2>1. i \in 1..Len(l) /\ j \in 1..Len(l)
      BY <1>1, <1>2
    <2> QED BY <1>1, <2>1 DEF InTurn
  <1>3. CASE j > Len(l)
    <2>1. PICK y \in 1..Len(w) : j = Len(l) + y
      <3>1. j - Len(l) \in 1..Len(w) /\ j = Len(l) + (j - Len(l))
        BY <1>1, <1>3
      <3> QED BY <3>1
    <2>2. m[j] = w[y]
      BY <1>1, <2>1
    <2>3. CASE i <= Len(l)
      <3>1. m[i] \in ToSet(l) /\ m[j] \in ToSet(w)
        <4>1. i \in 1..Len(l) /\ m[i] = l[i]
          BY <1>1, <2>3
        <4> QED BY <1>1, <2>2, <4>1 DEF ToSet
      <3> QED BY <3>1
    <2>4. CASE i > Len(l)
      <3>1. PICK x \in 1..Len(w) : i = Len(l) + x
        <4>1. i - Len(l) \in 1..Len(w) /\ i = Len(l) + (i - Len(l))
          BY <1>1, <2>4
        <4> QED BY <4>1
      <3>2. m[i] = w[x] /\ x < y
        BY <1>1, <2>1, <3>1
      <3> QED BY <2>2, <3>2
    <2> QED BY <1>1, <2>3, <2>4
  <1> QED BY <1>1, <1>2, <1>3

\* What is in a list that is in turn is in turn.
LEMMA TurnPart ==
    ASSUME NEW l \in Seq(Events), NEW q \in Seq(Events), NEW F, NEW G \in SUBSET F,
           InTurn(l, F), Embeds(l, q)
    PROVE  InTurn(q, G)
  <1>1. PICK f \in [1..Len(q) -> 1..Len(l)] :
            /\ \A i, j \in 1..Len(q) : i < j => f[i] < f[j]
            /\ \A i \in 1..Len(q) : q[i] = l[f[i]]
    BY DEF Embeds
  <1> SUFFICES ASSUME NEW i \in 1..Len(q), NEW j \in 1..Len(q), i < j, q[j] \in G
               PROVE  q[i].n < q[j].n
    BY DEF InTurn
  <1>2. f[i] \in 1..Len(l) /\ f[j] \in 1..Len(l) /\ f[i] < f[j] /\ l[f[j]] \in F
    BY <1>1
  <1> QED BY <1>1, <1>2 DEF InTurn

\* ... and when those at its head, which are old, go after those that follow.
LEMMA TurnMoved ==
    ASSUME NEW b \in Seq(Events), NEW r \in Seq(Events), NEW h \in Seq(Events), NEW F,
           InTurn(b \o (r \o h), F), ToSet(b) \cap F = {}
    PROVE  InTurn(r \o h, F) /\ InTurn((r \o b) \o h, F)
  <1> DEFINE t == r \o h
             m == b \o t
             d == r \o b
             q == d \o h
  <1>1. /\ t \in Seq(Events) /\ d \in Seq(Events) /\ DOMAIN b = 1..Len(b)
        /\ Len(b) \in Nat /\ Len(r) \in Nat /\ Len(h) \in Nat
        /\ Len(t) = Len(r) + Len(h) /\ Len(d) = Len(r) + Len(b)
        /\ \A x \in 1..Len(r) : t[x] = r[x] /\ d[x] = r[x]
        /\ \A x \in 1..Len(h) : t[Len(r) + x] = h[x]
        /\ \A x \in 1..Len(b) : d[Len(r) + x] = b[x]
    BY Joined
  <1> HIDE DEF t, d
  <1>2. /\ Len(m) = Len(b) + Len(t) /\ Len(q) = Len(d) + Len(h)
        /\ \A x \in 1..Len(b) : m[x] = b[x]
        /\ \A x \in 1..Len(t) : m[Len(b) + x] = t[x]
        /\ \A x \in 1..Len(d) : q[x] = d[x]
        /\ \A x \in 1..Len(h) : q[Len(d) + x] = h[x]
    BY <1>1, Joined
  <1>3. InTurn(m, F)
    BY DEF t
  <1> HIDE DEF m, q
  <1>4. ASSUME NEW i \in 1..Len(t), NEW j \in 1..Len(t), i < j, t[j] \in F
        PROVE  t[i].n < t[j].n
    <2>1. Len(b) + i \in 1..Len(m) /\ Len(b) + j \in 1..Len(m) /\ Len(b) + i < Len(b) + j
      BY <1>1, <1>2, <1>4
    <2>2. m[Len(b) + i] = t[i] /\ m[Len(b) + j] = t[j]
      BY <1>2
    <2> QED BY <1>3, <1>4, <2>1, <2>2 DEF InTurn
  <1> DEFINE at(i) == IF i <= Len(r) THEN Len(b) + i
                      ELSE IF i <= Len(d) THEN i - Len(r) ELSE i
  <1>5. ASSUME NEW i \in 1..Len(q)
        PROVE  at(i) \in 1..Len(m) /\ q[i] = m[at(i)]
    <2>1. CASE i <= Len(r)
      <3>1. i \in 1..Len(r) /\ i \in 1..Len(t) /\ i \in 1..Len(d)
        BY <1>1, <2>1
      <3>2. q[i] = r[i] /\ m[Len(b) + i] = r[i]
        BY <1>1, <1>2, <3>1
      <3> QED BY <1>1, <1>2, <2>1, <3>1, <3>2
    <2>2. CASE ~(i <= Len(r)) /\ i <= Len(d)
      <3>1. PICK x \in 1..Len(b) : i = Len(r) + x /\ i - Len(r) = x
        <4>1. i - Len(r) \in 1..Len(b) /\ i = Len(r) + (i - Len(r))
          BY <1>1, <2>2
        <4> QED BY <4>1
      <3>2. i \in 1..Len(d) /\ x \in 1..Len(m)
        BY <1>1, <1>2, <2>2
      <3>3. q[i] = b[x] /\ m[x] = b[x]
        BY <1>1, <1>2, <3>1, <3>2
      <3> QED BY <2>2, <3>1, <3>2, <3>3
    <2>3. CASE ~(i <= Len(d))
      <3>1. PICK x \in 1..Len(h) : i = Len(d) + x
        <4>1. i - Len(d) \in 1..Len(h) /\ i = Len(d) + (i - Len(d))
          BY <1>1, <1>2, <2>3
        <4> QED BY <4>1
      <3>2. q[i] = h[x] /\ t[Len(r) + x] = h[x]
        BY <1>1, <1>2, <3>1
      <3>3. Len(r) + x \in 1..Len(t) /\ i = Len(b) + (Len(r) + x)
        BY <1>1, <3>1
      <3>4. m[i] = t[Len(r) + x] /\ i \in 1..Len(m)
        BY <1>1, <1>2, <3>3
      <3>5. ~(i <= Len(r))
        BY <1>1, <2>3
      <3> QED BY <2>3, <3>2, <3>4, <3>5
    <2> QED BY <2>1, <2>2, <2>3
  <1>6. ASSUME NEW i \in 1..Len(q), NEW j \in 1..Len(q), i < j, q[j] \in F
        PROVE  q[i].n < q[j].n
    <2>1. /\ at(i) \in 1..Len(m) /\ q[i] = m[at(i)]
          /\ at(j) \in 1..Len(m) /\ q[j] = m[at(j)]
      BY <1>5
    <2>2. at(j) > Len(b)
      <3> SUFFICES ASSUME ~(at(j) > Len(b)) PROVE FALSE
        OBVIOUS
      <3> HIDE DEF at
      <3>1. at(j) \in 1..Len(b)
        BY <1>1, <1>2, <2>1
      <3> QED BY <1>1, <1>2, <1>6, <2>1, <3>1 DEF ToSet
    <2>3. at(i) < at(j)
      BY <1>1, <1>2, <1>6, <2>2
    <2> HIDE DEF at
    <2> QED BY <1>3, <1>6, <2>1, <2>3 DEF InTurn
  <1> QED BY <1>4, <1>6 DEF InTurn, t, d, q

\* The lists have events.
LEMMA QueueFacts ==
    ASSUME BaseInv
    PROVE  /\ Queue \in Seq(Events) /\ redis \in Seq(Events) /\ memory \in Seq(Events)
           /\ inHand \in Seq(Events) /\ batch \in Seq(Events) /\ writeBack \in Seq(Events)
           /\ ToSet(Queue) = ToSet(memory) \cup ToSet(inHand)
           /\ ToSet(redis) \cup ToSet(Queue) \cup ToSet(writeBack) \cup delivered \subseteq Events
           /\ accepted \in Nat
  <1>1. /\ redis \in Seq(Events) /\ memory \in Seq(Events) /\ inHand \in Seq(Events)
        /\ batch \in Seq(Events) /\ writeBack \in Seq(Events) /\ delivered \subseteq Events
        /\ accepted \in Nat
    BY DEF BaseInv, TypeOK
  <1>2. Queue \in Seq(Events) /\ ToSet(Queue) = ToSet(memory) \cup ToSet(inHand)
    BY <1>1, Members DEF Queue
  <1> QED BY <1>1, <1>2, Members

\* Steps that make no event fresh, and change neither the lists nor what was
\* delivered.
LEMMA OrderQuiet ==
    ASSUME OrderInv, UNCHANGED <<redis, Queue, delivered, accepted, postponed>>,
           Fresh' \subseteq Fresh, loading' = "done" => loading = "done",
           ToSet(writeBack') \subseteq ToSet(writeBack)
    PROVE  OrderInv'
  BY DEF OrderInv, Numbered, InTurn, LeftOver, Passed

LEMMA OrderSends ==
    ASSUME BaseInv, OrderInv, Sends
    PROVE  OrderInv'
  <1>1. /\ memory \in Seq(Events) /\ inHand \in Seq(Events) /\ Queue \in Seq(Events)
        /\ ToSet(Queue) = ToSet(memory) \cup ToSet(inHand)
        /\ ToSet(redis) \cup ToSet(Queue) \subseteq Events
    BY QueueFacts
  <1>2. /\ delivered' = delivered \cup ToSet(batch) /\ Fresh' \subseteq Fresh
        /\ Fresh' \cap ToSet(batch) = {}
        /\ UNCHANGED <<memory, redis, inHand, Queue, accepted, loading, writeBack, postponed>>
    BY DEF Sends, Fresh, Queue, queueVars, loopFrame, startVars, callVars
  <1>3. PICK k \in 0..Len(memory) : batch = SubSeq(memory, 1, k)
    BY DEF Sends, BaseInv, BatchRight
  <1>4. /\ Len(batch) = k /\ DOMAIN batch = 1..k /\ k <= Len(Queue)
        /\ \A i \in 1..k : batch[i] = Queue[i]
    BY <1>1, <1>3 DEF Queue
  <1>5. ToSet(batch) \subseteq ToSet(memory)
    BY <1>1, <1>3, Members
  <1>6. ToSet(redis) \cap Fresh \subseteq ToSet(Queue)
    BY DEF Sends, OrderInv, LeftOver, BaseInv, Loading
  <1>7. ASSUME NEW e \in ToSet(batch), NEW f \in ToSet(Queue) \cap Fresh'
        PROVE  e.n <= f.n
    <2>1. PICK i \in 1..k : e = Queue[i]
      BY <1>4 DEF ToSet
    <2>2. PICK j \in 1..Len(Queue) : f = Queue[j]
      BY <1>1, <1>7 DEF ToSet
    <2>3. ~(j <= k)
      <3> SUFFICES ASSUME j <= k PROVE FALSE
        OBVIOUS
      <3>1. j \in 1..k
        BY <2>2
      <3>2. f \in ToSet(batch)
        BY <1>4, <2>2, <3>1 DEF ToSet
      <3> QED BY <1>2, <1>7, <3>2
    <2>4. i \in 1..Len(Queue) /\ i < j /\ Queue[j] \in Fresh
      BY <1>2, <1>4, <1>7, <2>1, <2>2, <2>3
    <2>5. e.n < f.n
      BY <2>1, <2>2, <2>4 DEF OrderInv, InTurn
    <2>6. e \in Events /\ f \in Events
      BY <1>1, <1>5, <1>7
    <2> QED BY <2>5, <2>6 DEF Events
  <1>8. Passed'
    BY <1>2, <1>6, <1>7 DEF OrderInv, Passed
  <1>9. Numbered'
    BY <1>1, <1>2, <1>5 DEF OrderInv, Numbered
  <1> QED BY <1>2, <1>8, <1>9 DEF OrderInv, InTurn, LeftOver

\* A clearing leaves fewer events, in their order, in memory and in the copy.
LEMMA OrderClear ==
    ASSUME BaseInv, OrderInv, NEW hooks, Clear(hooks)
    PROVE  OrderInv'
  <1>1. PICK place \in Ordered(Staying(hooks)) :
          LET kept == [i \in DOMAIN place |-> memory[place[i]]]
          IN  /\ memory' = kept
              /\ redis' \in {kept, redis}
              /\ discarded' = discarded \cup {e \in ToSet(memory) : e.hook \in hooks}
              /\ UNCHANGED <<accepted, inHand, loading, delivered, postponed, writeBack>>
    BY DEF Clear, Replaces, startVars, callVars
  <1>2. /\ memory \in Seq(Events) /\ redis \in Seq(Events) /\ inHand \in Seq(Events)
        /\ Queue \in Seq(Events) /\ ToSet(Queue) = ToSet(memory) \cup ToSet(inHand)
    BY QueueFacts
  <1>3. PICK kept : kept = [i \in DOMAIN place |-> memory[place[i]]]
    OBVIOUS
  <1>4. kept \in Seq(Events) /\ ToSet(kept) = Others(hooks) /\ Embeds(memory, kept)
    BY <1>2, <1>3, KeptFacts
  <1>5. memory' = kept /\ redis' \in {kept, redis} /\ Queue' = kept \o inHand
    BY <1>1, <1>3 DEF Queue
  <1>6. Fresh' \subseteq Fresh
    BY <1>1 DEF Fresh
  <1>7. ToSet(memory) \cap Fresh' \subseteq ToSet(kept)
    BY <1>1, <1>4 DEF Others, Fresh
  <1>8. Queue' \in Seq(Events) /\ ToSet(Queue') = ToSet(kept) \cup ToSet(inHand)
    BY <1>2, <1>4, <1>5, Members
  <1>9. ToSet(kept) \subseteq ToSet(memory)
    BY <1>4 DEF Others
  <1>10. InTurn(Queue, Fresh)'
    <2>1. Embeds(Queue, Queue')
      BY <1>2, <1>4, <1>5, EmbedsConcat DEF Queue
    <2>2. InTurn(Queue, Fresh)
      BY DEF OrderInv
    <2>3. InTurn(Queue', Fresh')
      BY <1>2, <1>6, <1>8, <2>1, <2>2, TurnPart
    <2> QED BY <2>3 DEF InTurn
  <1>11. InTurn(redis, Fresh)'
    <2>1. InTurn(redis, Fresh')
      BY <1>6 DEF OrderInv, InTurn
    <2>2. InTurn(kept, Fresh')
      <3>1. Embeds(Queue', kept \o inHand)
        BY <1>5, <1>8, EmbedsSelf
      <3>2. Embeds(Queue', kept)
        BY <1>2, <1>4, <1>8, <3>1, EmbedsHead
      <3>3. InTurn(Queue', Fresh')
        BY <1>10 DEF InTurn
      <3> QED BY <1>4, <1>8, <3>2, <3>3, TurnPart
    <2>3. InTurn(redis', Fresh')
      BY <1>5, <2>1, <2>2
    <2> QED BY <2>3 DEF InTurn
  <1>12. Numbered' /\ Passed'
    <2>1. ToSet(redis') \cup ToSet(Queue') \subseteq ToSet(redis) \cup ToSet(Queue)
      BY <1>2, <1>5, <1>8, <1>9
    <2> QED BY <1>1, <1>6, <2>1 DEF OrderInv, Numbered, Passed
  <1>13. LeftOver'
    <2>1. loading = "done" => ToSet(redis') \cap Fresh' \subseteq ToSet(Queue')
      <3>1. loading = "done" => ToSet(redis) \cap Fresh \subseteq ToSet(memory) \cup ToSet(inHand)
        BY <1>2 DEF OrderInv, LeftOver
      <3> QED BY <1>5, <1>6, <1>7, <1>8, <3>1
    <2> QED BY <1>1, <2>1 DEF LeftOver
  <1> QED BY <1>1, <1>10, <1>11, <1>12, <1>13 DEF OrderInv

\* The batch leaves the head of the queue; it is delivered, dropped or postponed.
LEMMA OrderRemoves ==
    ASSUME BaseInv, OrderInv, LoopRemoves
    PROVE  OrderInv'
  <1> DEFINE rest == SubSeq(memory, Len(batch) + 1, Len(memory))
  <1>1. loop = "answered" /\ ~aborted
    BY DEF LoopRemoves, GoesOn
  <1>2. /\ rest \in Seq(Events) /\ batch \in Seq(Events) /\ inHand \in Seq(Events)
        /\ Queue = batch \o (rest \o inHand)
        /\ ToSet(batch) \cup ToSet(rest) = ToSet(memory)
    BY <1>1, BatchSplit DEF Queue
  <1>3. /\ memory' = IF PutBack(rest) THEN rest \o batch ELSE rest
        /\ writeBack' = IF PutBack(rest) THEN batch ELSE <<>>
        /\ postponed' = IF PutBack(rest) THEN postponed \cup ToSet(batch) ELSE postponed
        /\ discarded' = IF ~success /\ Draining(rest) THEN discarded \cup ToSet(batch)
                        ELSE discarded
        /\ UNCHANGED <<redis, accepted, loading, inHand, delivered>>
    BY DEF LoopRemoves, loopFrame, startVars, callVars
  <1>4. success => ToSet(batch) \subseteq delivered
    BY <1>1 DEF BaseInv, BatchRight
  <1> HIDE DEF rest
  <1>5. Fresh' \subseteq Fresh /\ ToSet(batch) \cap Fresh' = {}
    BY <1>3, <1>4 DEF Fresh, PutBack
  <1>6. InTurn(batch \o (rest \o inHand), Fresh')
    BY <1>2, <1>5 DEF OrderInv, InTurn
  <1>7. InTurn(rest \o inHand, Fresh') /\ InTurn((rest \o batch) \o inHand, Fresh')
    BY <1>2, <1>5, <1>6, TurnMoved
  <1>8. Queue' = IF PutBack(rest) THEN (rest \o batch) \o inHand ELSE rest \o inHand
    BY <1>3 DEF Queue
  <1>9. ToSet(Queue) = ToSet(batch) \cup ToSet(rest) \cup ToSet(inHand)
    BY <1>2, QueueFacts
  <1>10. /\ ToSet(rest) \cup ToSet(inHand) \subseteq ToSet(Queue')
         /\ ToSet(Queue') \subseteq ToSet(Queue)
    <2> DEFINE both == rest \o batch
    <2>1. both \in Seq(Events) /\ ToSet(both) = ToSet(rest) \cup ToSet(batch)
      BY <1>2, Members
    <2>2. /\ ToSet((rest \o batch) \o inHand) = ToSet(rest) \cup ToSet(batch) \cup ToSet(inHand)
          /\ ToSet(rest \o inHand) = ToSet(rest) \cup ToSet(inHand)
      <3> HIDE DEF both
      <3>1. ToSet(both \o inHand) = ToSet(both) \cup ToSet(inHand)
        BY <1>2, <2>1, Members
      <3>2. ToSet(rest \o inHand) = ToSet(rest) \cup ToSet(inHand)
        BY <1>2, Members
      <3> QED BY <2>1, <3>1, <3>2 DEF both
    <2> QED BY <1>8, <1>9, <2>2
  <1>11. ToSet(writeBack') \subseteq ToSet(Queue) \cap postponed'
    <2>1. ToSet(<<>>) = {}
      BY DEF ToSet
    <2> QED BY <1>3, <1>9, <2>1
  <1>12. InTurn(redis, Fresh)' /\ InTurn(Queue, Fresh)'
    BY <1>3, <1>5, <1>7, <1>8 DEF OrderInv, InTurn
  <1>13. Numbered' /\ Passed'
    BY <1>3, <1>5, <1>10, <1>11 DEF OrderInv, Numbered, Passed
  <1>14. LeftOver'
    BY <1>3, <1>5, <1>9, <1>10 DEF OrderInv, LeftOver
  <1> QED BY <1>11, <1>12, <1>13, <1>14 DEF OrderInv

\* The copy loses its head, whatever that is by now, and gets what was postponed.
LEMMA OrderWrites ==
    ASSUME BaseInv, OrderInv, LoopWrites
    PROVE  OrderInv'
  <1> DEFINE cut == SubSeq(redis, Len(batch) + 1, Len(redis))
  <1>1. /\ redis \in Seq(Events) /\ batch \in Seq(Events) /\ writeBack \in Seq(Events)
        /\ Len(batch) \in Nat
    BY QueueFacts
  <1>2. loading = "done"
    BY DEF LoopWrites, BaseInv, Loading
  <1>3. /\ redis' = cut \o writeBack /\ writeBack' = <<>>
        /\ UNCHANGED <<Queue, accepted, loading, delivered, Fresh, postponed>>
    BY DEF LoopWrites, NextTurn, Trimmed, Fresh, Queue, loopFrame, startVars, callVars, ghostVars
  <1>4. ToSet(writeBack) \cap Fresh = {}
    BY DEF OrderInv, Fresh
  <1>5. InTurn(cut \o writeBack, Fresh)
    BY <1>1, <1>4, TurnTrimmed DEF OrderInv
  <1>6. cut \in Seq(Events) /\ ToSet(cut) \subseteq ToSet(redis)
    <2>1. CASE Len(batch) <= Len(redis)
      BY <1>1, <2>1, Members
    <2>2. CASE ~(Len(batch) <= Len(redis))
      BY <1>1, <2>2 DEF ToSet
    <2> QED BY <2>1, <2>2
  <1> HIDE DEF cut
  <1>7. ToSet(redis') \subseteq ToSet(redis) \cup ToSet(writeBack)
    BY <1>1, <1>3, <1>6, Members
  <1>8. InTurn(redis, Fresh)' /\ InTurn(Queue, Fresh)'
    BY <1>3, <1>5 DEF OrderInv
  <1>9. ToSet(writeBack') = {}
    BY <1>3 DEF ToSet
  <1>10. Numbered'
    BY <1>3, <1>7, <1>9 DEF OrderInv, Numbered
  <1>11. LeftOver' /\ Passed'
    BY <1>3, <1>4, <1>7 DEF OrderInv, LeftOver, Passed
  <1> QED BY <1>8, <1>9, <1>10, <1>11 DEF OrderInv

\* New events have the highest numbers.
LEMMA OrderBegins ==
    ASSUME "load" \notin Races, BaseInv, OrderInv, NEW hooks \in Calls, EnqueueBegins(hooks)
    PROVE  OrderInv'
  <1> DEFINE new == NewEvents(hooks)
  <1>1. /\ redis \in Seq(Events) /\ memory \in Seq(Events) /\ Queue \in Seq(Events)
        /\ ToSet(redis) \cup ToSet(Queue) \cup ToSet(writeBack) \cup delivered \subseteq Events
        /\ accepted \in Nat
    BY QueueFacts
  <1>2. /\ redis' = redis \o new /\ inHand' = new /\ accepted' = accepted + Len(hooks)
        /\ inHand = <<>> /\ accepted + Len(hooks) <= MaxEvents
        /\ UNCHANGED <<memory, loading, delivered, Fresh, writeBack, postponed>>
    BY DEF EnqueueBegins, BaseInv, AtRest, Fresh, startVars, loopVars, ghostVars
  <1>3. /\ new \in Seq(Events) /\ Len(hooks) \in Nat
        /\ \A i, j \in 1..Len(new) : i < j => new[i].n < new[j].n
        /\ \A e \in ToSet(new) : e.n \in accepted + 1..accepted + Len(hooks)
    <2>1. TypeOK
      BY DEF BaseInv
    <2>2. /\ Len(hooks) \in Nat /\ new \in Seq(Events) /\ Len(new) = Len(hooks)
          /\ \A i \in 1..Len(hooks) : new[i].n = accepted + i
          /\ \A e \in ToSet(new) : e.n \in accepted + 1..accepted + Len(hooks)
      BY <1>2, <2>1, NewEventsFacts
    <2> HIDE DEF new
    <2> QED BY <1>1, <2>2
  <1> HIDE DEF new
  <1>4. Queue = memory
    BY <1>1, <1>2, NoEvents DEF Queue
  <1>5. Queue' = Queue \o new
    BY <1>2, <1>4 DEF Queue
  <1>6. /\ ToSet(redis') = ToSet(redis) \cup ToSet(new)
        /\ ToSet(Queue') = ToSet(Queue) \cup ToSet(new)
    BY <1>1, <1>2, <1>3, <1>5, Members
  <1>7. \A e \in ToSet(redis) \cup ToSet(Queue) \cup ToSet(writeBack) \cup delivered :
           e.n \in Nat /\ e.n <= accepted
    BY <1>1 DEF OrderInv, Numbered, Events
  <1>8. \A e \in ToSet(redis) \cup ToSet(Queue) \cup ToSet(writeBack) \cup delivered,
           f \in ToSet(new) : e.n < f.n /\ e.n <= f.n
    BY <1>1, <1>3, <1>7
  <1>9. InTurn(redis, Fresh)' /\ InTurn(Queue, Fresh)'
    <2>1. InTurn(redis \o new, Fresh) /\ InTurn(Queue \o new, Fresh)
      <3>1. InTurn(redis \o new, Fresh)
        BY <1>1, <1>3, <1>8, TurnJoined DEF OrderInv
      <3>2. InTurn(Queue \o new, Fresh)
        BY <1>1, <1>3, <1>8, TurnJoined DEF OrderInv
      <3> QED BY <3>1, <3>2
    <2> QED BY <1>2, <1>5, <2>1
  <1>10. Numbered'
    <2>1. \A e \in ToSet(new) : e.n <= accepted'
      BY <1>1, <1>2, <1>3
    <2>2. \A e \in ToSet(redis) \cup ToSet(Queue) \cup ToSet(writeBack) \cup delivered :
             e.n <= accepted'
      BY <1>1, <1>2, <1>3, <1>7
    <2> QED BY <1>2, <1>6, <2>1, <2>2 DEF Numbered
  <1>11. LeftOver'
    BY <1>2, <1>6 DEF OrderInv, LeftOver
  <1>12. Passed'
    BY <1>2, <1>6, <1>8 DEF OrderInv, Passed
  <1> QED BY <1>2, <1>9, <1>10, <1>11, <1>12 DEF OrderInv

\* The caller is told that its events were not queued; the copy may have them.
LEMMA OrderFails ==
    ASSUME BaseInv, OrderInv, EnqueueFails
    PROVE  OrderInv'
  <1>1. /\ memory \in Seq(Events) /\ inHand \in Seq(Events) /\ Queue \in Seq(Events)
        /\ ToSet(Queue) = ToSet(memory) \cup ToSet(inHand)
    BY QueueFacts
  <1>2. /\ inHand' = <<>> /\ discarded' = discarded \cup ToSet(inHand)
        /\ UNCHANGED <<memory, redis, loading, accepted, writeBack, delivered, postponed>>
    BY DEF EnqueueFails, queueVars, startVars, loopVars
  <1>3. Queue' = memory
    BY <1>1, <1>2, NoEvents DEF Queue
  <1>4. Fresh' \subseteq Fresh /\ ToSet(inHand) \cap Fresh' = {}
    BY <1>2 DEF Fresh
  <1>5. InTurn(redis, Fresh)' /\ InTurn(Queue, Fresh)'
    <2>1. InTurn(Queue, Fresh) /\ InTurn(redis, Fresh)
      BY DEF OrderInv
    <2>2. Embeds(Queue, memory)
      <3>1. Embeds(Queue, memory \o inHand)
        BY <1>1, EmbedsSelf DEF Queue
      <3> QED BY <1>1, <3>1, EmbedsHead
    <2>3. InTurn(memory, Fresh')
      BY <1>1, <1>4, <2>1, <2>2, TurnPart
    <2> QED BY <1>2, <1>3, <1>4, <2>1, <2>3 DEF InTurn
  <1>6. Numbered' /\ Passed'
    BY <1>1, <1>2, <1>3, <1>4 DEF OrderInv, Numbered, Passed
  <1>7. LeftOver'
    BY <1>1, <1>2, <1>3, <1>4 DEF OrderInv, LeftOver
  <1> QED BY <1>2, <1>5, <1>6, <1>7 DEF OrderInv

\* A process that starts has only what the copy has.
LEMMA OrderStarts ==
    ASSUME BaseInv, OrderInv, \/ Starts /\ UNCHANGED <<redis, accepted, ghostVars>>
                              \/ LoadEnds
    PROVE  OrderInv'
  <1>1. /\ UNCHANGED <<redis, accepted, delivered, Fresh, postponed>>
        /\ writeBack' = writeBack \/ writeBack' = <<>>
    <2>1. /\ redis' = redis /\ accepted' = accepted /\ delivered' = delivered
          /\ discarded' = discarded /\ postponed' = postponed
          /\ writeBack' = writeBack \/ writeBack' = <<>>
      BY DEF Starts, LoadEnds, ghostVars, callVars
    <2> QED BY <2>1 DEF Fresh
  <1>2. ToSet(<<>>) = {} /\ <<>> \o <<>> = <<>>
    BY DEF ToSet
  <1>3. Queue' = redis \/ (Queue' = <<>> /\ loading' # "done")
    <2>1. CASE Starts
      BY <1>2, <2>1 DEF Starts, Queue
    <2>2. CASE LoadEnds
      <3>1. loaded = redis /\ memory = <<>> /\ inHand = <<>> /\ inHand' = <<>>
        BY <2>2 DEF LoadEnds, BaseInv, Loading, callVars
      <3>2. memory' = redis \o <<>>
        BY <2>2, <3>1 DEF LoadEnds, Prepended
      <3>3. redis \in Seq(Events)
        BY QueueFacts
      <3>4. Queue' = redis
        BY <3>1, <3>2, <3>3, NoEvents DEF Queue
      <3> QED BY <3>4
    <2> QED BY <2>1, <2>2
  <1>4. Numbered' /\ Passed'
    BY <1>1, <1>2, <1>3 DEF OrderInv, Numbered, Passed
  <1>5. InTurn(Queue, Fresh)' /\ InTurn(redis, Fresh)'
    BY <1>1, <1>3 DEF OrderInv, InTurn
  <1>6. LeftOver'
    BY <1>1, <1>3 DEF LeftOver
  <1> QED BY <1>1, <1>2, <1>4, <1>5, <1>6 DEF OrderInv

LEMMA OrderStep ==
    ASSUME "load" \notin Races, BaseInv, OrderInv, [Next]_vars
    PROVE  OrderInv'
  <1> USE DEF queueVars, loopFrame, startVars, callVars, loopVars, boundVars, ghostVars
  <1>1. CASE EnqueuePushes
    <2>1. Queue' = Queue
      BY <1>1, QueueFacts, NoEvents DEF EnqueuePushes, Added, Queue
    <2> QED BY <1>1, <2>1, OrderQuiet DEF EnqueuePushes, Fresh
  <1>2. CASE Restart \/ Crash
    BY <1>2, OrderStarts DEF Restart, Crash
  <1>3. CASE LoopFails
    <2>1. ToSet(writeBack') = {}
      BY <1>3 DEF LoopFails, ToSet
    <2> QED BY <1>3, <2>1, OrderQuiet DEF LoopFails, NextTurn, Queue, Fresh
  <1>4. CASE LoadReads \/ EnqueueReturns \/ Shutdown \/ UNCHANGED vars
    BY <1>4, OrderQuiet DEF LoadReads, EnqueueReturns, Shutdown, vars, Queue, Fresh
  <1>5. CASE LoopTakes \/ GivesUp \/ LoopAborted \/ LoopEnds
    BY <1>5, OrderQuiet DEF LoopTakes, GivesUp, LoopAborted, NextTurn, LoopEnds, Queue, Fresh
  <1> QED
    BY <1>1, <1>2, <1>3, <1>4, <1>5, OrderBegins, OrderFails, OrderSends, OrderClear, OrderRemoves,
       OrderWrites, OrderStarts
       DEF Next, LoopActs, Clears

LEMMA OrderShows ==
    ASSUME BaseInv, OrderInv
    PROVE  FifoPerHook
  <1> SUFFICES ASSUME NEW e \in delivered,
                      NEW f \in ToSet(memory) \cup ToSet(redis) \cup ToSet(loaded),
                      f.n < e.n, f \notin postponed, f \notin delivered \cup discarded
               PROVE  FALSE
    BY DEF FifoPerHook
  <1>1. f \in ToSet(redis) \cup ToSet(Queue)
    <2>1. ToSet(<<>>) = {}
      BY DEF ToSet
    <2> QED BY <2>1, QueueFacts DEF BaseInv, Loading
  <1>2. e \in Events /\ f \in Events
    BY <1>1, QueueFacts
  <1>3. e.n <= f.n
    BY <1>1, <1>2 DEF OrderInv, Passed, Fresh
  <1> QED BY <1>2, <1>3 DEF Events

\* An event is delivered only after those of its webhook that came before it and
\* never failed, through clearings, crashes and restarts, and through all that can
\* go wrong between the two writes of an operation.
THEOREM FirstInFirstOut == ASSUME "load" \notin Races PROVE Spec => []FifoPerHook
  <1>1. Init => OrderInv
    BY DEF Init, OrderInv, Numbered, InTurn, LeftOver, Passed, Queue, ToSet
  <1>2. BaseInv /\ OrderInv /\ [Next]_vars => OrderInv'
    BY OrderStep
  <1>3. Spec => []OrderInv
    BY <1>1, <1>2, BaseHolds, PTL DEF Spec
  <1> QED BY <1>3, OrderShows, BaseHolds, PTL
=============================================================================
